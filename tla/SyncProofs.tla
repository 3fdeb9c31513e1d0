----------------------------- MODULE SyncProofs -----------------------------
(***************************************************************************)
(* What Sync never gets wrong, whatever exchanges break, overlap with      *)
(* writing or are rehearsed: each side explains itself, and only gains.    *)
(* The second part, from Timed on, is about exchanges nothing disturbs:    *)
(* a mark passes only what arrived or is on its way, and of two wordings   *)
(* of one version somebody is told.                                        *)
(***************************************************************************)
EXTENDS Sync, FiniteSetTheorems, WellFoundedInduction, TLAPS

(* The tables of one side, as far as the proofs look at them.              *)
StoreOK ==
    /\ DOMAIN head = Sides /\ DOMAIN past = Sides /\ DOMAIN facts = Sides
    /\ \A s \in Sides : /\ DOMAIN head[s] \subseteq ObjectIds
                        /\ DOMAIN past[s] = ObjectIds
                        /\ \A o \in DOMAIN head[s] : head[s][o] \in Head

(* A payload tells of each object it brings every version, the last of     *)
(* them saying what the row says.                                          *)
Tells(p) ==
    /\ {"objects", "versions"} \subseteq DOMAIN p
    /\ DOMAIN p.objects \subseteq ObjectIds
    /\ DOMAIN p.versions = DOMAIN p.objects
    /\ \A o \in DOMAIN p.objects :
          /\ p.objects[o] \in Head
          /\ DOMAIN p.versions[o] = 1..p.objects[o].version
          /\ p.versions[o][p.objects[o].version] = Said(p.objects[o])

(* What this side sent it still holds, at that version or a later one.     *)
StillHeld(p) ==
    \A o \in DOMAIN p.objects :
        /\ o \in DOMAIN head["here"]
        /\ head["here"][o].version >= p.objects[o].version

Pushed == \/ talk.phase \in {"pushing", "pushed"}
          \/ talk.phase = "answered" /\ talk.direction = "both"

TalkOK ==
    /\ talk.phase \in {"idle", "pushing", "pushed", "answered"}
    /\ Pushed => Tells(talk.sent) /\ StillHeld(talk.sent)
    /\ talk.phase = "answered" => Tells(talk.raw)

SyncInv == clock \in Nat /\ StoreOK /\ HistoriesStayLocal /\ TalkOK

(* A payload that may be applied on a side: what it says of an object it   *)
(* does not bring is known there.                                          *)
Fits(s, p) ==
    /\ DOMAIN p.objects \subseteq ObjectIds
    /\ \A o \in DOMAIN p.objects :
          /\ p.objects[o] \in Head
          /\ o \in DOMAIN p.versions
          /\ DOMAIN p.versions[o] = 1..p.objects[o].version
          /\ p.versions[o][p.objects[o].version] = Said(p.objects[o])
    /\ \A o \in DOMAIN p.versions \ DOMAIN p.objects :
          /\ o \in Present(s)
          /\ DOMAIN p.versions[o] \subseteq 1..head[s][o].version
-----------------------------------------------------------------------------
(* The row an application leaves of an object: with the text, state and    *)
(* version of the row it took or of the row it kept.                       *)
LEMMA MergedRow ==
  ASSUME StoreOK, HistoriesStayLocal, NEW s \in Sides, NEW p, Fits(s, p), ~Refused(s, p),
         NEW o \in After(s, p)
  PROVE  /\ Merged(s, p, o) \in Head
         /\ Merged(s, p, o).link \in After(s, p) \cup {NoObject}
         /\ o \in Present(s) \ Taken(s, p) =>
               /\ Said(Merged(s, p, o)) = Said(head[s][o])
               /\ Merged(s, p, o).version = head[s][o].version
               /\ o \in DOMAIN p.objects => p.objects[o].version <= head[s][o].version
         /\ o \notin Present(s) \/ o \in Taken(s, p) =>
               /\ o \in DOMAIN p.objects
               /\ Said(Merged(s, p, o)) = Said(p.objects[o])
               /\ Merged(s, p, o).version = p.objects[o].version
               /\ o \in Present(s) => p.objects[o].version > head[s][o].version
<1> DEFINE row == CASE o \in Arriving(s, p) -> [p.objects[o] EXCEPT !.link = NoObject]
                    [] o \in Taken(s, p)    -> p.objects[o]
                    [] OTHER                -> head[s][o]
<1>1. /\ After(s, p) = Present(s) \cup Arriving(s, p)
      /\ Arriving(s, p) = DOMAIN p.objects \ Present(s)
      /\ Taken(s, p) \subseteq DOMAIN p.objects \cap Present(s)
      /\ Present(s) = DOMAIN head[s] /\ Present(s) \subseteq ObjectIds
  BY DEF After, Arriving, Taken, Contested, Present, StoreOK
<1>2. \A q \in DOMAIN p.objects : p.objects[q] \in Head
  BY DEF Fits
<1>3. \A q \in Present(s) : head[s][q] \in Head
  BY <1>1 DEF StoreOK
<1>4. Merged(s, p, o) = IF /\ o \in DOMAIN p.objects
                           /\ p.objects[o].link \in After(s, p)
                           /\ row.link = NoObject
                        THEN [row EXCEPT !.link = p.objects[o].link]
                        ELSE row
  BY DEF Merged
<1>5. CASE o \in Arriving(s, p)
  <2>1. row = [p.objects[o] EXCEPT !.link = NoObject] /\ o \in DOMAIN p.objects /\ o \notin Present(s)
    BY <1>1, <1>5
  <2> HIDE DEF row
  <2>2. p.objects[o] \in Head
    BY <1>2, <2>1
  <2>3. /\ row \in Head /\ row.link = NoObject /\ Said(row) = Said(p.objects[o])
        /\ row.version = p.objects[o].version
    BY <2>1, <2>2 DEF Head, Said
  <2>4. CASE p.objects[o].link \in After(s, p)
    <3>1. Merged(s, p, o) = [row EXCEPT !.link = p.objects[o].link]
      BY <1>4, <2>1, <2>3, <2>4
    <3> QED BY <1>1, <2>1, <2>2, <2>3, <2>4, <3>1 DEF Head, Said
  <2>5. CASE p.objects[o].link \notin After(s, p)
    <3>1. Merged(s, p, o) = row
      BY <1>4, <2>5
    <3> QED BY <1>1, <2>1, <2>3, <3>1
  <2> QED BY <2>4, <2>5
<1>6. CASE o \in Taken(s, p)
  <2>1. /\ o \in Present(s) /\ o \in DOMAIN p.objects /\ o \notin Arriving(s, p)
        /\ p.objects[o].version > head[s][o].version
    BY <1>1, <1>6 DEF Taken
  <2>2. row = p.objects[o]
    BY <1>6, <2>1
  <2> HIDE DEF row
  <2>3. p.objects[o].link \in After(s, p) \cup {NoObject}
    BY <1>1, <1>6 DEF Refused
  <2>4. p.objects[o] \in Head
    BY <1>2, <2>1
  <2>5. Merged(s, p, o) = p.objects[o]
    BY <1>4, <2>2, <2>4 DEF Head
  <2> QED BY <1>6, <2>1, <2>3, <2>4, <2>5
<1>7. CASE o \in Present(s) \ Taken(s, p)
  <2>1. row = head[s][o] /\ head[s][o] \in Head
    BY <1>1, <1>3, <1>7
  <2> HIDE DEF row
  <2>2. head[s][o].link \in Present(s) \cup {NoObject}
    BY <1>7 DEF HistoriesStayLocal, LinksStayLocal
  <2>3. o \in DOMAIN p.objects => p.objects[o].version <= head[s][o].version
    <3>1. /\ DOMAIN past[s][o] = 1..head[s][o].version
          /\ past[s][o][head[s][o].version] = Said(head[s][o])
      BY <1>1, <1>7 DEF HistoriesStayLocal, HeadIsLatestVersion
    <3>2. Said(head[s][o]).text = head[s][o].text /\ head[s][o].version \in Nat \ {0}
      BY <2>1 DEF Said, Head
    <3>3. SharesHistory(s, o)
      BY <3>1, <3>2 DEF SharesHistory
    <3> QED BY <1>2, <1>7, <2>1, <3>3 DEF Taken, Contested, Head
  <2>4. CASE Merged(s, p, o) = row
    BY <1>1, <1>7, <2>1, <2>2, <2>3, <2>4
  <2>5. CASE Merged(s, p, o) = [row EXCEPT !.link = p.objects[o].link] /\ p.objects[o].link \in After(s, p)
    <3>1. After(s, p) \subseteq ObjectIds
      BY <1>1 DEF Fits
    <3> QED BY <1>7, <2>1, <2>3, <2>5, <3>1 DEF Head, Said
  <2> QED BY <1>4, <2>4, <2>5
<1> QED BY <1>1, <1>5, <1>6, <1>7

(* The text, state and version of a row once applied are all its side      *)
(* needs for its history: what the payload says of it comes with it.       *)
LEMMA AppliedHistory ==
  ASSUME StoreOK, HistoriesStayLocal, NEW s \in Sides, NEW p, Fits(s, p), ~Refused(s, p),
         Apply(s, p)
  PROVE  /\ \A o \in ObjectIds :
               IF o \in After(s, p)
               THEN /\ DOMAIN past'[s][o] = 1..Merged(s, p, o).version
                    /\ past'[s][o][Merged(s, p, o).version] = Said(Merged(s, p, o))
               ELSE DOMAIN past'[s][o] = {}
         /\ \A o \in ObjectIds : \A n \in DOMAIN past[s][o] :
               n \in DOMAIN past'[s][o] /\ past'[s][o][n] = past[s][o][n]
<1>1. /\ After(s, p) = Present(s) \cup (DOMAIN p.objects \ Present(s))
      /\ After(s, p) \subseteq ObjectIds
      /\ Present(s) = DOMAIN head[s] /\ Present(s) \subseteq ObjectIds
  BY DEF After, Arriving, Present, StoreOK, Fits
<1>2. ASSUME NEW o \in ObjectIds
      PROVE  past'[s][o] = IF o \in DOMAIN p.versions \cap After(s, p)
                           THEN [n \in DOMAIN past[s][o] \cup DOMAIN p.versions[o] |->
                                   IF n \in DOMAIN past[s][o] THEN past[s][o][n]
                                                              ELSE p.versions[o][n]]
                           ELSE past[s][o]
  BY DEF Apply, StoreOK
<1>3. ASSUME NEW o \in ObjectIds, NEW n \in DOMAIN past[s][o]
      PROVE  n \in DOMAIN past'[s][o] /\ past'[s][o][n] = past[s][o][n]
  BY <1>2
<1>4. ASSUME NEW o \in ObjectIds
      PROVE  IF o \in After(s, p)
             THEN /\ DOMAIN past'[s][o] = 1..Merged(s, p, o).version
                  /\ past'[s][o][Merged(s, p, o).version] = Said(Merged(s, p, o))
             ELSE DOMAIN past'[s][o] = {}
  <2>1. IF o \in Present(s)
        THEN /\ DOMAIN past[s][o] = 1..head[s][o].version
             /\ past[s][o][head[s][o].version] = Said(head[s][o])
             /\ head[s][o].version \in Nat \ {0}
        ELSE DOMAIN past[s][o] = {}
    BY <1>1 DEF HistoriesStayLocal, HeadIsLatestVersion, StoreOK, Head
  <2>2. CASE o \notin After(s, p)
    BY <1>1, <1>2, <2>1, <2>2
  <2>3. CASE o \in Present(s) \ Taken(s, p)
    <3>1. /\ Said(Merged(s, p, o)) = Said(head[s][o])
          /\ Merged(s, p, o).version = head[s][o].version
          /\ o \in DOMAIN p.objects => p.objects[o].version <= head[s][o].version
      BY <1>1, <2>3, MergedRow
    <3>2. o \in DOMAIN p.versions => DOMAIN p.versions[o] \subseteq 1..head[s][o].version
      <4>1. CASE o \in DOMAIN p.objects
        <5>1. DOMAIN p.versions[o] = 1..p.objects[o].version /\ p.objects[o].version \in Nat
          BY <4>1 DEF Fits, Head
        <5> QED BY <2>1, <2>3, <3>1, <4>1, <5>1
      <4>2. CASE o \notin DOMAIN p.objects
        BY <4>2 DEF Fits
      <4> QED BY <4>1, <4>2
    <3>3. DOMAIN past'[s][o] = DOMAIN past[s][o]
      BY <1>2, <2>1, <2>3, <3>2
    <3> QED BY <1>1, <1>3, <2>1, <2>3, <3>1, <3>3
  <2>4. CASE o \in After(s, p) /\ (o \notin Present(s) \/ o \in Taken(s, p))
    <3>1. /\ o \in DOMAIN p.objects
          /\ Said(Merged(s, p, o)) = Said(p.objects[o])
          /\ Merged(s, p, o).version = p.objects[o].version
          /\ o \in Present(s) => p.objects[o].version > head[s][o].version
      BY <2>4, MergedRow
    <3>2. /\ o \in DOMAIN p.versions /\ p.objects[o].version \in Nat \ {0}
          /\ DOMAIN p.versions[o] = 1..p.objects[o].version
          /\ p.versions[o][p.objects[o].version] = Said(p.objects[o])
      BY <3>1 DEF Fits, Head
    <3>3. /\ DOMAIN past[s][o] \subseteq 1..p.objects[o].version
          /\ p.objects[o].version \notin DOMAIN past[s][o]
      BY <2>1, <3>1, <3>2
    <3>4. /\ DOMAIN past'[s][o] = 1..p.objects[o].version
          /\ past'[s][o][p.objects[o].version] = p.versions[o][p.objects[o].version]
      <4>1. past'[s][o] = [n \in DOMAIN past[s][o] \cup DOMAIN p.versions[o] |->
                              IF n \in DOMAIN past[s][o] THEN past[s][o][n] ELSE p.versions[o][n]]
        BY <1>2, <2>4, <3>2
      <4>2. /\ DOMAIN past[s][o] \cup DOMAIN p.versions[o] = 1..p.objects[o].version
            /\ p.objects[o].version \in 1..p.objects[o].version
        BY <3>2, <3>3
      <4> QED BY <3>3, <4>1, <4>2
    <3> QED BY <2>4, <3>1, <3>2, <3>4
  <2> QED BY <1>1, <2>2, <2>3, <2>4
<1> QED BY <1>3, <1>4

(* Taking a payload in leaves a side explaining itself, and only adds to   *)
(* it; the other side is not touched.                                      *)
LEMMA ApplyingKeeps ==
  ASSUME StoreOK, HistoriesStayLocal, NEW s \in Sides, NEW p, Fits(s, p), Apply(s, p)
  PROVE  StoreOK' /\ HistoriesStayLocal' /\ Adds
<1>1. /\ ~Refused(s, p)
      /\ head' = [head EXCEPT ![s] = [o \in After(s, p) |-> Merged(s, p, o)]]
      /\ \A r \in Sides \ {s} : head'[r] = head[r] /\ past'[r] = past[r] /\ facts'[r] = facts[r]
      /\ DOMAIN facts[s] \subseteq DOMAIN facts'[s]
      /\ DOMAIN head' = Sides /\ DOMAIN past' = Sides /\ DOMAIN facts' = Sides
      /\ DOMAIN past'[s] = ObjectIds
  BY DEF Apply, StoreOK
<1>2. /\ DOMAIN head'[s] = After(s, p)
      /\ \A o \in After(s, p) : head'[s][o] = Merged(s, p, o)
  BY <1>1 DEF StoreOK
<1>3. After(s, p) \subseteq ObjectIds /\ Present(s) \subseteq After(s, p) /\ Present(s) = DOMAIN head[s]
  BY DEF After, Arriving, Present, StoreOK, Fits
<1>4. /\ \A o \in After(s, p) : /\ head'[s][o] \in Head
                                 /\ head'[s][o].link \in After(s, p) \cup {NoObject}
      /\ \A o \in Present(s) : head'[s][o].version >= head[s][o].version
  <2>1. \A o \in After(s, p) : Merged(s, p, o) \in Head /\ Merged(s, p, o).link \in After(s, p) \cup {NoObject}
    BY <1>1, MergedRow
  <2>2. ASSUME NEW o \in Present(s) PROVE Merged(s, p, o).version >= head[s][o].version
    <3>1. head[s][o].version \in Nat /\ Merged(s, p, o).version \in Nat
      BY <1>3, <2>1 DEF StoreOK, Head
    <3>2. /\ o \notin Taken(s, p) => Merged(s, p, o).version = head[s][o].version
          /\ o \in Taken(s, p) => Merged(s, p, o).version > head[s][o].version
      BY <1>1, <1>3, MergedRow
    <3> QED BY <3>1, <3>2
  <2> QED BY <1>2, <1>3, <2>1, <2>2
<1>5. StoreOK'
  BY <1>1, <1>2, <1>3, <1>4 DEF StoreOK
<1>6. HeadIsLatestVersion'
  <2>1. ASSUME NEW r \in Sides, NEW o \in ObjectIds
        PROVE  IF o \in DOMAIN head'[r]
               THEN /\ DOMAIN past'[r][o] = 1..head'[r][o].version
                    /\ past'[r][o][head'[r][o].version] = Said(head'[r][o])
               ELSE DOMAIN past'[r][o] = {}
    <3>1. CASE r = s
      BY <1>1, <1>2, <3>1, AppliedHistory
    <3>2. CASE r # s
      BY <1>1, <3>2 DEF HistoriesStayLocal, HeadIsLatestVersion, Present
    <3> QED BY <3>1, <3>2
  <2> QED BY <2>1 DEF HeadIsLatestVersion, Present, Said
<1>7. LinksStayLocal'
  <2>1. ASSUME NEW r \in Sides, NEW o \in DOMAIN head'[r]
        PROVE  head'[r][o].link \in DOMAIN head'[r] \cup {NoObject}
    BY <1>1, <1>2, <1>4 DEF HistoriesStayLocal, LinksStayLocal, Present
  <2> QED BY <2>1 DEF LinksStayLocal, Present
<1>8. Adds
  <2>1. ASSUME NEW r \in Sides
        PROVE  /\ DOMAIN facts[r] \subseteq DOMAIN facts'[r]
               /\ \A o \in Present(r) :
                     /\ o \in DOMAIN head'[r]
                     /\ head'[r][o].version >= head[r][o].version
                     /\ \A n \in DOMAIN past[r][o] :
                           n \in DOMAIN past'[r][o] /\ past'[r][o][n] = past[r][o][n]
    <3>1. CASE r = s
      BY <1>1, <1>2, <1>3, <1>4, <3>1, AppliedHistory
    <3>2. CASE r # s
      BY <1>1, <3>2 DEF Present, StoreOK, Head
    <3> QED BY <3>1, <3>2
  <2> QED BY <2>1 DEF Adds, Present
<1> QED BY <1>5, <1>6, <1>7, <1>8 DEF HistoriesStayLocal
-----------------------------------------------------------------------------
(* A payload is built from one side, so it tells what that side can        *)
(* explain.                                                                *)
LEMMA PayloadsTell ==
  ASSUME StoreOK, HistoriesStayLocal, NEW s \in Sides, NEW since
  PROVE  /\ Tells(ChangesSince(s, since))
         /\ \A o \in DOMAIN ChangesSince(s, since).objects :
               /\ o \in DOMAIN head[s]
               /\ ChangesSince(s, since).objects[o] = head[s][o]
<1> DEFINE p == ChangesSince(s, since)
           objs == Batch(head[s], since)
<1>1. /\ p.objects = [o \in objs |-> head[s][o]] /\ p.versions = [o \in objs |-> past[s][o]]
      /\ {"objects", "versions"} \subseteq DOMAIN p
  BY DEF ChangesSince
<1>2. objs \subseteq DOMAIN head[s]
  BY DEF Batch
<1> HIDE DEF p, objs
<1>3. \A o \in objs : /\ o \in ObjectIds /\ head[s][o] \in Head
                       /\ DOMAIN past[s][o] = 1..head[s][o].version
                       /\ past[s][o][head[s][o].version] = Said(head[s][o])
  BY <1>2 DEF HistoriesStayLocal, HeadIsLatestVersion, StoreOK, Present
<1>4. Tells(p) /\ \A o \in DOMAIN p.objects : o \in DOMAIN head[s] /\ p.objects[o] = head[s][o]
  BY <1>1, <1>2, <1>3 DEF Tells
<1> QED BY <1>4 DEF p

(* Whatever is told fits the other side, and an answer without its echo    *)
(* fits the side that asked.                                               *)
LEMMA WhatIsToldFits ==
  ASSUME NEW s \in Sides, NEW p, Tells(p)
  PROVE  Fits(s, p)
BY DEF Tells, Fits

(* What the other side answers, without what we sent it, fits our store.   *)
LEMMA AnswersFit ==
  ASSUME StoreOK, NEW p, NEW sent, Tells(p), Tells(sent), StillHeld(sent)
  PROVE  Fits("here", WithoutEcho(p, sent))
<1> DEFINE q == WithoutEcho(p, sent)
           kept == {x \in DOMAIN p.objects :
                      ~(/\ x \in DOMAIN sent.objects
                        /\ sent.objects[x].text = p.objects[x].text
                        /\ sent.objects[x].version = p.objects[x].version)}
<1>1. q = [p EXCEPT !.objects = [o \in kept |-> p.objects[o]]]
  BY DEF WithoutEcho
<1> HIDE DEF q
<1>2. q.versions = p.versions /\ q.objects = [o \in kept |-> p.objects[o]]
  BY <1>1 DEF Tells
<1>3. DOMAIN q.objects = kept /\ kept \subseteq DOMAIN p.objects
      /\ \A o \in kept : q.objects[o] = p.objects[o]
  BY <1>2
<1>4. \A o \in kept : /\ q.objects[o] \in Head
                       /\ o \in DOMAIN q.versions
                       /\ DOMAIN q.versions[o] = 1..q.objects[o].version
                       /\ q.versions[o][q.objects[o].version] = Said(q.objects[o])
  BY <1>2, <1>3 DEF Tells
<1>5. ASSUME NEW o \in DOMAIN q.versions \ DOMAIN q.objects
      PROVE  o \in Present("here") /\ DOMAIN q.versions[o] \subseteq 1..head["here"][o].version
  <2>1. /\ o \in DOMAIN p.objects /\ o \in DOMAIN sent.objects
        /\ sent.objects[o].version = p.objects[o].version
        /\ DOMAIN q.versions[o] = 1..p.objects[o].version
    BY <1>2, <1>3 DEF Tells
  <2>2. o \in DOMAIN head["here"] /\ head["here"][o].version >= p.objects[o].version
    BY <2>1 DEF StillHeld
  <2>3. head["here"][o].version \in Nat /\ p.objects[o].version \in Nat
    BY <2>1, <2>2 DEF StoreOK, Tells, Head, Sides
  <2> QED BY <2>1, <2>2, <2>3 DEF Present
<1>6. DOMAIN q.objects \subseteq ObjectIds
  BY <1>3 DEF Tells
<1>7. Fits("here", q)
  BY <1>3, <1>4, <1>5, <1>6 DEF Fits
<1> QED BY <1>7 DEF q
-----------------------------------------------------------------------------
(* A person writes.                                                        *)
LEMMA PuttingKeeps ==
  ASSUME StoreOK, HistoriesStayLocal, NEW s \in Sides, NEW o \in ObjectIds, NEW row \in Head,
         Put(s, o, row), row.link \in Present(s) \cup {NoObject},
         row.version = IF o \in Present(s) THEN head[s][o].version + 1 ELSE 1
  PROVE  StoreOK' /\ HistoriesStayLocal' /\ Adds
<1>1. /\ row.version \notin DOMAIN past[s][o]
      /\ head' = [head EXCEPT ![s] = With(head[s], o, row)]
      /\ past' = [past EXCEPT ![s][o] = With(past[s][o], row.version, Said(row))]
      /\ facts' = facts
  BY DEF Put
<1>2. /\ DOMAIN head' = Sides /\ DOMAIN past' = Sides /\ DOMAIN facts' = Sides
      /\ head'[s] = With(head[s], o, row)
      /\ past'[s][o] = With(past[s][o], row.version, Said(row))
      /\ DOMAIN past'[s] = ObjectIds
      /\ \A r \in Sides \ {s} : head'[r] = head[r] /\ past'[r] = past[r]
      /\ \A q \in ObjectIds \ {o} : past'[s][q] = past[s][q]
  BY <1>1 DEF StoreOK
<1>3. /\ DOMAIN head'[s] = DOMAIN head[s] \cup {o}
      /\ head'[s][o] = row
      /\ \A q \in DOMAIN head[s] \ {o} : head'[s][q] = head[s][q]
      /\ DOMAIN past'[s][o] = DOMAIN past[s][o] \cup {row.version}
      /\ past'[s][o][row.version] = Said(row)
      /\ \A n \in DOMAIN past[s][o] : past'[s][o][n] = past[s][o][n]
  BY <1>1, <1>2 DEF With
<1>4. /\ row.version \in Nat \ {0}
      /\ DOMAIN past'[s][o] = 1..row.version
      /\ o \in DOMAIN head[s] => row.version >= head[s][o].version
  <2>1. CASE o \in DOMAIN head[s]
    <3>1. DOMAIN past[s][o] = 1..head[s][o].version /\ head[s][o].version \in Nat \ {0}
      BY <2>1 DEF HistoriesStayLocal, HeadIsLatestVersion, Present, StoreOK, Head
    <3> QED BY <1>3, <2>1, <3>1 DEF Present
  <2>2. CASE o \notin DOMAIN head[s]
    <3>1. DOMAIN past[s][o] = {}
      BY <2>2 DEF HistoriesStayLocal, HeadIsLatestVersion, Present
    <3> QED BY <1>3, <2>2, <3>1 DEF Present
  <2> QED BY <2>1, <2>2
<1>5. StoreOK'
  BY <1>2, <1>3 DEF StoreOK
<1>6. HeadIsLatestVersion'
  <2>1. ASSUME NEW r \in Sides, NEW q \in ObjectIds
        PROVE  IF q \in DOMAIN head'[r]
               THEN /\ DOMAIN past'[r][q] = 1..head'[r][q].version
                    /\ past'[r][q][head'[r][q].version] = Said(head'[r][q])
               ELSE DOMAIN past'[r][q] = {}
    <3>1. CASE r = s /\ q = o
      BY <1>3, <1>4, <3>1
    <3>2. CASE ~(r = s /\ q = o)
      <4>1. /\ past'[r][q] = past[r][q] /\ (q \in DOMAIN head'[r] <=> q \in DOMAIN head[r])
            /\ q \in DOMAIN head[r] => head'[r][q] = head[r][q]
        BY <1>2, <1>3, <3>2
      <4> QED BY <4>1 DEF HistoriesStayLocal, HeadIsLatestVersion, Present
    <3> QED BY <3>1, <3>2
  <2> QED BY <2>1 DEF HeadIsLatestVersion, Present, Said
<1>7. LinksStayLocal'
  <2>1. ASSUME NEW r \in Sides, NEW q \in DOMAIN head'[r]
        PROVE  head'[r][q].link \in DOMAIN head'[r] \cup {NoObject}
    BY <1>2, <1>3 DEF HistoriesStayLocal, LinksStayLocal, Present
  <2> QED BY <2>1 DEF LinksStayLocal, Present
<1>8. Adds
  <2>1. ASSUME NEW r \in Sides, NEW q \in DOMAIN head[r]
        PROVE  /\ q \in DOMAIN head'[r]
               /\ head'[r][q].version >= head[r][q].version
               /\ \A n \in DOMAIN past[r][q] :
                     n \in DOMAIN past'[r][q] /\ past'[r][q][n] = past[r][q][n]
    <3>1. q \in ObjectIds /\ head[r][q].version \in Nat
      BY DEF StoreOK, Head
    <3>2. CASE r = s /\ q = o
      BY <1>3, <1>4, <3>2
    <3>3. CASE ~(r = s /\ q = o)
      <4>1. past'[r][q] = past[r][q] /\ q \in DOMAIN head'[r] /\ head'[r][q] = head[r][q]
        BY <1>2, <1>3, <3>1, <3>3
      <4> QED BY <3>1, <4>1
    <3> QED BY <3>2, <3>3
  <2> QED BY <1>1, <2>1 DEF Adds, Present
<1> QED BY <1>5, <1>6, <1>7, <1>8 DEF HistoriesStayLocal

(* What people do on either side while no message is taken in.             *)
LEMMA PeopleKeep ==
  ASSUME clock \in Nat, StoreOK, HistoriesStayLocal, People
  PROVE  clock' \in Nat /\ StoreOK' /\ HistoriesStayLocal' /\ Adds /\ talk' = talk
<1>1. talk' = talk /\ clock' = clock + 1
  BY DEF People, Create, Edit, Learn, MayWrite
<1>2. CASE \E s \in Sides, o \in ObjectIds : Create(s, o)
  <2> PICK s \in Sides, o \in ObjectIds : Create(s, o)
    BY <1>2
  <2> PICK t \in Texts, st \in States :
         Put(s, o, [text |-> t, state |-> st, link |-> NoObject, version |-> 1, stamp |-> clock + 1])
    BY DEF Create
  <2> DEFINE row == [text |-> t, state |-> st, link |-> NoObject, version |-> 1, stamp |-> clock + 1]
  <2>1. o \notin Present(s)
    BY DEF Create, Known, Sides
  <2>2. row \in Head /\ row.link = NoObject /\ row.version = 1
    BY DEF Head
  <2>3. Put(s, o, row)
    OBVIOUS
  <2> HIDE DEF row
  <2> QED BY <1>1, <2>1, <2>2, <2>3, PuttingKeeps
<1>3. CASE \E s \in Sides, o \in ObjectIds : Edit(s, o)
  <2> PICK s \in Sides, o \in ObjectIds : Edit(s, o)
    BY <1>3
  <2>1. PICK next \in [text : Texts, state : States, link : ObjectIds \cup {NoObject}] :
           /\ o \in Present(s)
           /\ next.link = head[s][o].link \/ next.link \in Present(s)
           /\ Put(s, o, [text |-> next.text, state |-> next.state, link |-> next.link,
                         version |-> head[s][o].version + 1, stamp |-> clock + 1])
    BY DEF Edit
  <2> DEFINE row == [text |-> next.text, state |-> next.state, link |-> next.link,
                     version |-> head[s][o].version + 1, stamp |-> clock + 1]
  <2>2. head[s][o] \in Head
    BY <2>1 DEF StoreOK, Present
  <2>3. row \in Head /\ row.link = next.link /\ row.version = head[s][o].version + 1
    BY <2>2 DEF Head
  <2>4. row.link \in Present(s) \cup {NoObject}
    BY <2>1, <2>3 DEF HistoriesStayLocal, LinksStayLocal
  <2>5. Put(s, o, row)
    BY <2>1
  <2> HIDE DEF row
  <2> QED BY <1>1, <2>1, <2>3, <2>4, <2>5, PuttingKeeps
<1>4. CASE \E s \in Sides, f \in Facts : Learn(s, f)
  <2> PICK s \in Sides, f \in Facts : Learn(s, f)
    BY <1>4
  <2>1. /\ head' = head /\ past' = past /\ DOMAIN facts' = Sides
        /\ \A r \in Sides : DOMAIN facts[r] \subseteq DOMAIN facts'[r]
    <3>1. PICK v : facts' = [facts EXCEPT ![s] = With(facts[s], f, v)]
      BY DEF Learn
    <3> QED BY <3>1 DEF Learn, StoreOK, With
  <2>2. \A r \in Sides : \A o \in DOMAIN head[r] : head[r][o].version \in Nat
    BY DEF StoreOK, Head
  <2>3. StoreOK' /\ HistoriesStayLocal'
    BY <2>1 DEF StoreOK, HistoriesStayLocal, HeadIsLatestVersion, LinksStayLocal, Present, Said
  <2>4. Adds
    BY <2>1, <2>2 DEF Adds, Present
  <2> QED BY <1>1, <2>3, <2>4
<1> QED BY <1>2, <1>3, <1>4 DEF People

(* What was sent is still held after anything that only adds.              *)
LEMMA AddingKeepsSent ==
  ASSUME StoreOK, StoreOK', Adds, NEW p, Tells(p), StillHeld(p)
  PROVE  StillHeld(p)'
<1> SUFFICES ASSUME NEW o \in DOMAIN p.objects
             PROVE  o \in DOMAIN head'["here"] /\ head'["here"][o].version >= p.objects[o].version
  BY DEF StillHeld
<1>1. o \in DOMAIN head["here"] /\ head["here"][o].version >= p.objects[o].version
  BY DEF StillHeld
<1>2. "here" \in Sides
  BY DEF Sides
<1>3. o \in DOMAIN head'["here"] /\ head'["here"][o].version >= head["here"][o].version
  BY <1>1, <1>2 DEF Adds, Present
<1>4. /\ head["here"][o].version \in Nat /\ head'["here"][o].version \in Nat
      /\ p.objects[o].version \in Nat
  BY <1>1, <1>2, <1>3 DEF StoreOK, Tells, Head
<1> QED BY <1>1, <1>3, <1>4

(* A step that leaves every table alone only adds.                         *)
LEMMA LeavingAloneKeeps ==
  ASSUME StoreOK, HistoriesStayLocal, UNCHANGED store
  PROVE  StoreOK' /\ HistoriesStayLocal' /\ Adds
<1>1. \A r \in Sides : \A o \in DOMAIN head[r] : head[r][o].version \in Nat
  BY DEF StoreOK, Head
<1>2. head' = head /\ past' = past /\ facts' = facts
  BY DEF store
<1>3. StoreOK' /\ HistoriesStayLocal'
  BY <1>2 DEF StoreOK, HistoriesStayLocal, HeadIsLatestVersion, LinksStayLocal, Present, Said
<1> QED BY <1>1, <1>2, <1>3 DEF Adds, Present

(* What the two sides tell each other, rehearsals included.                *)
LEMMA ExchangeKeeps ==
  ASSUME SyncInv, Exchange \/ Rehearse
  PROVE  SyncInv' /\ Adds
<1>1. "here" \in Sides /\ "there" \in Sides
  BY DEF Sides
<1>2. clock \in Nat /\ clock' = clock /\ StoreOK /\ HistoriesStayLocal /\ TalkOK
  BY DEF SyncInv, Exchange, Rehearse, StartPush, PeerApplies, PeerAnswers, FinishSync, BreakSync
<1>3. Quiet.phase = "idle"
  BY DEF Quiet
<1>4. CASE \E d \in Directions : StartPush(d)
  <2> PICK d \in Directions : StartPush(d)
    BY <1>4
  <2>1. PICK sent : /\ sent = ChangesSince("here", mark["here"])
                    /\ talk' = [phase |-> "pushing", direction |-> d, sent |-> sent]
                    /\ UNCHANGED store
    BY DEF StartPush
  <2>2. /\ Tells(sent)
        /\ \A o \in DOMAIN sent.objects : o \in DOMAIN head["here"] /\ sent.objects[o] = head["here"][o]
    BY <1>1, <1>2, <2>1, PayloadsTell
  <2>3. StoreOK' /\ HistoriesStayLocal' /\ Adds
    BY <1>2, <2>1, LeavingAloneKeeps
  <2>4. StillHeld(sent)
    BY <1>1, <1>2, <2>2 DEF StillHeld, StoreOK, Head
  <2>5. StillHeld(sent)'
    BY <1>2, <2>2, <2>3, <2>4, AddingKeepsSent
  <2>6. Tells(sent)'
    BY <2>2 DEF Tells, Said
  <2>7. talk'.sent = sent /\ talk'.phase = "pushing"
    BY <2>1
  <2>8. TalkOK'
    BY <2>5, <2>6, <2>7 DEF TalkOK, Pushed
  <2> QED BY <1>2, <2>3, <2>8 DEF SyncInv
<1>5. CASE PeerApplies
  <2>1. PICK sent : sent = talk.sent
    OBVIOUS
  <2>2. Apply("there", sent) /\ talk.phase = "pushing"
    BY <1>5, <2>1 DEF PeerApplies
  <2>3. Tells(sent) /\ StillHeld(sent)
    BY <1>2, <2>1, <2>2 DEF TalkOK, Pushed
  <2>4. StoreOK' /\ HistoriesStayLocal' /\ Adds
    BY <1>1, <1>2, <2>2, <2>3, WhatIsToldFits, ApplyingKeeps
  <2>5. StillHeld(sent)' /\ Tells(sent)'
    <3>1. StillHeld(sent)'
      BY <1>2, <2>3, <2>4, AddingKeepsSent
    <3>2. Tells(sent)'
      BY <2>3 DEF Tells, Said
    <3> QED BY <3>1, <3>2
  <2>6. talk' = Quiet \/ (talk' = [talk EXCEPT !.phase = "pushed"])
    BY <1>5 DEF PeerApplies
  <2>7. CASE talk' = Quiet
    <3>1. talk'.phase = "idle"
      BY <1>3, <2>7
    <3> QED BY <1>2, <2>4, <3>1 DEF SyncInv, TalkOK, Pushed
  <2>8. CASE talk' = [talk EXCEPT !.phase = "pushed"]
    <3>1. talk'.phase = "pushed" /\ talk'.sent = sent
      BY <1>2, <2>1, <2>2, <2>8 DEF TalkOK
    <3> QED BY <1>2, <2>4, <2>5, <3>1 DEF SyncInv, TalkOK, Pushed
  <2> QED BY <2>6, <2>7, <2>8
<1>6. CASE PeerAnswers
  <2>1. PICK sent, raw :
           /\ sent = talk.sent
           /\ raw = ChangesSince("there", mark["there"])
           /\ \/ talk' = [phase |-> "answered", direction |-> "pull", raw |-> raw]
              \/ /\ talk.phase = "pushed"
                 /\ talk' = [phase |-> "answered", direction |-> "both", raw |-> raw, sent |-> sent]
           /\ UNCHANGED store
    BY <1>6 DEF PeerAnswers
  <2>2. Tells(raw)
    BY <1>1, <1>2, <2>1, PayloadsTell
  <2>3. StoreOK' /\ HistoriesStayLocal' /\ Adds
    BY <1>2, <2>1, LeavingAloneKeeps
  <2>4. Tells(raw)'
    BY <2>2 DEF Tells, Said
  <2>5. CASE talk' = [phase |-> "answered", direction |-> "pull", raw |-> raw]
    <3>1. talk'.phase = "answered" /\ talk'.direction = "pull" /\ talk'.raw = raw
      BY <2>5
    <3> QED BY <1>2, <2>3, <2>4, <3>1 DEF SyncInv, TalkOK, Pushed
  <2>6. CASE /\ talk.phase = "pushed"
             /\ talk' = [phase |-> "answered", direction |-> "both", raw |-> raw, sent |-> sent]
    <3>1. talk'.phase = "answered" /\ talk'.raw = raw /\ talk'.sent = sent
      BY <2>6
    <3>2. Tells(sent) /\ StillHeld(sent)
      BY <1>2, <2>1, <2>6 DEF TalkOK, Pushed
    <3>3. StillHeld(sent)'
      BY <1>2, <2>3, <3>2, AddingKeepsSent
    <3>4. Tells(sent)'
      BY <3>2 DEF Tells, Said
    <3> QED BY <1>2, <2>3, <2>4, <3>1, <3>3, <3>4 DEF SyncInv, TalkOK, Pushed
  <2> QED BY <2>1, <2>5, <2>6
<1>7. CASE FinishSync
  <2>1. talk.phase = "answered" /\ Apply("here", Incoming) /\ talk' = Quiet
    BY <1>7 DEF FinishSync
  <2>2. PICK p : p = Incoming
    OBVIOUS
  <2>3. Fits("here", p)
    <3>1. Tells(talk.raw)
      BY <1>2, <2>1 DEF TalkOK
    <3>2. CASE talk.direction = "both"
      <4>1. Tells(talk.sent) /\ StillHeld(talk.sent) /\ p = WithoutEcho(talk.raw, talk.sent)
        BY <1>2, <2>1, <2>2, <3>2 DEF TalkOK, Pushed, Incoming
      <4> QED BY <1>2, <3>1, <4>1, AnswersFit
    <3>3. CASE talk.direction # "both"
      BY <1>1, <2>2, <3>1, <3>3, WhatIsToldFits DEF Incoming
    <3> QED BY <3>2, <3>3
  <2>4. StoreOK' /\ HistoriesStayLocal' /\ Adds
    BY <1>1, <1>2, <2>1, <2>2, <2>3, ApplyingKeeps
  <2>5. talk'.phase = "idle"
    BY <1>3, <2>1
  <2> QED BY <1>2, <2>4, <2>5 DEF SyncInv, TalkOK, Pushed
<1>8. CASE BreakSync
  <2>1. UNCHANGED store /\ talk' = Quiet
    BY <1>8 DEF BreakSync
  <2>2. StoreOK' /\ HistoriesStayLocal' /\ Adds
    BY <1>2, <2>1, LeavingAloneKeeps
  <2>3. talk'.phase = "idle"
    BY <1>3, <2>1
  <2> QED BY <1>2, <2>2, <2>3 DEF SyncInv, TalkOK, Pushed
<1>9. CASE Rehearse
  <2>1. UNCHANGED store /\ talk' = talk
    BY <1>9 DEF Rehearse
  <2>2. StoreOK' /\ HistoriesStayLocal' /\ Adds
    BY <1>2, <2>1, LeavingAloneKeeps
  <2>3. head' = head
    BY <2>1 DEF store
  <2>4. TalkOK'
    BY <1>2, <2>1, <2>3 DEF TalkOK, Pushed, Tells, StillHeld, Said
  <2> QED BY <1>2, <2>2, <2>4 DEF SyncInv
<1> QED BY <1>4, <1>5, <1>6, <1>7, <1>8, <1>9 DEF Exchange

(* Every step keeps the invariant and only adds.                           *)
LEMMA SyncSteps == SyncInv /\ [Next]_vars => SyncInv' /\ [Adds]_vars
<1> SUFFICES ASSUME SyncInv, [Next]_vars PROVE SyncInv' /\ [Adds]_vars
  OBVIOUS
<1>1. clock \in Nat /\ StoreOK /\ HistoriesStayLocal /\ TalkOK
  BY DEF SyncInv
<1>2. CASE People
  <2>1. clock' \in Nat /\ StoreOK' /\ HistoriesStayLocal' /\ Adds /\ talk' = talk
    BY <1>1, <1>2, PeopleKeep
  <2>2. PICK sent, raw : sent = talk.sent /\ raw = talk.raw
    OBVIOUS
  <2>3. Tells(sent) /\ StillHeld(sent) => (Tells(sent) /\ StillHeld(sent))'
    <3>1. ASSUME Tells(sent), StillHeld(sent) PROVE StillHeld(sent)'
      BY <1>1, <2>1, <3>1, AddingKeepsSent
    <3> QED BY <3>1 DEF Tells, Said
  <2>4. Tells(raw) => Tells(raw)'
    BY DEF Tells, Said
  <2>5. TalkOK'
    BY <1>1, <2>1, <2>2, <2>3, <2>4 DEF TalkOK, Pushed
  <2> QED BY <2>1, <2>5 DEF SyncInv
<1>3. CASE Exchange \/ Rehearse
  BY <1>3, ExchangeKeeps
<1>4. CASE UNCHANGED vars
  <2>1. UNCHANGED store /\ talk' = talk /\ clock' = clock /\ head' = head
    BY <1>4 DEF vars, store
  <2>2. StoreOK' /\ HistoriesStayLocal' /\ Adds
    BY <1>1, <2>1, LeavingAloneKeeps
  <2>3. TalkOK'
    BY <1>1, <2>1 DEF TalkOK, Pushed, Tells, StillHeld, Said
  <2> QED BY <1>1, <2>1, <2>2, <2>3 DEF SyncInv
<1> QED BY <1>2, <1>3, <1>4 DEF Next

(* The invariant holds throughout.                                         *)
LEMMA SyncInvariant == Spec => []SyncInv
<1>1. Init => SyncInv
  <2> SUFFICES ASSUME Init PROVE SyncInv
    OBVIOUS
  <2>1. talk.phase = "idle"
    BY DEF Init, Quiet
  <2>2. /\ \A s \in Sides : DOMAIN head[s] = {} /\ DOMAIN past[s] = ObjectIds
        /\ \A s \in Sides, o \in ObjectIds : DOMAIN past[s][o] = {}
        /\ DOMAIN head = Sides /\ DOMAIN past = Sides /\ DOMAIN facts = Sides
        /\ clock \in Nat
    BY DEF Init
  <2>3. StoreOK /\ HistoriesStayLocal
    BY <2>2 DEF StoreOK, HistoriesStayLocal, HeadIsLatestVersion, LinksStayLocal, Present
  <2> QED BY <2>1, <2>2, <2>3 DEF SyncInv, TalkOK, Pushed
<1> QED BY <1>1, SyncSteps, PTL DEF Spec

(* Whatever an exchange brings in, head and history stay one on each side  *)
(* and every forward link leads to an object of the same side.             *)
THEOREM HistoriesStayTheirOwn == Spec => []HistoriesStayLocal
<1>1. SyncInv => HistoriesStayLocal
  BY DEF SyncInv
<1> QED BY <1>1, SyncInvariant, PTL

(* No exchange, broken or whole, and no rehearsal takes anything away.     *)
THEOREM NothingIsTakenAway == Spec => SyncOnlyAdds
<1>1. SyncInv /\ [Next]_vars => [Adds]_vars
  BY SyncSteps
<1> QED BY <1>1, SyncInvariant, PTL DEF Spec, SyncOnlyAdds
-----------------------------------------------------------------------------
(* Rows that were stamped by then, no two of them at once.                 *)
Timed(rows, top) ==
    /\ \A k \in DOMAIN rows : rows[k].stamp \in 1..top
    /\ \A j, k \in DOMAIN rows : rows[j].stamp = rows[k].stamp => j = k
Due(rows, since) == {k \in DOMAIN rows : rows[k].stamp > since}

(* Natural numbers have a least.                                           *)
LEMMA LeastExists ==
  ASSUME NEW S \in SUBSET Nat, S # {}
  PROVE  \E n \in S : \A m \in S : n <= m
<1>1. PICK n \in S : \A m \in S : ~(<<m, n>> \in OpToRel(<, Nat))
  BY NatLessThanWellFounded, WFMin
<1>2. \A m \in S : ~(m < n)
  BY <1>1 DEF OpToRel
<1> QED BY <1>2

(* And below a bound a greatest.                                           *)
LEMMA GreatestExists ==
  ASSUME NEW S \in SUBSET Nat, S # {}, NEW top \in Nat, \A n \in S : n <= top
  PROVE  \E n \in S : \A m \in S : m <= n
<1> DEFINE T == {k \in Nat : top - k \in S}
<1>1. T \subseteq Nat /\ T # {}
  <2>1. PICK n \in S : TRUE
    OBVIOUS
  <2>2. top - n \in T
    OBVIOUS
  <2> QED BY <2>2
<1>2. PICK k \in T : \A l \in T : k <= l
  <2> HIDE DEF T
  <2> QED BY <1>1, LeastExists
<1>3. ASSUME NEW m \in S PROVE m <= top - k
  <2>1. top - m \in T /\ m \in Nat /\ k \in Nat
    OBVIOUS
  <2> QED BY <1>2, <2>1
<1> QED BY <1>3

(* There are only finitely many rows, for there are only so many stamps.   *)
LEMMA RowsAreFew ==
  ASSUME NEW top \in Nat, NEW rows, Timed(rows, top)
  PROVE  IsFiniteSet(DOMAIN rows)
<1>1. PICK f : f = [k \in DOMAIN rows |-> rows[k].stamp]
  OBVIOUS
<1>2. f \in Injection(DOMAIN rows, 1..top)
  BY <1>1 DEF Timed, Injection, IsInjective
<1> QED BY <1>2, FS_Interval, FS_Injection

(* A payload of one kind takes the oldest due rows, all of them unless it  *)
(* is full, and has as many stamps as rows.                                *)
LEMMA BatchIsOldest ==
  ASSUME NEW top \in Nat, NEW rows, Timed(rows, top), NEW since \in Nat,
         NEW B, B = Batch(rows, since)
  PROVE  /\ B \subseteq Due(rows, since)
         /\ \A k \in Due(rows, since), m \in B : rows[k].stamp <= rows[m].stamp => k \in B
         /\ Cardinality(B) \in Nat
         /\ Cardinality(B) < Limit => B = Due(rows, since)
         /\ Cardinality(Stamps(rows, B)) = Cardinality(B)
<1>1. PICK due : due = Due(rows, since)
  OBVIOUS
<1>2. due \subseteq DOMAIN rows /\ \A k \in due : rows[k].stamp \in Nat
  BY <1>1 DEF Due, Timed
<1>3. IsFiniteSet(due)
  BY <1>2, RowsAreFew, FS_Subset
<1>4. B = {k \in due : Cardinality({j \in due : rows[j].stamp < rows[k].stamp}) < Limit}
  BY <1>1 DEF Due, Batch
<1>5. Limit \in Nat \ {0}
  BY LimitAssumption
<1>6. ASSUME NEW k \in due
      PROVE  LET J == {j \in due : rows[j].stamp < rows[k].stamp}
             IN J \subseteq due /\ IsFiniteSet(J) /\ Cardinality(J) \in Nat
  BY <1>3, FS_Subset, FS_CardinalityType
<1>7. B \subseteq due /\ IsFiniteSet(B) /\ Cardinality(B) \in Nat
  BY <1>3, <1>4, FS_Subset, FS_CardinalityType
<1>8. ASSUME NEW k \in due, NEW m \in B, rows[k].stamp <= rows[m].stamp
      PROVE  k \in B
  <2>1. PICK J, L : /\ J = {j \in due : rows[j].stamp < rows[k].stamp}
                    /\ L = {j \in due : rows[j].stamp < rows[m].stamp}
    OBVIOUS
  <2>2. J \subseteq L
    BY <1>2, <1>7, <1>8, <2>1
  <2>3. IsFiniteSet(L) /\ Cardinality(L) < Limit /\ Cardinality(L) \in Nat
    BY <1>4, <1>6, <1>7, <2>1
  <2>4. Cardinality(J) <= Cardinality(L) /\ Cardinality(J) \in Nat
    BY <2>2, <2>3, FS_Subset, FS_CardinalityType
  <2>5. Cardinality(J) < Limit
    BY <1>5, <2>3, <2>4
  <2> QED BY <1>4, <2>1, <2>5
<1>9. ASSUME Cardinality(B) < Limit PROVE B = due
  <2>1. SUFFICES ASSUME due \ B # {} PROVE FALSE
    BY <1>7
  <2>2. PICK S : S = {rows[k].stamp : k \in due \ B}
    OBVIOUS
  <2>3. S \in SUBSET Nat /\ S # {}
    BY <1>2, <2>1, <2>2
  <2>4. PICK n \in S : \A m \in S : n <= m
    BY <2>3, LeastExists
  <2>5. PICK k \in due \ B : n = rows[k].stamp
    BY <2>2
  <2>6. PICK J : J = {j \in due : rows[j].stamp < rows[k].stamp}
    OBVIOUS
  <2>7. Cardinality(J) \in Nat /\ ~(Cardinality(J) < Limit)
    BY <1>4, <1>6, <2>5, <2>6
  <2>8. J \subseteq B
    <3> SUFFICES ASSUME NEW j \in J, j \notin B PROVE FALSE
      OBVIOUS
    <3>1. j \in due \ B /\ rows[j].stamp < rows[k].stamp
      BY <2>6
    <3>2. rows[k].stamp <= rows[j].stamp
      BY <2>2, <2>4, <2>5, <3>1
    <3> QED BY <1>2, <3>1, <3>2
  <2>9. Cardinality(J) <= Cardinality(B)
    BY <1>7, <2>8, FS_Subset
  <2> QED BY <1>5, <1>7, <1>9, <2>7, <2>9
<1>10. Cardinality(Stamps(rows, B)) = Cardinality(B)
  <2>1. PICK f, T : f = [k \in B |-> rows[k].stamp] /\ T = Stamps(rows, B)
    OBVIOUS
  <2>2. f \in Bijection(B, T)
    <3>1. f \in [B -> T] /\ \A y \in T : \E x \in B : f[x] = y
      BY <2>1 DEF Stamps
    <3>2. \A x, y \in B : f[x] = f[y] => x = y
      BY <1>2, <1>7, <2>1 DEF Timed
    <3> QED BY <3>1, <3>2 DEF Bijection, Injection, Surjection, IsInjective
  <2> QED BY <1>7, <2>1, <2>2, FS_Bijection DEF ExistsBijection
<1> QED BY <1>1, <1>7, <1>8, <1>9, <1>10

(* The newest of some stamps, or the mark they start from.                 *)
LEMMA HighWaterIsNewest ==
  ASSUME NEW top \in Nat, NEW stamps, stamps \subseteq 1..top, NEW since \in 0..top
  PROVE  /\ HighWater(stamps, since) \in stamps \cup {since}
         /\ \A n \in stamps \cup {since} : n <= HighWater(stamps, since)
<1>1. PICK S : S = stamps \cup {since}
  OBVIOUS
<1>2. \E n \in S : \A m \in S : m <= n
  <2>1. S \in SUBSET Nat /\ S # {} /\ \A n \in S : n <= top
    BY <1>1
  <2> QED BY <2>1, GreatestExists
<1>3. \E n \in S : \A m \in S : n >= m
  BY <1>1, <1>2
<1>4. Max(S) \in S /\ \A m \in S : Max(S) >= m
  BY <1>3 DEF Max
<1> QED BY <1>1, <1>4 DEF HighWater

(* A full payload of one kind has every due row up to its newest stamp.    *)
LEMMA OneStream ==
  ASSUME NEW top \in Nat, NEW rows, Timed(rows, top), NEW since \in 0..top,
         NEW B, B = Batch(rows, since), NEW S, S = Stamps(rows, B)
  PROVE  /\ S \subseteq 1..top /\ Cardinality(S) = Cardinality(B) /\ Cardinality(S) \in Nat
         /\ B \subseteq DOMAIN rows
         /\ Cardinality(S) < Limit => \A k \in DOMAIN rows : rows[k].stamp <= since \/ k \in B
         /\ \A k \in DOMAIN rows :
               rows[k].stamp <= HighWater(S, since) => rows[k].stamp <= since \/ k \in B
<1>1. PICK due : due = Due(rows, since)
  OBVIOUS
<1>2. /\ B \subseteq due
      /\ \A k \in due, m \in B : rows[k].stamp <= rows[m].stamp => k \in B
      /\ Cardinality(B) \in Nat /\ (Cardinality(B) < Limit => B = due)
      /\ Cardinality(S) = Cardinality(B)
  BY <1>1, BatchIsOldest
<1>3. due = {k \in DOMAIN rows : rows[k].stamp > since} /\ \A k \in DOMAIN rows : rows[k].stamp \in 1..top
  BY <1>1 DEF Due, Timed
<1>4. S = {rows[k].stamp : k \in B} /\ S \subseteq 1..top
  BY <1>2, <1>3 DEF Stamps
<1>5. PICK n : n = HighWater(S, since)
  OBVIOUS
<1>6. n \in S \cup {since}
  BY <1>4, <1>5, HighWaterIsNewest
<1>7. ASSUME NEW k \in DOMAIN rows, rows[k].stamp <= n, ~(rows[k].stamp <= since)
      PROVE  k \in B
  <2>1. k \in due /\ n # since
    BY <1>3, <1>7
  <2>2. PICK m \in B : n = rows[m].stamp
    BY <1>4, <1>6, <2>1
  <2> QED BY <1>2, <1>7, <2>1, <2>2
<1>8. Cardinality(B) < Limit => \A k \in DOMAIN rows : rows[k].stamp <= since \/ k \in B
  BY <1>2, <1>3
<1> QED BY <1>2, <1>3, <1>4, <1>5, <1>7, <1>8

(* The mark after a payload of two kinds: past nothing that was not sent,  *)
(* and past everything when neither kind was full.                         *)
LEMMA CursorIsSafe ==
  ASSUME NEW top \in Nat, NEW since \in 0..top,
         NEW rows, Timed(rows, top), NEW B, B = Batch(rows, since),
         NEW others, Timed(others, top), NEW C, C = Batch(others, since),
         NEW c, c = SafeCursor({Stamps(rows, B), Stamps(others, C)}, since)
  PROVE  /\ c \in since..top
         /\ \A k \in DOMAIN rows : rows[k].stamp <= c => rows[k].stamp <= since \/ k \in B
         /\ \A k \in DOMAIN others : others[k].stamp <= c => others[k].stamp <= since \/ k \in C
         /\ Cardinality(B) < Limit /\ Cardinality(C) < Limit =>
               /\ \A k \in DOMAIN rows : rows[k].stamp <= c
               /\ \A k \in DOMAIN others : others[k].stamp <= c
<1>1. PICK S, T : S = Stamps(rows, B) /\ T = Stamps(others, C)
  OBVIOUS
<1>2. /\ S \subseteq 1..top /\ Cardinality(S) = Cardinality(B) /\ Cardinality(S) \in Nat
      /\ B \subseteq DOMAIN rows
      /\ Cardinality(S) < Limit => \A k \in DOMAIN rows : rows[k].stamp <= since \/ k \in B
      /\ \A k \in DOMAIN rows :
            rows[k].stamp <= HighWater(S, since) => rows[k].stamp <= since \/ k \in B
  BY <1>1, OneStream
<1>3. /\ T \subseteq 1..top /\ Cardinality(T) = Cardinality(C) /\ Cardinality(T) \in Nat
      /\ C \subseteq DOMAIN others
      /\ Cardinality(T) < Limit => \A k \in DOMAIN others : others[k].stamp <= since \/ k \in C
      /\ \A k \in DOMAIN others :
            others[k].stamp <= HighWater(T, since) => others[k].stamp <= since \/ k \in C
  BY <1>1, OneStream
<1>4. /\ \A k \in DOMAIN rows : rows[k].stamp \in Nat /\ (k \in B => rows[k].stamp \in S)
      /\ \A k \in DOMAIN others : others[k].stamp \in Nat /\ (k \in C => others[k].stamp \in T)
  BY <1>1, <1>2, <1>3 DEF Timed, Stamps
<1>5. PICK full : full = {x \in {S, T} : Cardinality(x) >= Limit}
  OBVIOUS
<1>6. c = IF full = {} THEN HighWater(UNION {S, T}, since) ELSE Min({HighWater(x, since) : x \in full})
  BY <1>1, <1>5 DEF SafeCursor
<1>7. Limit \in Nat /\ top \in Nat /\ since \in Nat /\ since <= top
  BY LimitAssumption
<1>8. CASE full = {}
  <2>1. PICK U : U = UNION {S, T}
    OBVIOUS
  <2>2. U = S \cup T /\ U \subseteq 1..top /\ c = HighWater(U, since)
    BY <1>2, <1>3, <1>6, <1>8, <2>1
  <2>3. c \in U \cup {since} /\ \A n \in U \cup {since} : n <= c
    <3>1. /\ HighWater(U, since) \in U \cup {since}
          /\ \A n \in U \cup {since} : n <= HighWater(U, since)
      BY <2>2, HighWaterIsNewest
    <3> QED BY <2>2, <3>1
  <2>4. Cardinality(S) < Limit /\ Cardinality(T) < Limit
    <3>1. S \notin full /\ T \notin full
      BY <1>8
    <3> QED BY <1>2, <1>3, <1>5, <1>7, <3>1
  <2>5. c \in since..top
    <3>1. c \in 1..top \cup {since} /\ since <= c
      BY <2>2, <2>3
    <3> QED BY <1>7, <3>1
  <2>6. \A k \in DOMAIN rows : (rows[k].stamp <= since \/ k \in B) /\ rows[k].stamp <= c
    <3> SUFFICES ASSUME NEW k \in DOMAIN rows
                 PROVE  (rows[k].stamp <= since \/ k \in B) /\ rows[k].stamp <= c
      OBVIOUS
    <3>1. rows[k].stamp <= since \/ k \in B
      BY <1>2, <2>4
    <3>2. k \in B => rows[k].stamp <= c
      BY <1>4, <2>2, <2>3
    <3>3. rows[k].stamp \in Nat /\ c \in Nat /\ since <= c
      BY <1>4, <1>7, <2>5
    <3> QED BY <1>7, <3>1, <3>2, <3>3
  <2>7. \A k \in DOMAIN others : (others[k].stamp <= since \/ k \in C) /\ others[k].stamp <= c
    <3> SUFFICES ASSUME NEW k \in DOMAIN others
                 PROVE  (others[k].stamp <= since \/ k \in C) /\ others[k].stamp <= c
      OBVIOUS
    <3>1. others[k].stamp <= since \/ k \in C
      BY <1>3, <2>4
    <3>2. k \in C => others[k].stamp <= c
      BY <1>4, <2>2, <2>3
    <3>3. others[k].stamp \in Nat /\ c \in Nat /\ since <= c
      BY <1>4, <1>7, <2>5
    <3> QED BY <1>7, <3>1, <3>2, <3>3
  <2> QED BY <2>5, <2>6, <2>7
<1>9. CASE full # {}
  <2>1. PICK M : M = {HighWater(x, since) : x \in full}
    OBVIOUS
  <2>2. \A x \in full : /\ HighWater(x, since) \in x \cup {since}
                        /\ since <= HighWater(x, since) /\ x \subseteq 1..top
    BY <1>2, <1>3, <1>5, HighWaterIsNewest
  <2>3. M \subseteq since..top /\ M # {}
    BY <1>7, <1>9, <2>1, <2>2
  <2>4. \E n \in M : \A m \in M : n <= m
    BY <1>7, <2>3, LeastExists
  <2>5. c = Min(M)
    BY <1>6, <1>9, <2>1
  <2>6. c \in M /\ \A m \in M : c <= m
    BY <2>4, <2>5 DEF Min
  <2>7. c \in since..top
    BY <2>3, <2>6
  <2>8. ASSUME NEW k \in DOMAIN rows, rows[k].stamp <= c PROVE rows[k].stamp <= since \/ k \in B
    <3>1. CASE S \in full
      <4>1. PICK h : h = HighWater(S, since)
        OBVIOUS
      <4>2. h \in M /\ c <= h /\ h \in Nat
        BY <1>7, <2>1, <2>3, <2>6, <3>1, <4>1
      <4>3. rows[k].stamp <= h
        BY <1>4, <1>7, <2>7, <2>8, <4>2
      <4> QED BY <1>2, <4>1, <4>3
    <3>2. CASE S \notin full
      BY <1>2, <1>5, <1>7, <3>2
    <3> QED BY <3>1, <3>2
  <2>9. ASSUME NEW k \in DOMAIN others, others[k].stamp <= c PROVE others[k].stamp <= since \/ k \in C
    <3>1. CASE T \in full
      <4>1. PICK h : h = HighWater(T, since)
        OBVIOUS
      <4>2. h \in M /\ c <= h /\ h \in Nat
        BY <1>7, <2>1, <2>3, <2>6, <3>1, <4>1
      <4>3. others[k].stamp <= h
        BY <1>4, <1>7, <2>7, <2>9, <4>2
      <4> QED BY <1>3, <4>1, <4>3
    <3>2. CASE T \notin full
      BY <1>3, <1>5, <1>7, <3>2
    <3> QED BY <3>1, <3>2
  <2>10. ~(Cardinality(B) < Limit /\ Cardinality(C) < Limit)
    BY <1>2, <1>3, <1>5, <1>7, <1>9
  <2> QED BY <2>7, <2>8, <2>9, <2>10
<1> QED BY <1>8, <1>9
-----------------------------------------------------------------------------
(* Nothing breaks an exchange or comes between its calls: a reliable line, *)
(* nobody writing meanwhile, no link that another object must come before. *)
Undisturbed == Faults = {} /\ "supersede" \notin Writes

RowsArePlain ==
    \A s \in Sides :
        /\ \A o \in DOMAIN head[s] : head[s][o].stamp \in 1..clock /\ head[s][o].link = NoObject
        /\ \A f \in DOMAIN facts[s] : 
              /\ facts[s][f].stamp \in 1..clock
              /\ facts[s][f].about \in DOMAIN head[s] \cup {NoObject}

StampsAreUnique ==
    \A s, t \in Sides :
        /\ \A o \in DOMAIN head[s], q \in DOMAIN head[t] : head[s][o].stamp = head[t][q].stamp => o = q
        /\ \A f \in DOMAIN facts[s], g \in DOMAIN facts[t] : facts[s][f].stamp = facts[t][g].stamp => f = g

MarksAreTrue == /\ DOMAIN mark = Sides /\ DOMAIN raised = Sides
                /\ \A s \in Sides : mark[s] \in 0..clock

(* A payload on its way says what its side still says.                     *)
Quotes(p, s) ==
    /\ {"objects", "facts", "cursor"} \subseteq DOMAIN p
    /\ \A o \in DOMAIN p.objects : o \in DOMAIN head[s] /\ p.objects[o] = head[s][o]
    /\ \A f \in DOMAIN p.facts : f \in DOMAIN facts[s] /\ p.facts[f] = facts[s][f]
    /\ p.cursor \in 0..clock
AllTold(s) ==
    /\ \A o \in DOMAIN head[s] : head[s][o].stamp <= mark[s]
    /\ \A f \in DOMAIN facts[s] : facts[s][f].stamp <= mark[s]

TalkIsFresh ==
    /\ Pushed => Quotes(talk.sent, "here") /\ (talk.sent.complete => AllTold("here"))
    /\ talk.phase = "answered" => Quotes(talk.raw, "there")

ObjectsDelivered ==
    \A s \in Sides : \A o \in DOMAIN head[s] :
        head[s][o].stamp <= mark[s] => Reaches(s, o) \/ OnItsWay(s, o, head[s][o].stamp)
FactsDelivered ==
    \A s \in Sides : \A f \in DOMAIN facts[s] :
        facts[s][f].stamp <= mark[s] =>
           f \in DOMAIN facts[Other(s)] \/ FactOnItsWay(s, f) \/ Overtaken(s, f)

(* A difference nobody raised has yet to be told.                          *)
Differ(o) == /\ head["here"][o].version = head["there"][o].version
             /\ head["here"][o].text # head["there"][o].text
             /\ o \notin raised["here"] \cup raised["there"]
DivergenceIsPending ==
    \A o \in DOMAIN head["here"] \cap DOMAIN head["there"] : Differ(o) =>
       \E s \in Sides : ~(head[s][o].stamp <= mark[s]) \/ OnItsWay(s, o, head[s][o].stamp)

CalmInv == /\ SyncInv /\ RowsArePlain /\ StampsAreUnique /\ MarksAreTrue /\ TalkIsFresh
           /\ ObjectsDelivered /\ FactsDelivered /\ DivergenceIsPending

(* The two sides.                                                          *)
LEMMA TwoSides ==
  /\ Sides = {"here", "there"} /\ "here" \in Sides /\ "there" \in Sides
  /\ Other("here") = "there" /\ Other("there") = "here"
BY DEF Sides, Other

(* A payload without links is taken in whole: its rows replace older ones, *)
(* what it gives the same version of and other words is raised, and its    *)
(* facts are kept unless they are about what is not there.                 *)
LEMMA AppliedRows ==
  ASSUME StoreOK, HistoriesStayLocal, DOMAIN raised = Sides, NEW s \in Sides, NEW p,
         Fits(s, p), Apply(s, p),
         \A o \in DOMAIN p.objects : p.objects[o].link = NoObject
  PROVE  /\ DOMAIN head'[s] = DOMAIN head[s] \cup DOMAIN p.objects
         /\ \A o \in DOMAIN p.objects :
               /\ head'[s][o].version >= p.objects[o].version
               /\ head'[s][o] = p.objects[o] \/ (o \in DOMAIN head[s] /\ head'[s][o] = head[s][o])
               /\ \/ head'[s][o].text = p.objects[o].text
                  \/ head'[s][o].version # p.objects[o].version
                  \/ o \in raised'[s]
         /\ \A o \in DOMAIN head[s] \ DOMAIN p.objects : head'[s][o] = head[s][o]
         /\ \A r \in Sides \ {s} : head'[r] = head[r] /\ facts'[r] = facts[r] /\ raised'[r] = raised[r]
         /\ \A f \in DOMAIN p.facts : p.facts[f].about \in DOMAIN head'[s] \cup {NoObject} =>
               f \in DOMAIN facts'[s]
         /\ \A f \in DOMAIN facts'[s] :
               \/ f \in DOMAIN facts[s] /\ facts'[s][f] = facts[s][f]
               \/ /\ f \in DOMAIN p.facts /\ facts'[s][f] = p.facts[f]
                  /\ p.facts[f].about \in DOMAIN head'[s] \cup {NoObject}
         /\ raised[s] \subseteq raised'[s] /\ DOMAIN raised' = Sides
<1>1. /\ ~Refused(s, p)
      /\ head' = [head EXCEPT ![s] = [o \in After(s, p) |-> Merged(s, p, o)]]
      /\ raised' = [raised EXCEPT ![s] = Raised(s, p)]
  BY DEF Apply
<1>2. /\ After(s, p) = DOMAIN head[s] \cup DOMAIN p.objects /\ Present(s) = DOMAIN head[s]
      /\ After(s, p) \subseteq ObjectIds /\ NoObject \notin After(s, p)
  BY NoObjectAssumption DEF After, Arriving, Present, StoreOK, Fits
<1>3. /\ DOMAIN head'[s] = After(s, p) /\ \A o \in After(s, p) : head'[s][o] = Merged(s, p, o)
      /\ raised'[s] = Raised(s, p)
      /\ \A r \in Sides \ {s} : head'[r] = head[r] /\ raised'[r] = raised[r]
      /\ DOMAIN raised' = Sides
  BY <1>1 DEF StoreOK
<1>4. ASSUME NEW o \in DOMAIN p.objects
      PROVE  /\ head'[s][o].version >= p.objects[o].version
             /\ head'[s][o] = p.objects[o] \/ (o \in DOMAIN head[s] /\ head'[s][o] = head[s][o])
             /\ \/ head'[s][o].text = p.objects[o].text
                \/ head'[s][o].version # p.objects[o].version
                \/ o \in raised'[s]
  <2> DEFINE row == CASE o \in Arriving(s, p) -> [p.objects[o] EXCEPT !.link = NoObject]
                      [] o \in Taken(s, p)    -> p.objects[o]
                      [] OTHER                -> head[s][o]
  <2>1. head'[s][o] = Merged(s, p, o)
    BY <1>2, <1>3
  <2>2. Merged(s, p, o) = row
    BY <1>2 DEF Merged
  <2>3. p.objects[o] \in Head /\ p.objects[o].version \in Nat
    BY DEF Fits, Head
  <2>4. CASE o \in Arriving(s, p)
    <3>1. row = [p.objects[o] EXCEPT !.link = NoObject]
      BY <2>4 DEF Taken, Contested, Arriving
    <3> HIDE DEF row
    <3>2. row = p.objects[o]
      BY <2>3, <3>1 DEF Head
    <3> QED BY <2>1, <2>2, <2>3, <3>2
  <2>5. CASE o \in Taken(s, p)
    <3>1. row = p.objects[o]
      BY <2>5 DEF Taken, Contested, Arriving
    <3> HIDE DEF row
    <3> QED BY <2>1, <2>2, <2>3, <3>1
  <2>6. CASE o \notin Arriving(s, p) /\ o \notin Taken(s, p)
    <3>1. row = head[s][o]
      BY <2>6
    <3> HIDE DEF row
    <3>2. o \in DOMAIN head[s] /\ head'[s][o] = head[s][o]
      BY <1>2, <2>1, <2>2, <2>6, <3>1 DEF Arriving
    <3>3. p.objects[o].version <= head[s][o].version
      BY <1>1, <1>2, <2>6, <3>2, MergedRow
    <3>4. head[s][o].version \in Nat
      BY <3>2 DEF StoreOK, Head
    <3>5. ASSUME head[s][o].text # p.objects[o].text, head[s][o].version = p.objects[o].version
          PROVE  o \in raised'[s]
      <4>1. o \in Contested(s, p) \ Taken(s, p)
        BY <1>2, <2>6, <3>2, <3>5 DEF Contested
      <4>2. o \in Diverged(s, p)
        BY <2>3, <3>5, <4>1 DEF Diverged
      <4> QED BY <1>3, <4>2 DEF Raised
    <3> QED BY <2>3, <3>2, <3>3, <3>4, <3>5
  <2> QED BY <2>4, <2>5, <2>6
<1>5. ASSUME NEW o \in DOMAIN head[s] \ DOMAIN p.objects PROVE head'[s][o] = head[s][o]
  <2>1. o \notin Arriving(s, p) /\ o \notin Taken(s, p)
    BY DEF Arriving, Taken, Contested
  <2>2. Merged(s, p, o) = head[s][o]
    BY <2>1 DEF Merged
  <2> QED BY <1>2, <1>3, <2>2
<1>6. /\ \A f \in DOMAIN p.facts : p.facts[f].about \in DOMAIN head'[s] \cup {NoObject} =>
            f \in DOMAIN facts'[s]
      /\ \A f \in DOMAIN facts'[s] :
            \/ f \in DOMAIN facts[s] /\ facts'[s][f] = facts[s][f]
            \/ /\ f \in DOMAIN p.facts /\ facts'[s][f] = p.facts[f]
               /\ p.facts[f].about \in DOMAIN head'[s] \cup {NoObject}
      /\ \A r \in Sides \ {s} : facts'[r] = facts[r]
  <2>1. PICK told : told = {g \in DOMAIN p.facts : p.facts[g].about \in After(s, p) \cup {NoObject}}
    OBVIOUS
  <2>2. told = {g \in DOMAIN p.facts : p.facts[g].about \in DOMAIN head'[s] \cup {NoObject}}
    BY <1>3, <2>1
  <2>3. facts' = [facts EXCEPT ![s] = [f \in DOMAIN facts[s] \cup told |->
                                          IF f \in DOMAIN facts[s] THEN facts[s][f] ELSE p.facts[f]]]
    BY <2>1 DEF Apply
  <2>4. facts'[s] = [f \in DOMAIN facts[s] \cup told |->
                        IF f \in DOMAIN facts[s] THEN facts[s][f] ELSE p.facts[f]]
    BY <2>3 DEF StoreOK
  <2> QED BY <2>2, <2>3, <2>4 DEF StoreOK
<1>7. raised[s] \subseteq raised'[s]
  BY <1>3 DEF Raised
<1> QED BY <1>2, <1>3, <1>4, <1>5, <1>6, <1>7

(* Such a payload is never refused.                                        *)
LEMMA NothingRefused ==
  ASSUME NEW s, NEW p, \A o \in DOMAIN p.objects : p.objects[o].link = NoObject
  PROVE  ~Refused(s, p)
BY DEF Refused, Taken, Contested

(* What a side tells is what it says, up to a mark that passes nothing it  *)
(* does not tell.                                                          *)
LEMMA TellingIsSafe ==
  ASSUME SyncInv, RowsArePlain, StampsAreUnique, MarksAreTrue, NEW s \in Sides,
         NEW p, p = ChangesSince(s, mark[s])
  PROVE  /\ Quotes(p, s) /\ p.cursor \in mark[s]..clock
         /\ \A o \in DOMAIN head[s] :
               head[s][o].stamp <= p.cursor => head[s][o].stamp <= mark[s] \/ o \in DOMAIN p.objects
         /\ \A f \in DOMAIN facts[s] :
               facts[s][f].stamp <= p.cursor => facts[s][f].stamp <= mark[s] \/ f \in DOMAIN p.facts
         /\ p.complete => /\ \A o \in DOMAIN head[s] : head[s][o].stamp <= p.cursor
                          /\ \A f \in DOMAIN facts[s] : facts[s][f].stamp <= p.cursor
         /\ DOMAIN p.objects = {} => \A o \in DOMAIN head[s] : head[s][o].stamp <= mark[s]
<1>1. PICK rows, others, since, B, C, c :
         /\ rows = head[s] /\ others = facts[s] /\ since = mark[s]
         /\ B = Batch(rows, since) /\ C = Batch(others, since)
         /\ c = SafeCursor({Stamps(rows, B), Stamps(others, C)}, since)
  OBVIOUS
<1>2. clock \in Nat /\ since \in 0..clock /\ since \in Nat
  BY <1>1 DEF SyncInv, MarksAreTrue
<1>3. Timed(rows, clock) /\ Timed(others, clock)
  BY <1>1 DEF Timed, RowsArePlain, StampsAreUnique
<1>4. /\ p.objects = [o \in B |-> rows[o]] /\ p.facts = [f \in C |-> others[f]]
      /\ p.complete <=> Cardinality(B) < Limit /\ Cardinality(C) < Limit
      /\ p.cursor = c /\ {"objects", "facts", "cursor"} \subseteq DOMAIN p
  BY <1>1 DEF ChangesSince
<1>5. B \subseteq DOMAIN rows /\ C \subseteq DOMAIN others
  BY <1>1 DEF Batch
<1>6. /\ c \in since..clock
      /\ \A k \in DOMAIN rows : rows[k].stamp <= c => rows[k].stamp <= since \/ k \in B
      /\ \A k \in DOMAIN others : others[k].stamp <= c => others[k].stamp <= since \/ k \in C
      /\ Cardinality(B) < Limit /\ Cardinality(C) < Limit =>
            /\ \A k \in DOMAIN rows : rows[k].stamp <= c
            /\ \A k \in DOMAIN others : others[k].stamp <= c
  BY <1>1, <1>2, <1>3, CursorIsSafe
<1>7. B = {} => \A k \in DOMAIN rows : rows[k].stamp <= since
  <2> SUFFICES ASSUME B = {}, NEW k \in DOMAIN rows PROVE rows[k].stamp <= since
    OBVIOUS
  <2>1. Cardinality(B) = 0 /\ Cardinality(B) < Limit
    BY FS_EmptySet, LimitAssumption
  <2>2. B = Due(rows, since)
    BY <1>1, <1>2, <1>3, <2>1, BatchIsOldest
  <2>3. rows[k].stamp \in Nat /\ ~(rows[k].stamp > since)
    BY <1>3, <2>2 DEF Due, Timed
  <2> QED BY <1>2, <2>3
<1>8. Quotes(p, s)
  BY <1>1, <1>2, <1>4, <1>5, <1>6 DEF Quotes
<1>9. DOMAIN p.objects = B /\ DOMAIN p.facts = C
  BY <1>4
<1> QED BY <1>1, <1>4, <1>6, <1>7, <1>8, <1>9

(* What reached the other side stays there.                                *)
LEMMA ReachingLasts ==
  ASSUME StoreOK, StoreOK', Adds, NEW s \in Sides, NEW o \in DOMAIN head[s], Reaches(s, o),
         o \in DOMAIN head'[s], head'[s][o].version = head[s][o].version
  PROVE  Reaches(s, o)'
<1>1. PICK t : t = Other(s) /\ t \in Sides
  BY TwoSides
<1>2. o \in DOMAIN head[t] /\ head[t][o].version >= head[s][o].version
  BY <1>1 DEF Reaches, Present
<1>3. o \in DOMAIN head'[t] /\ head'[t][o].version >= head[t][o].version
  BY <1>1, <1>2 DEF Adds, Present
<1>4. head[t][o].version \in Nat /\ head'[t][o].version \in Nat /\ head[s][o].version \in Nat
  BY <1>1, <1>2, <1>3 DEF StoreOK, Head
<1>5. o \in DOMAIN head'[t] /\ head'[t][o].version >= head'[s][o].version
  BY <1>2, <1>3, <1>4
<1> QED BY <1>1, <1>5 DEF Reaches, Present, Other

(* A fact that was overtaken stays so.                                     *)
LEMMA OvertakenLasts ==
  ASSUME RowsArePlain, Adds, NEW s \in Sides, NEW f, Overtaken(s, f),
         f \in DOMAIN facts'[s], facts'[s][f] = facts[s][f]
  PROVE  Overtaken(s, f)'
<1>1. PICK o : o = facts[s][f].about
  OBVIOUS
<1>2. f \in DOMAIN facts[s] /\ o # NoObject /\ o \in Present(s)
  BY <1>1 DEF Overtaken, RowsArePlain, Present
<1>3. PICK n \in DOMAIN past[s][o] : past[s][o][n].stamp > facts[s][f].stamp
  BY <1>1 DEF Overtaken
<1>4. n \in DOMAIN past'[s][o] /\ past'[s][o][n] = past[s][o][n]
  BY <1>2, <1>3 DEF Adds
<1> QED BY <1>1, <1>2, <1>3, <1>4 DEF Overtaken

(* A fact at or before the mark that was not overtaken comes after its     *)
(* object, which has therefore arrived or is on its way.                   *)
LEMMA ObjectsComeBeforeTheirFacts ==
  ASSUME CalmInv, NEW s \in Sides, NEW f \in DOMAIN facts[s], facts[s][f].stamp <= mark[s],
         ~Overtaken(s, f), NEW o, o = facts[s][f].about, o # NoObject
  PROVE  /\ o \in DOMAIN head[s]
         /\ o \in DOMAIN head[Other(s)] \/ OnItsWay(s, o, head[s][o].stamp)
<1>1. o \in DOMAIN head[s] /\ facts[s][f].stamp \in Nat /\ head[s][o].stamp \in Nat /\ mark[s] \in Nat
  BY DEF CalmInv, RowsArePlain, MarksAreTrue, SyncInv
<1>2. PICK n : n = head[s][o].version /\ n \in 1..n
  BY <1>1 DEF CalmInv, SyncInv, StoreOK, Head
<1>3. o \in ObjectIds /\ DOMAIN past[s][o] = 1..n /\ past[s][o][n] = Said(head[s][o])
  BY <1>1, <1>2 DEF CalmInv, SyncInv, StoreOK, HistoriesStayLocal, HeadIsLatestVersion, Present
<1>4. past[s][o][n].stamp = head[s][o].stamp
  BY <1>3 DEF Said
<1>5. ~(head[s][o].stamp > facts[s][f].stamp)
  BY <1>2, <1>3, <1>4 DEF Overtaken
<1>6. head[s][o].stamp <= mark[s]
  BY <1>1, <1>5
<1> QED BY <1>1, <1>6 DEF CalmInv, ObjectsDelivered, Reaches, Present

(* Rows that are copied are the rows they were.                            *)
LEMMA CopyingKeeps ==
  ASSUME RowsArePlain, StampsAreUnique, clock' = clock,
         \A s \in Sides : \A o \in DOMAIN head'[s] :
            \E t \in Sides : o \in DOMAIN head[t] /\ head'[s][o] = head[t][o],
         \A s \in Sides : \A f \in DOMAIN facts'[s] :
            /\ facts'[s][f].about \in DOMAIN head'[s] \cup {NoObject}
            /\ \E t \in Sides : f \in DOMAIN facts[t] /\ facts'[s][f] = facts[t][f]
  PROVE  RowsArePlain' /\ StampsAreUnique'
<1>1. RowsArePlain'
  BY DEF RowsArePlain
<1>2. ASSUME NEW s \in Sides, NEW t \in Sides, NEW o \in DOMAIN head'[s], NEW q \in DOMAIN head'[t],
             head'[s][o].stamp = head'[t][q].stamp
      PROVE  o = q
  <2>1. PICK x \in Sides : o \in DOMAIN head[x] /\ head'[s][o] = head[x][o]
    OBVIOUS
  <2>2. PICK y \in Sides : q \in DOMAIN head[y] /\ head'[t][q] = head[y][q]
    OBVIOUS
  <2> QED BY <1>2, <2>1, <2>2 DEF StampsAreUnique
<1>3. ASSUME NEW s \in Sides, NEW t \in Sides, NEW f \in DOMAIN facts'[s], NEW g \in DOMAIN facts'[t],
             facts'[s][f].stamp = facts'[t][g].stamp
      PROVE  f = g
  <2>1. PICK x \in Sides : f \in DOMAIN facts[x] /\ facts'[s][f] = facts[x][f]
    OBVIOUS
  <2>2. PICK y \in Sides : g \in DOMAIN facts[y] /\ facts'[t][g] = facts[y][g]
    OBVIOUS
  <2> QED BY <1>3, <2>1, <2>2 DEF StampsAreUnique
<1>4. StampsAreUnique'
  BY <1>2, <1>3 DEF StampsAreUnique
<1> QED BY <1>1, <1>4

(* A write touches at most one object, or one fact.                        *)
OneObject(x) ==
    \A s \in Sides : \A o \in DOMAIN head'[s] :
       \/ o \in DOMAIN head[s] /\ head'[s][o] = head[s][o]
       \/ o = x /\ head'[s][o].stamp = clock + 1 /\ head'[s][o].link = NoObject
OneFact(x) ==
    \A s \in Sides : \A f \in DOMAIN facts'[s] :
       \/ f \in DOMAIN facts[s] /\ facts'[s][f] = facts[s][f]
       \/ /\ f = x /\ facts'[s][f].stamp = clock + 1
          /\ facts'[s][f].about \in DOMAIN head[s] \cup {NoObject}

(* People write one row, when no exchange is under way.                    *)
LEMMA PeopleMove ==
  ASSUME StoreOK, Undisturbed, RowsArePlain, People
  PROVE  /\ talk.phase = "idle" /\ talk' = talk /\ mark' = mark /\ raised' = raised
         /\ clock' = clock + 1 /\ (\E x : OneObject(x)) /\ (\E x : OneFact(x))
<1>1. ASSUME MayWrite
      PROVE  /\ talk.phase = "idle" /\ talk' = talk /\ mark' = mark /\ raised' = raised
             /\ clock' = clock + 1
  BY <1>1 DEF MayWrite, Undisturbed
<1>2. ASSUME NEW s \in Sides, NEW o \in ObjectIds, NEW row, Put(s, o, row),
             row.stamp = clock + 1, row.link = NoObject
      PROVE  OneObject(o) /\ OneFact(o)
  <2>1. head' = [head EXCEPT ![s] = With(head[s], o, row)] /\ facts' = facts
    BY <1>2 DEF Put
  <2>2. head'[s] = With(head[s], o, row) /\ \A r \in Sides \ {s} : head'[r] = head[r]
    BY <2>1 DEF StoreOK
  <2>3. \A q \in DOMAIN head'[s] : \/ q \in DOMAIN head[s] /\ head'[s][q] = head[s][q]
                                   \/ q = o /\ head'[s][q] = row
    BY <2>2 DEF With
  <2>4. OneObject(o)
    BY <1>2, <2>2, <2>3 DEF OneObject
  <2>5. OneFact(o)
    BY <2>1 DEF OneFact
  <2> QED BY <2>4, <2>5
<1>3. ASSUME NEW s \in Sides, NEW o \in ObjectIds, Create(s, o)
      PROVE  MayWrite /\ (\E x : OneObject(x)) /\ (\E x : OneFact(x))
  <2>1. PICK t, st, row : /\ row = [text |-> t, state |-> st, link |-> NoObject, version |-> 1,
                                    stamp |-> clock + 1]
                          /\ Put(s, o, row)
    BY <1>3 DEF Create
  <2>2. row.stamp = clock + 1 /\ row.link = NoObject
    BY <2>1
  <2> QED BY <1>2, <1>3, <2>1, <2>2 DEF Create
<1>4. ASSUME NEW s \in Sides, NEW o \in ObjectIds, Edit(s, o)
      PROVE  MayWrite /\ (\E x : OneObject(x)) /\ (\E x : OneFact(x))
  <2>1. PICK next, row :
          /\ next.link = head[s][o].link
          /\ row = [text |-> next.text, state |-> next.state, link |-> next.link,
                    version |-> head[s][o].version + 1, stamp |-> clock + 1]
          /\ Put(s, o, row)
    BY <1>4 DEF Edit, Undisturbed
  <2>2. o \in DOMAIN head[s]
    BY <1>4 DEF Edit, Present
  <2>3. row.stamp = clock + 1 /\ row.link = NoObject
    BY <2>1, <2>2 DEF RowsArePlain
  <2> QED BY <1>2, <1>4, <2>1, <2>3 DEF Edit
<1>5. ASSUME NEW s \in Sides, NEW f \in Facts, Learn(s, f)
      PROVE  MayWrite /\ (\E x : OneObject(x)) /\ (\E x : OneFact(x))
  <2>1. PICK row : /\ row.stamp = clock + 1 /\ row.about \in DOMAIN head[s] \cup {NoObject}
                   /\ facts' = [facts EXCEPT ![s] = With(facts[s], f, row)]
    <3>1. PICK a \in DOMAIN head[s] \cup {NoObject} :
             facts' = [facts EXCEPT ![s] = With(@, f, [stamp |-> clock + 1, about |-> a])]
      BY <1>5 DEF Learn, Present
    <3>2. PICK row : row = [stamp |-> clock + 1, about |-> a]
      OBVIOUS
    <3> QED BY <3>1, <3>2
  <2>2. facts'[s] = With(facts[s], f, row) /\ \A r \in Sides \ {s} : facts'[r] = facts[r]
    BY <2>1 DEF StoreOK
  <2>3. \A g \in DOMAIN facts'[s] : \/ g \in DOMAIN facts[s] /\ facts'[s][g] = facts[s][g]
                                    \/ g = f /\ facts'[s][g] = row
    BY <2>2 DEF With
  <2>4. OneFact(f)
    BY <2>1, <2>2, <2>3 DEF OneFact
  <2>5. OneObject(f)
    BY <1>5 DEF Learn, OneObject
  <2> QED BY <1>5, <2>4, <2>5 DEF Learn
<1> QED BY <1>1, <1>3, <1>4, <1>5 DEF People

(* What they write is past every mark, so nothing told is changed by it.   *)
LEMMA PeopleKeepCalm ==
  ASSUME CalmInv, Undisturbed, People
  PROVE  CalmInv'
<1>1. /\ SyncInv /\ RowsArePlain /\ StampsAreUnique /\ MarksAreTrue /\ TalkIsFresh
      /\ ObjectsDelivered /\ FactsDelivered /\ DivergenceIsPending
      /\ StoreOK /\ HistoriesStayLocal /\ clock \in Nat
  BY DEF CalmInv, SyncInv
<1>2. SyncInv' /\ StoreOK' /\ Adds
  <2>1. SyncInv'
    BY <1>1, SyncSteps DEF Next
  <2> QED BY <1>1, <2>1, PeopleKeep DEF SyncInv
<1>3. /\ talk.phase = "idle" /\ talk' = talk /\ mark' = mark /\ raised' = raised
      /\ clock' = clock + 1 /\ (\E x : OneObject(x)) /\ (\E x : OneFact(x))
  BY <1>1, PeopleMove
<1>4. PICK x : OneObject(x)
  BY <1>3
<1>5. PICK y : OneFact(y)
  BY <1>3
<1>6. RowsArePlain'
  <2>1. ASSUME NEW s \in Sides PROVE DOMAIN head[s] \subseteq DOMAIN head'[s]
    BY <1>2, <2>1 DEF Adds, Present
  <2>2. ASSUME NEW s \in Sides, NEW f \in DOMAIN facts'[s]
        PROVE  /\ facts'[s][f].stamp \in 1..clock + 1
               /\ facts'[s][f].about \in DOMAIN head'[s] \cup {NoObject}
    BY <1>1, <1>5, <2>1 DEF RowsArePlain, OneFact
  <2>3. ASSUME NEW s \in Sides, NEW o \in DOMAIN head'[s]
        PROVE  head'[s][o].stamp \in 1..clock + 1 /\ head'[s][o].link = NoObject
    BY <1>1, <1>4 DEF RowsArePlain, OneObject
  <2> QED BY <1>3, <2>2, <2>3 DEF RowsArePlain
<1>7. ASSUME NEW s \in Sides, NEW t \in Sides, NEW o \in DOMAIN head'[s], NEW q \in DOMAIN head'[t],
             head'[s][o].stamp = head'[t][q].stamp
      PROVE  o = q
  <2>1. \/ o \in DOMAIN head[s] /\ head'[s][o].stamp = head[s][o].stamp /\ head[s][o].stamp \in 1..clock
        \/ o = x /\ head'[s][o].stamp = clock + 1
    BY <1>1, <1>4 DEF OneObject, RowsArePlain
  <2>2. \/ q \in DOMAIN head[t] /\ head'[t][q].stamp = head[t][q].stamp /\ head[t][q].stamp \in 1..clock
        \/ q = x /\ head'[t][q].stamp = clock + 1
    BY <1>1, <1>4 DEF OneObject, RowsArePlain
  <2> QED BY <1>1, <1>7, <2>1, <2>2 DEF StampsAreUnique
<1>8. ASSUME NEW s \in Sides, NEW t \in Sides, NEW f \in DOMAIN facts'[s], NEW g \in DOMAIN facts'[t],
             facts'[s][f].stamp = facts'[t][g].stamp
      PROVE  f = g
  <2>1. \/ f \in DOMAIN facts[s] /\ facts'[s][f].stamp = facts[s][f].stamp /\ facts[s][f].stamp \in 1..clock
        \/ f = y /\ facts'[s][f].stamp = clock + 1
    BY <1>1, <1>5 DEF OneFact, RowsArePlain
  <2>2. \/ g \in DOMAIN facts[t] /\ facts'[t][g].stamp = facts[t][g].stamp /\ facts[t][g].stamp \in 1..clock
        \/ g = y /\ facts'[t][g].stamp = clock + 1
    BY <1>1, <1>5 DEF OneFact, RowsArePlain
  <2> QED BY <1>1, <1>8, <2>1, <2>2 DEF StampsAreUnique
<1>9. StampsAreUnique'
  BY <1>7, <1>8 DEF StampsAreUnique
<1>10. MarksAreTrue'
  BY <1>1, <1>3 DEF MarksAreTrue
<1>11. TalkIsFresh'
  BY <1>3 DEF TalkIsFresh, Pushed
<1>12. ASSUME NEW s \in Sides, NEW o \in DOMAIN head'[s], head'[s][o].stamp <= mark[s]
       PROVE  o \in DOMAIN head[s] /\ head'[s][o] = head[s][o]
  <2>1. ~(clock + 1 <= mark[s])
    BY <1>1 DEF MarksAreTrue
  <2> QED BY <1>4, <1>12, <2>1 DEF OneObject
<1>13. ObjectsDelivered'
  <2>1. ASSUME NEW s \in Sides, NEW o \in DOMAIN head'[s], head'[s][o].stamp <= mark[s]
        PROVE  Reaches(s, o)'
    <3>1. o \in DOMAIN head[s] /\ head'[s][o] = head[s][o]
      BY <1>12, <2>1
    <3>2. Reaches(s, o)
      BY <1>1, <1>3, <2>1, <3>1 DEF ObjectsDelivered, OnItsWay
    <3> QED BY <1>1, <1>2, <3>1, <3>2, ReachingLasts
  <2> QED BY <1>3, <2>1 DEF ObjectsDelivered
<1>14. FactsDelivered'
  <2>1. ASSUME NEW s \in Sides, NEW f \in DOMAIN facts'[s], facts'[s][f].stamp <= mark[s]
        PROVE  f \in DOMAIN facts'[Other(s)] \/ Overtaken(s, f)'
    <3>1. ~(clock + 1 <= mark[s])
      BY <1>1 DEF MarksAreTrue
    <3>2. f \in DOMAIN facts[s] /\ facts'[s][f] = facts[s][f]
      BY <1>5, <2>1, <3>1 DEF OneFact
    <3>3. f \in DOMAIN facts[Other(s)] \/ Overtaken(s, f)
      BY <1>1, <1>3, <2>1, <3>2 DEF FactsDelivered, FactOnItsWay
    <3> QED BY <1>1, <1>2, <2>1, <3>2, <3>3, TwoSides, OvertakenLasts DEF Adds
  <2> QED BY <1>3, <2>1 DEF FactsDelivered, Other
<1>15. DivergenceIsPending'
  <2>1. ASSUME NEW o \in DOMAIN head'["here"] \cap DOMAIN head'["there"], Differ(o)',
               \A s \in Sides : head'[s][o].stamp <= mark[s]
        PROVE  FALSE
    <3>1. \A s \in Sides : o \in DOMAIN head[s] /\ head'[s][o] = head[s][o]
      BY <1>12, <2>1, TwoSides
    <3>2. o \in DOMAIN head["here"] \cap DOMAIN head["there"] /\ Differ(o)
      BY <1>3, <2>1, <3>1, TwoSides DEF Differ
    <3>3. \A s \in Sides : ~OnItsWay(s, o, head[s][o].stamp)
      BY <1>3 DEF OnItsWay
    <3> QED BY <1>1, <2>1, <3>1, <3>2, <3>3 DEF DivergenceIsPending
  <2> QED BY <1>3, <2>1 DEF DivergenceIsPending
<1> QED BY <1>2, <1>6, <1>9, <1>10, <1>11, <1>13, <1>14, <1>15 DEF CalmInv

(* Telling moves the mark and puts on its way what the mark passes.        *)
LEMMA TellingKeeps ==
  ASSUME CalmInv, NEW s \in Sides, NEW p, p = ChangesSince(s, mark[s]),
         UNCHANGED <<store, clock>>, mark' = [mark EXCEPT ![s] = p.cursor],
         talk.phase \in {"idle", "pushed"},
         \A o \in DOMAIN p.objects : OnItsWay(s, o, p.objects[o].stamp)',
         \A f \in DOMAIN p.facts : FactOnItsWay(s, f)'
  PROVE  /\ RowsArePlain' /\ StampsAreUnique' /\ MarksAreTrue'
         /\ ObjectsDelivered' /\ FactsDelivered' /\ DivergenceIsPending'
         /\ Quotes(p, s)' /\ (p.complete => AllTold(s)')
<1>1. /\ head' = head /\ facts' = facts /\ raised' = raised /\ clock' = clock /\ clock \in Nat
      /\ mark'[s] = p.cursor /\ \A t \in Sides \ {s} : mark'[t] = mark[t]
      /\ DOMAIN mark' = Sides
  BY DEF store, CalmInv, SyncInv, MarksAreTrue
<1>2. /\ Quotes(p, s) /\ p.cursor \in mark[s]..clock
      /\ \A o \in DOMAIN head[s] :
            head[s][o].stamp <= p.cursor => head[s][o].stamp <= mark[s] \/ o \in DOMAIN p.objects
      /\ \A f \in DOMAIN facts[s] :
            facts[s][f].stamp <= p.cursor => facts[s][f].stamp <= mark[s] \/ f \in DOMAIN p.facts
      /\ p.complete => /\ \A o \in DOMAIN head[s] : head[s][o].stamp <= p.cursor
                       /\ \A f \in DOMAIN facts[s] : facts[s][f].stamp <= p.cursor
  BY TellingIsSafe DEF CalmInv
<1>3. \A t, o, n : ~OnItsWay(t, o, n) /\ ~FactOnItsWay(t, o)
  BY DEF OnItsWay, FactOnItsWay
<1>4. RowsArePlain' /\ StampsAreUnique'
  <2>1. RowsArePlain /\ StampsAreUnique
    BY DEF CalmInv
  <2> QED BY <1>1, <2>1, CopyingKeeps DEF RowsArePlain
<1>5. MarksAreTrue'
  BY <1>1, <1>2 DEF CalmInv, MarksAreTrue
<1>6. ASSUME NEW t \in Sides, NEW o \in DOMAIN head[t], head[t][o].stamp <= mark'[t]
      PROVE  Reaches(t, o)' \/ OnItsWay(t, o, head[t][o].stamp)'
  <2>1. CASE head[t][o].stamp <= mark[t]
    <3>1. Reaches(t, o)
      BY <1>3, <2>1 DEF CalmInv, ObjectsDelivered
    <3> QED BY <1>1, <3>1 DEF Reaches, Present, Other
  <2>2. CASE ~(head[t][o].stamp <= mark[t])
    <3>1. t = s
      BY <1>1, <1>6, <2>2
    <3>2. o \in DOMAIN p.objects
      BY <1>1, <1>2, <1>6, <2>2, <3>1
    <3>3. p.objects[o] = head[s][o]
      BY <1>2, <3>2 DEF Quotes
    <3>4. OnItsWay(s, o, head[s][o].stamp)'
      BY <1>1, <3>2, <3>3 DEF OnItsWay
    <3> QED BY <3>1, <3>4
  <2> QED BY <2>1, <2>2
<1>7. ObjectsDelivered'
  BY <1>1, <1>6 DEF ObjectsDelivered
<1>8. ASSUME NEW t \in Sides, NEW f \in DOMAIN facts[t], facts[t][f].stamp <= mark'[t]
      PROVE  f \in DOMAIN facts[Other(t)] \/ FactOnItsWay(t, f)' \/ Overtaken(t, f)
  <2>1. CASE facts[t][f].stamp <= mark[t]
    BY <1>3, <2>1 DEF CalmInv, FactsDelivered
  <2>2. CASE ~(facts[t][f].stamp <= mark[t])
    BY <1>1, <1>2, <1>8, <2>2
  <2> QED BY <2>1, <2>2
<1>9. FactsDelivered'
  <2>1. past' = past
    BY DEF store
  <2> QED BY <1>1, <1>8, <2>1 DEF FactsDelivered, Other, Overtaken
<1>10. ASSUME NEW o \in DOMAIN head["here"] \cap DOMAIN head["there"], Differ(o)
       PROVE  \E t \in Sides : ~(head[t][o].stamp <= mark'[t]) \/ OnItsWay(t, o, head[t][o].stamp)'
  <2>1. PICK t \in Sides : ~(head[t][o].stamp <= mark[t])
    BY <1>3, <1>10 DEF CalmInv, DivergenceIsPending
  <2>2. o \in DOMAIN head[t]
    BY <1>10, TwoSides
  <2>3. CASE ~(head[t][o].stamp <= mark'[t])
    BY <2>3
  <2>4. CASE head[t][o].stamp <= mark'[t]
    <3>1. t = s
      BY <1>1, <2>1, <2>2, <2>4
    <3>2. o \in DOMAIN p.objects
      BY <1>1, <1>2, <2>1, <2>2, <2>4, <3>1
    <3>3. p.objects[o] = head[s][o]
      BY <1>2, <3>2 DEF Quotes
    <3>4. OnItsWay(s, o, head[s][o].stamp)'
      BY <1>1, <3>2, <3>3 DEF OnItsWay
    <3> QED BY <3>1, <3>4
  <2> QED BY <2>3, <2>4
<1>11. DivergenceIsPending'
  BY <1>1, <1>10 DEF DivergenceIsPending, Differ
<1>12. Quotes(p, s)' /\ (p.complete => AllTold(s)')
  BY <1>1, <1>2 DEF Quotes, AllTold
<1> QED BY <1>4, <1>5, <1>7, <1>9, <1>11, <1>12

(* We tell what we have.                                                   *)
LEMMA StartPushKeepsCalm ==
  ASSUME CalmInv, NEW d, StartPush(d)
  PROVE  /\ RowsArePlain' /\ StampsAreUnique' /\ MarksAreTrue' /\ TalkIsFresh'
         /\ ObjectsDelivered' /\ FactsDelivered' /\ DivergenceIsPending'
<1>1. PICK p : p = ChangesSince("here", mark["here"])
  OBVIOUS
<1>2. /\ talk = Quiet /\ UNCHANGED <<store, clock>> /\ mark' = [mark EXCEPT !["here"] = p.cursor]
      /\ talk' = [phase |-> "pushing", direction |-> d, sent |-> p]
  BY <1>1 DEF StartPush
<1>3. talk'.phase = "pushing" /\ talk'.sent = p /\ talk.phase = "idle"
  BY <1>2 DEF Quiet
<1>4. /\ \A o \in DOMAIN p.objects : OnItsWay("here", o, p.objects[o].stamp)'
      /\ \A f \in DOMAIN p.facts : FactOnItsWay("here", f)'
  BY <1>3 DEF OnItsWay, FactOnItsWay
<1>5. /\ RowsArePlain' /\ StampsAreUnique' /\ MarksAreTrue'
      /\ ObjectsDelivered' /\ FactsDelivered' /\ DivergenceIsPending'
      /\ Quotes(p, "here")' /\ (p.complete => AllTold("here")')
  BY <1>1, <1>2, <1>3, <1>4, TwoSides, TellingKeeps
<1>6. TalkIsFresh'
  BY <1>3, <1>5 DEF TalkIsFresh, Pushed, Quotes
<1> QED BY <1>5, <1>6

(* The other side tells what it has.                                       *)
LEMMA PeerAnswersKeepsCalm ==
  ASSUME CalmInv, PeerAnswers
  PROVE  /\ RowsArePlain' /\ StampsAreUnique' /\ MarksAreTrue' /\ TalkIsFresh'
         /\ ObjectsDelivered' /\ FactsDelivered' /\ DivergenceIsPending'
<1>1. PICK p, sent : p = ChangesSince("there", mark["there"]) /\ sent = talk.sent
  OBVIOUS
<1>2. /\ UNCHANGED <<store, clock>> /\ mark' = [mark EXCEPT !["there"] = p.cursor]
      /\ talk.phase \in {"idle", "pushed"}
      /\ \/ talk' = [phase |-> "answered", direction |-> "pull", raw |-> p]
         \/ /\ talk' = [phase |-> "answered", direction |-> "both", raw |-> p, sent |-> sent]
            /\ talk.phase = "pushed"
  BY <1>1 DEF PeerAnswers, Quiet
<1>3. /\ talk'.phase = "answered" /\ talk'.raw = p
      /\ talk'.direction = "both" => talk'.sent = sent /\ talk.phase = "pushed"
  BY <1>2
<1>4. /\ \A o \in DOMAIN p.objects : OnItsWay("there", o, p.objects[o].stamp)'
      /\ \A f \in DOMAIN p.facts : FactOnItsWay("there", f)'
  BY <1>3 DEF OnItsWay, FactOnItsWay
<1>5. /\ RowsArePlain' /\ StampsAreUnique' /\ MarksAreTrue'
      /\ ObjectsDelivered' /\ FactsDelivered' /\ DivergenceIsPending'
      /\ Quotes(p, "there")'
  BY <1>1, <1>2, <1>4, TwoSides, TellingKeeps
<1>6. talk.phase = "pushed" => Quotes(sent, "here")' /\ (sent.complete => AllTold("here")')
  <2>1. talk.phase = "pushed" => Quotes(sent, "here") /\ (sent.complete => AllTold("here"))
    BY <1>1 DEF CalmInv, TalkIsFresh, Pushed
  <2>2. head' = head /\ facts' = facts /\ clock' = clock /\ mark'["here"] = mark["here"]
    BY <1>2, TwoSides DEF store, CalmInv, MarksAreTrue
  <2> QED BY <2>1, <2>2 DEF Quotes, AllTold
<1>7. TalkIsFresh'
  BY <1>3, <1>5, <1>6 DEF TalkIsFresh, Pushed, Quotes
<1> QED BY <1>5, <1>7

(* What is taken in is as it is on the other side, everything told has     *)
(* arrived, and a difference that was told is raised.                      *)
LEMMA ApplyingDelivers ==
  ASSUME CalmInv, NEW s \in Sides, NEW t \in Sides, t = Other(s), NEW p,
         Fits(s, p), Apply(s, p), Quotes(p, t), clock' = clock
  PROVE  /\ RowsArePlain' /\ StampsAreUnique' /\ StoreOK' /\ Adds
         /\ head'[t] = head[t] /\ facts'[t] = facts[t] /\ DOMAIN raised' = Sides
         /\ \A o \in DOMAIN p.objects : Reaches(t, o)'
         /\ \A f \in DOMAIN p.facts :
               p.facts[f].about \in DOMAIN head'[s] \cup {NoObject} => f \in DOMAIN facts'[s]
         /\ \A o \in DOMAIN head'[s] : \/ Reaches(s, o)'
                                       \/ o \in DOMAIN head[s] /\ head'[s][o] = head[s][o]
         /\ \A f \in DOMAIN facts'[s] : \/ f \in DOMAIN facts'[t]
                                        \/ f \in DOMAIN facts[s] /\ facts'[s][f] = facts[s][f]
         /\ \A o \in DOMAIN head'["here"] \cap DOMAIN head'["there"] : Differ(o)' =>
               /\ o \notin DOMAIN p.objects /\ Differ(o)
               /\ \A r \in Sides : o \in DOMAIN head[r] /\ head'[r][o] = head[r][o]
<1>1. StoreOK /\ HistoriesStayLocal /\ RowsArePlain /\ StampsAreUnique /\ DOMAIN raised = Sides
  BY DEF CalmInv, SyncInv, MarksAreTrue
<1>2. /\ \A o \in DOMAIN p.objects : /\ o \in DOMAIN head[t] /\ p.objects[o] = head[t][o]
                                     /\ p.objects[o].link = NoObject
      /\ \A f \in DOMAIN p.facts : /\ f \in DOMAIN facts[t] /\ p.facts[f] = facts[t][f]
  BY <1>1 DEF Quotes, RowsArePlain
<1>3. t # s /\ Sides = {s, t} /\ s = Other(t)
  BY DEF Other, Sides
<1>4. /\ DOMAIN head'[s] = DOMAIN head[s] \cup DOMAIN p.objects
      /\ \A o \in DOMAIN p.objects :
            /\ head'[s][o].version >= p.objects[o].version
            /\ head'[s][o] = p.objects[o] \/ (o \in DOMAIN head[s] /\ head'[s][o] = head[s][o])
            /\ \/ head'[s][o].text = p.objects[o].text
               \/ head'[s][o].version # p.objects[o].version
               \/ o \in raised'[s]
      /\ \A o \in DOMAIN head[s] \ DOMAIN p.objects : head'[s][o] = head[s][o]
      /\ \A r \in Sides \ {s} : head'[r] = head[r] /\ facts'[r] = facts[r] /\ raised'[r] = raised[r]
      /\ \A f \in DOMAIN p.facts : p.facts[f].about \in DOMAIN head'[s] \cup {NoObject} =>
            f \in DOMAIN facts'[s]
      /\ \A f \in DOMAIN facts'[s] :
            \/ f \in DOMAIN facts[s] /\ facts'[s][f] = facts[s][f]
            \/ /\ f \in DOMAIN p.facts /\ facts'[s][f] = p.facts[f]
               /\ p.facts[f].about \in DOMAIN head'[s] \cup {NoObject}
      /\ raised[s] \subseteq raised'[s] /\ DOMAIN raised' = Sides
  BY <1>1, <1>2, AppliedRows
<1>5. head'[t] = head[t] /\ facts'[t] = facts[t] /\ raised'[t] = raised[t]
  BY <1>3, <1>4
<1>6. StoreOK' /\ Adds
  BY <1>1, ApplyingKeeps
<1>7. RowsArePlain' /\ StampsAreUnique'
  <2>1. ASSUME NEW r \in Sides, NEW o \in DOMAIN head'[r]
        PROVE  \E x \in Sides : o \in DOMAIN head[x] /\ head'[r][o] = head[x][o]
    BY <1>2, <1>3, <1>4, <1>5
  <2>2. ASSUME NEW r \in Sides, NEW f \in DOMAIN facts'[r]
        PROVE  /\ facts'[r][f].about \in DOMAIN head'[r] \cup {NoObject}
               /\ \E x \in Sides : f \in DOMAIN facts[x] /\ facts'[r][f] = facts[x][f]
    BY <1>1, <1>2, <1>3, <1>4, <1>5 DEF RowsArePlain
  <2> QED BY <1>1, <2>1, <2>2, CopyingKeeps
<1>8. ASSUME NEW o \in DOMAIN p.objects
      PROVE  o \in DOMAIN head'[s] /\ o \in DOMAIN head'[t] /\ head'[s][o].version >= head'[t][o].version
  BY <1>2, <1>4, <1>5
<1>9. \A o \in DOMAIN p.objects : Reaches(t, o)'
  BY <1>3, <1>8 DEF Reaches, Present, Other
<1>10. ASSUME NEW o \in DOMAIN head'[s], ~(o \in DOMAIN head[s] /\ head'[s][o] = head[s][o])
       PROVE  Reaches(s, o)'
  <2>1. o \in DOMAIN head'[t] /\ head'[s][o] = head'[t][o]
    BY <1>2, <1>4, <1>5, <1>10
  <2>2. head'[t][o].version \in Nat
    BY <1>6, <2>1 DEF StoreOK, Head
  <2>3. o \in DOMAIN head'[t] /\ head'[t][o].version >= head'[s][o].version
    BY <2>1, <2>2
  <2> QED BY <2>3 DEF Reaches, Present, Other
<1>11. \A f \in DOMAIN facts'[s] : \/ f \in DOMAIN facts'[t]
                                   \/ f \in DOMAIN facts[s] /\ facts'[s][f] = facts[s][f]
  BY <1>2, <1>4, <1>5
<1>12. ASSUME NEW o \in DOMAIN head'["here"] \cap DOMAIN head'["there"], Differ(o)'
       PROVE  /\ o \notin DOMAIN p.objects /\ Differ(o)
              /\ \A r \in Sides : o \in DOMAIN head[r] /\ head'[r][o] = head[r][o]
  <2>1. /\ o \in DOMAIN head'[s] /\ o \in DOMAIN head'[t]
        /\ head'[s][o].version = head'[t][o].version /\ head'[s][o].text # head'[t][o].text
        /\ o \notin raised'[s] /\ o \notin raised'[t]
    BY <1>3, <1>12, TwoSides DEF Differ
  <2>2. o \notin DOMAIN p.objects
    BY <1>2, <1>4, <1>5, <2>1
  <2>3. \A r \in Sides : o \in DOMAIN head[r] /\ head'[r][o] = head[r][o]
    BY <1>3, <1>4, <1>5, <2>1, <2>2
  <2>4. \A r \in Sides : raised[r] \subseteq raised'[r]
    BY <1>3, <1>4, <1>5
  <2>5. Differ(o)
    BY <1>12, <2>3, <2>4, TwoSides DEF Differ
  <2> QED BY <2>2, <2>3, <2>5
<1> QED BY <1>4, <1>5, <1>6, <1>7, <1>9, <1>10, <1>11, <1>12

(* The other side takes in what we told.                                   *)
LEMMA PeerAppliesKeepsCalm ==
  ASSUME CalmInv, PeerApplies
  PROVE  /\ RowsArePlain' /\ StampsAreUnique' /\ MarksAreTrue' /\ TalkIsFresh'
         /\ ObjectsDelivered' /\ FactsDelivered' /\ DivergenceIsPending'
<1>1. PICK p : p = talk.sent
  OBVIOUS
<1>2. /\ talk.phase = "pushing" /\ Apply("there", p) /\ mark' = mark /\ clock' = clock
      /\ talk' = Quiet \/ talk' = [talk EXCEPT !.phase = "pushed"]
  BY <1>1 DEF PeerApplies
<1>3. Quotes(p, "here") /\ (p.complete => AllTold("here")) /\ Fits("there", p)
  BY <1>1, <1>2, TwoSides, WhatIsToldFits DEF CalmInv, SyncInv, TalkOK, TalkIsFresh, Pushed
<1>4. /\ RowsArePlain' /\ StampsAreUnique' /\ StoreOK' /\ Adds
      /\ head'["here"] = head["here"] /\ facts'["here"] = facts["here"] /\ DOMAIN raised' = Sides
      /\ \A o \in DOMAIN p.objects : Reaches("here", o)'
      /\ \A f \in DOMAIN p.facts :
            p.facts[f].about \in DOMAIN head'["there"] \cup {NoObject} => f \in DOMAIN facts'["there"]
      /\ \A o \in DOMAIN head'["there"] :
            Reaches("there", o)' \/ (o \in DOMAIN head["there"] /\ head'["there"][o] = head["there"][o])
      /\ \A f \in DOMAIN facts'["there"] :
            f \in DOMAIN facts'["here"] \/ (f \in DOMAIN facts["there"] /\ facts'["there"][f] = facts["there"][f])
      /\ \A o \in DOMAIN head'["here"] \cap DOMAIN head'["there"] : Differ(o)' =>
            /\ o \notin DOMAIN p.objects /\ Differ(o)
            /\ \A r \in Sides : o \in DOMAIN head[r] /\ head'[r][o] = head[r][o]
  BY <1>2, <1>3, TwoSides, ApplyingDelivers
<1>5. MarksAreTrue'
  BY <1>2, <1>4 DEF CalmInv, MarksAreTrue
<1>6. TalkIsFresh'
  <2>1. talk'.phase = "idle" \/ (talk'.phase = "pushed" /\ talk'.sent = p)
    <3>1. CASE talk' = Quiet
      BY <3>1 DEF Quiet
    <3>2. CASE talk' = [talk EXCEPT !.phase = "pushed"]
      <4>1. talk'.sent = p
        BY <1>1, <3>2
      <4>2. talk'.phase = "pushed"
        BY <1>2, <3>2 DEF CalmInv, SyncInv, TalkOK
      <4> QED BY <4>1, <4>2
    <3> QED BY <1>2, <3>1, <3>2
  <2>2. Quotes(p, "here")' /\ (p.complete => AllTold("here")')
    BY <1>2, <1>3, <1>4 DEF Quotes, AllTold
  <2> QED BY <2>1, <2>2 DEF TalkIsFresh, Pushed, Quotes
<1>7. ASSUME NEW s \in Sides, NEW o \in DOMAIN head'[s], head'[s][o].stamp <= mark[s]
      PROVE  Reaches(s, o)'
  <2>1. CASE s = "here"
    <3>1. o \in DOMAIN head[s] /\ head'[s][o] = head[s][o]
      BY <1>4, <2>1
    <3>2. Reaches(s, o) \/ o \in DOMAIN p.objects
      BY <1>1, <1>2, <1>7, <2>1, <3>1 DEF CalmInv, ObjectsDelivered, OnItsWay
    <3> QED BY <1>4, <2>1, <3>1, <3>2, ReachingLasts DEF CalmInv, SyncInv
  <2>2. CASE s = "there"
    <3>1. SUFFICES ASSUME o \in DOMAIN head[s], head'[s][o] = head[s][o] PROVE Reaches(s, o)'
      BY <1>4, <2>2
    <3>2. Reaches(s, o)
      BY <1>2, <1>7, <2>2, <3>1 DEF CalmInv, ObjectsDelivered, OnItsWay
    <3> QED BY <1>4, <3>1, <3>2, ReachingLasts DEF CalmInv, SyncInv
  <2> QED BY <2>1, <2>2, TwoSides
<1>8. ObjectsDelivered'
  BY <1>2, <1>7 DEF ObjectsDelivered
<1>9. ASSUME NEW s \in Sides, NEW f \in DOMAIN facts'[s], facts'[s][f].stamp <= mark[s]
      PROVE  f \in DOMAIN facts'[Other(s)] \/ Overtaken(s, f)'
  <2>1. CASE s = "here"
    <3>1. f \in DOMAIN facts["here"] /\ facts'["here"][f] = facts["here"][f]
      BY <1>4, <1>9, <2>1
    <3>2. f \in DOMAIN facts["there"] \/ f \in DOMAIN p.facts \/ Overtaken("here", f)
      BY <1>1, <1>2, <1>9, <2>1, <3>1, TwoSides DEF CalmInv, FactsDelivered, FactOnItsWay
    <3>3. CASE f \in DOMAIN facts["there"]
      BY <1>4, <2>1, <3>3, TwoSides DEF Adds
    <3>4. CASE Overtaken("here", f)
      BY <1>4, <1>9, <2>1, <3>1, <3>4, OvertakenLasts DEF CalmInv
    <3>5. CASE f \in DOMAIN p.facts /\ ~Overtaken("here", f)
      <4>1. PICK o : o = facts["here"][f].about /\ o = p.facts[f].about
        BY <1>3, <3>5 DEF Quotes
      <4>2. o # NoObject => o \in DOMAIN head["there"] \/ o \in DOMAIN p.objects
        BY <1>1, <1>2, <1>9, <2>1, <3>1, <3>5, <4>1, TwoSides, ObjectsComeBeforeTheirFacts DEF OnItsWay
      <4>3. DOMAIN head["there"] \subseteq DOMAIN head'["there"]
        BY <1>4, TwoSides DEF Adds, Present
      <4>4. DOMAIN p.objects \subseteq DOMAIN head'["there"]
        BY <1>4, TwoSides DEF Reaches, Present
      <4> QED BY <1>4, <2>1, <3>5, <4>1, <4>2, <4>3, <4>4, TwoSides
    <3> QED BY <3>2, <3>3, <3>4, <3>5
  <2>2. CASE s = "there"
    <3>1. SUFFICES ASSUME f \in DOMAIN facts[s], facts'[s][f] = facts[s][f]
                   PROVE  f \in DOMAIN facts'["here"] \/ Overtaken(s, f)'
      BY <1>4, <1>9, <2>2, TwoSides
    <3>2. f \in DOMAIN facts["here"] \/ Overtaken(s, f)
      BY <1>2, <1>9, <2>2, <3>1, TwoSides DEF CalmInv, FactsDelivered, FactOnItsWay
    <3> QED BY <1>4, <1>9, <3>1, <3>2, OvertakenLasts DEF CalmInv
  <2> QED BY <2>1, <2>2, TwoSides
<1>10. FactsDelivered'
  BY <1>2, <1>9 DEF FactsDelivered
<1>11. ASSUME NEW o \in DOMAIN head'["here"] \cap DOMAIN head'["there"], Differ(o)'
       PROVE  \E s \in Sides : ~(head'[s][o].stamp <= mark[s])
  <2>1. /\ o \notin DOMAIN p.objects /\ Differ(o)
        /\ \A r \in Sides : o \in DOMAIN head[r] /\ head'[r][o] = head[r][o]
    BY <1>4, <1>11
  <2>2. \E s \in Sides : ~(head[s][o].stamp <= mark[s]) \/ OnItsWay(s, o, head[s][o].stamp)
    BY <2>1, TwoSides DEF CalmInv, DivergenceIsPending
  <2>3. \A s \in Sides : ~OnItsWay(s, o, head[s][o].stamp)
    BY <1>1, <1>2, <2>1 DEF OnItsWay
  <2> QED BY <2>1, <2>2, <2>3
<1>12. DivergenceIsPending'
  BY <1>2, <1>11 DEF DivergenceIsPending
<1> QED BY <1>4, <1>5, <1>6, <1>8, <1>10, <1>12

(* What we leave out of an answer we hold at the same version, and in the  *)
(* same words.                                                             *)
LEMMA EchoIsHeld ==
  ASSUME NEW raw, NEW sent, Quotes(raw, "there"), Quotes(sent, "here"),
         NEW p, p = WithoutEcho(raw, sent)
  PROVE  /\ Quotes(p, "there") /\ p.facts = raw.facts /\ DOMAIN p.objects \subseteq DOMAIN raw.objects
         /\ \A o \in DOMAIN raw.objects \ DOMAIN p.objects :
               /\ o \in DOMAIN head["here"] /\ o \in DOMAIN head["there"]
               /\ head["here"][o].text = head["there"][o].text
               /\ head["here"][o].version = head["there"][o].version
<1> DEFINE kept == {x \in DOMAIN raw.objects :
                      ~(/\ x \in DOMAIN sent.objects
                        /\ sent.objects[x].text = raw.objects[x].text
                        /\ sent.objects[x].version = raw.objects[x].version)}
<1>1. p = [raw EXCEPT !.objects = [o \in kept |-> raw.objects[o]]]
  BY DEF WithoutEcho
<1>2. {"objects", "facts", "cursor"} \subseteq DOMAIN raw
  BY DEF Quotes
<1>3. /\ p.objects = [o \in kept |-> raw.objects[o]] /\ p.facts = raw.facts
      /\ p.cursor = raw.cursor /\ DOMAIN p = DOMAIN raw
  <2> HIDE DEF kept
  <2> QED BY <1>1, <1>2
<1>4. DOMAIN p.objects = kept /\ \A o \in kept : p.objects[o] = raw.objects[o]
  BY <1>3
<1>5. Quotes(p, "there")
  BY <1>3, <1>4 DEF Quotes
<1>6. ASSUME NEW o \in DOMAIN raw.objects \ DOMAIN p.objects
      PROVE  /\ o \in DOMAIN head["here"] /\ o \in DOMAIN head["there"]
             /\ head["here"][o].text = head["there"][o].text
             /\ head["here"][o].version = head["there"][o].version
  <2>1. /\ o \in DOMAIN sent.objects /\ sent.objects[o].text = raw.objects[o].text
        /\ sent.objects[o].version = raw.objects[o].version
    BY <1>4
  <2> QED BY <2>1 DEF Quotes
<1> QED BY <1>3, <1>4, <1>5, <1>6

(* Where our mark may jump to.                                             *)
LEMMA JumpIsTrue ==
  ASSUME NEW top \in Nat, NEW a \in 0..top, NEW b \in 0..top
  PROVE  Max({a, b}) \in 0..top
<1>1. \E n \in {a, b} : \A m \in {a, b} : n >= m
  OBVIOUS
<1>2. Max({a, b}) \in {a, b}
  BY <1>1 DEF Max
<1> QED BY <1>2

(* We take in what the other side answered.                                *)
LEMMA FinishSyncKeepsCalm ==
  ASSUME CalmInv, FinishSync
  PROVE  /\ RowsArePlain' /\ StampsAreUnique' /\ MarksAreTrue' /\ TalkIsFresh'
         /\ ObjectsDelivered' /\ FactsDelivered' /\ DivergenceIsPending'
<1>1. PICK raw, sent, p : raw = talk.raw /\ sent = talk.sent /\ p = Incoming
  OBVIOUS
<1>2. /\ talk.phase = "answered" /\ Apply("here", p) /\ clock' = clock /\ talk' = Quiet
      /\ talk.direction = "both" => mark' = [mark EXCEPT !["here"] = JumpTo(sent, raw)]
      /\ talk.direction # "both" => mark' = mark
  BY <1>1 DEF FinishSync
<1>3. /\ StoreOK /\ Quotes(raw, "there") /\ Tells(raw) /\ clock \in Nat
      /\ DOMAIN mark = Sides /\ \A s \in Sides : mark[s] \in 0..clock
  BY <1>1, <1>2 DEF CalmInv, SyncInv, TalkOK, TalkIsFresh, MarksAreTrue
<1>4. talk.direction = "both" => /\ Quotes(sent, "here") /\ (sent.complete => AllTold("here"))
                                 /\ Tells(sent) /\ StillHeld(sent)
  BY <1>1, <1>2 DEF CalmInv, SyncInv, TalkOK, TalkIsFresh, Pushed
<1>5. /\ Fits("here", p) /\ Quotes(p, "there")
      /\ p.facts = raw.facts
      /\ \A o \in DOMAIN raw.objects \ DOMAIN p.objects :
            /\ o \in DOMAIN head["here"] /\ o \in DOMAIN head["there"]
            /\ head["here"][o].text = head["there"][o].text
            /\ head["here"][o].version = head["there"][o].version
  <2>1. CASE talk.direction = "both"
    <3>1. p = WithoutEcho(raw, sent)
      BY <1>1, <2>1 DEF Incoming
    <3>2. Fits("here", WithoutEcho(raw, sent))
      BY <1>3, <1>4, <2>1, AnswersFit
    <3> QED BY <1>3, <1>4, <2>1, <3>1, <3>2, EchoIsHeld
  <2>2. CASE talk.direction # "both"
    <3>1. p = raw
      BY <1>1, <2>2 DEF Incoming
    <3> QED BY <1>3, <3>1, TwoSides, WhatIsToldFits
  <2> QED BY <2>1, <2>2
<1>6. /\ RowsArePlain' /\ StampsAreUnique' /\ StoreOK' /\ Adds
      /\ head'["there"] = head["there"] /\ facts'["there"] = facts["there"] /\ DOMAIN raised' = Sides
      /\ \A o \in DOMAIN p.objects : Reaches("there", o)'
      /\ \A f \in DOMAIN p.facts :
            p.facts[f].about \in DOMAIN head'["here"] \cup {NoObject} => f \in DOMAIN facts'["here"]
      /\ \A o \in DOMAIN head'["here"] :
            Reaches("here", o)' \/ (o \in DOMAIN head["here"] /\ head'["here"][o] = head["here"][o])
      /\ \A f \in DOMAIN facts'["here"] :
            f \in DOMAIN facts'["there"] \/ (f \in DOMAIN facts["here"] /\ facts'["here"][f] = facts["here"][f])
      /\ \A o \in DOMAIN head'["here"] \cap DOMAIN head'["there"] : Differ(o)' =>
            /\ o \notin DOMAIN p.objects /\ Differ(o)
            /\ \A r \in Sides : o \in DOMAIN head[r] /\ head'[r][o] = head[r][o]
  BY <1>2, <1>5, TwoSides, ApplyingDelivers
<1>7. /\ DOMAIN mark' = Sides /\ mark'["there"] = mark["there"]
      /\ mark'["here"] = mark["here"] \/ (AllTold("here") /\ mark'["here"] \in 0..clock)
  <2>1. CASE talk.direction = "both" /\ sent.complete
    <3>1. sent.cursor \in 0..clock /\ raw.cursor \in 0..clock /\ AllTold("here")
      BY <1>3, <1>4, <2>1 DEF Quotes
    <3>2. PICK m : m = JumpTo(sent, raw)
      OBVIOUS
    <3>3. m = Max({sent.cursor, raw.cursor})
      BY <2>1, <3>2 DEF JumpTo
    <3>4. m \in 0..clock
      BY <1>3, <3>1, <3>3, JumpIsTrue
    <3>5. mark' = [mark EXCEPT !["here"] = m]
      BY <1>2, <2>1, <3>2
    <3> QED BY <1>3, <3>1, <3>4, <3>5, TwoSides
  <2>2. CASE talk.direction = "both" /\ ~sent.complete
    <3>1. mark' = [mark EXCEPT !["here"] = mark["here"]]
      BY <1>2, <2>2 DEF JumpTo
    <3> QED BY <1>3, <3>1, TwoSides
  <2>3. CASE talk.direction # "both"
    BY <1>2, <1>3, <2>3
  <2> QED BY <2>1, <2>2, <2>3
<1>8. MarksAreTrue'
  <2>1. \A s \in Sides : mark'[s] \in 0..clock
    BY <1>3, <1>7, TwoSides
  <2> QED BY <1>2, <1>6, <1>7, <2>1 DEF MarksAreTrue
<1>9. talk'.phase = "idle"
  BY <1>2 DEF Quiet
<1>10. TalkIsFresh'
  BY <1>9 DEF TalkIsFresh, Pushed
<1>11. ASSUME NEW s \in Sides, NEW o \in DOMAIN head'[s], head'[s][o].stamp <= mark'[s]
       PROVE  Reaches(s, o)'
  <2>1. CASE s = "here"
    <3>1. SUFFICES ASSUME o \in DOMAIN head[s], head'[s][o] = head[s][o] PROVE Reaches(s, o)'
      BY <1>6, <2>1
    <3>2. head[s][o].stamp <= mark[s]
      BY <1>7, <1>11, <2>1, <3>1 DEF AllTold
    <3>3. Reaches(s, o)
      BY <1>2, <2>1, <3>1, <3>2 DEF CalmInv, ObjectsDelivered, OnItsWay
    <3> QED BY <1>3, <1>6, <3>1, <3>3, ReachingLasts
  <2>2. CASE s = "there"
    <3>1. o \in DOMAIN head[s] /\ head'[s][o] = head[s][o] /\ head[s][o].stamp <= mark[s]
      BY <1>6, <1>7, <1>11, <2>2
    <3>2. Reaches(s, o) \/ o \in DOMAIN raw.objects
      BY <1>1, <1>2, <2>2, <3>1 DEF CalmInv, ObjectsDelivered, OnItsWay
    <3>3. CASE Reaches(s, o)
      BY <1>3, <1>6, <3>1, <3>3, ReachingLasts
    <3>4. CASE o \in DOMAIN p.objects
      BY <1>6, <2>2, <3>4
    <3>5. CASE o \in DOMAIN raw.objects \ DOMAIN p.objects
      <4>1. /\ o \in DOMAIN head["here"] /\ head["here"][o].version = head[s][o].version
            /\ head[s][o].version \in Nat
        BY <1>3, <1>5, <2>2, <3>1, <3>5 DEF StoreOK, Head
      <4>2. Reaches(s, o)
        BY <2>2, <4>1 DEF Reaches, Present, Other
      <4> QED BY <1>3, <1>6, <3>1, <4>2, ReachingLasts
    <3> QED BY <3>2, <3>3, <3>4, <3>5
  <2> QED BY <2>1, <2>2, TwoSides
<1>12. ObjectsDelivered'
  BY <1>11 DEF ObjectsDelivered
<1>13. ASSUME NEW s \in Sides, NEW f \in DOMAIN facts'[s], facts'[s][f].stamp <= mark'[s]
       PROVE  f \in DOMAIN facts'[Other(s)] \/ Overtaken(s, f)'
  <2>1. CASE s = "here"
    <3>1. SUFFICES ASSUME f \in DOMAIN facts[s], facts'[s][f] = facts[s][f]
                   PROVE  f \in DOMAIN facts'["there"] \/ Overtaken(s, f)'
      BY <1>6, <1>13, <2>1, TwoSides
    <3>2. facts[s][f].stamp <= mark[s]
      BY <1>7, <1>13, <2>1, <3>1 DEF AllTold
    <3>3. f \in DOMAIN facts["there"] \/ Overtaken(s, f)
      BY <1>2, <2>1, <3>1, <3>2, TwoSides DEF CalmInv, FactsDelivered, FactOnItsWay
    <3> QED BY <1>6, <1>13, <3>1, <3>3, OvertakenLasts DEF CalmInv
  <2>2. CASE s = "there"
    <3>1. f \in DOMAIN facts["there"] /\ facts["there"][f].stamp <= mark["there"]
      BY <1>6, <1>7, <1>13, <2>2
    <3>2. f \in DOMAIN facts["here"] \/ f \in DOMAIN p.facts \/ Overtaken("there", f)
      BY <1>1, <1>2, <1>5, <3>1, TwoSides DEF CalmInv, FactsDelivered, FactOnItsWay
    <3>3. CASE f \in DOMAIN facts["here"]
      BY <1>6, <2>2, <3>3, TwoSides DEF Adds
    <3>4. CASE Overtaken("there", f)
      BY <1>6, <1>13, <2>2, <3>4, OvertakenLasts DEF CalmInv
    <3>5. CASE f \in DOMAIN p.facts /\ ~Overtaken("there", f)
      <4>1. PICK o : o = facts["there"][f].about /\ o = p.facts[f].about
        BY <1>5, <3>5 DEF Quotes
      <4>2. o # NoObject => o \in DOMAIN head["here"] \/ o \in DOMAIN raw.objects
        BY <1>1, <1>2, <3>1, <3>5, <4>1, TwoSides, ObjectsComeBeforeTheirFacts DEF OnItsWay
      <4>3. DOMAIN head["here"] \subseteq DOMAIN head'["here"]
        BY <1>6, TwoSides DEF Adds, Present
      <4>4. DOMAIN p.objects \subseteq DOMAIN head'["here"]
        BY <1>6, TwoSides DEF Reaches, Present
      <4>5. o # NoObject => o \in DOMAIN head'["here"]
        BY <1>5, <4>2, <4>3, <4>4
      <4> QED BY <1>6, <2>2, <3>5, <4>1, <4>5, TwoSides
    <3> QED BY <3>2, <3>3, <3>4, <3>5
  <2> QED BY <2>1, <2>2, TwoSides
<1>14. FactsDelivered'
  BY <1>13 DEF FactsDelivered
<1>15. ASSUME NEW o \in DOMAIN head'["here"] \cap DOMAIN head'["there"], Differ(o)'
       PROVE  \E s \in Sides : ~(head'[s][o].stamp <= mark'[s])
  <2>1. /\ o \notin DOMAIN p.objects /\ Differ(o)
        /\ \A r \in Sides : o \in DOMAIN head[r] /\ head'[r][o] = head[r][o]
    BY <1>6, <1>15
  <2>2. PICK s \in Sides : ~(head[s][o].stamp <= mark[s]) \/ OnItsWay(s, o, head[s][o].stamp)
    BY <2>1, TwoSides DEF CalmInv, DivergenceIsPending
  <2>3. o \notin DOMAIN raw.objects
    BY <1>5, <2>1 DEF Differ
  <2>4. ~OnItsWay(s, o, head[s][o].stamp)
    BY <1>1, <1>2, <2>3 DEF OnItsWay
  <2>5. ~(head[s][o].stamp <= mark'[s])
    BY <1>7, <2>1, <2>2, <2>4, TwoSides DEF AllTold
  <2> QED BY <2>1, <2>5
<1>16. DivergenceIsPending'
  BY <1>15 DEF DivergenceIsPending
<1> QED BY <1>6, <1>8, <1>10, <1>12, <1>14, <1>16

(* Every step of an undisturbed system.                                    *)
LEMMA CalmSteps ==
  ASSUME Undisturbed, CalmInv, [Next]_vars
  PROVE  CalmInv'
<1>1. SyncInv'
  BY SyncSteps DEF CalmInv
<1>2. CASE People
  BY <1>2, PeopleKeepCalm
<1>3. CASE \E d \in Directions : StartPush(d)
  BY <1>1, <1>3, StartPushKeepsCalm DEF CalmInv
<1>4. CASE PeerApplies
  BY <1>1, <1>4, PeerAppliesKeepsCalm DEF CalmInv
<1>5. CASE PeerAnswers
  BY <1>1, <1>5, PeerAnswersKeepsCalm DEF CalmInv
<1>6. CASE FinishSync
  BY <1>1, <1>6, FinishSyncKeepsCalm DEF CalmInv
<1>7. ~BreakSync
  <2>1. talk.phase = "pushing" => ~Refused("there", talk.sent)
    <3>1. PICK p : p = talk.sent
      OBVIOUS
    <3>2. talk.phase = "pushing" => \A o \in DOMAIN p.objects : p.objects[o].link = NoObject
      BY <3>1, TwoSides DEF CalmInv, TalkIsFresh, Pushed, Quotes, RowsArePlain
    <3> QED BY <3>1, <3>2, NothingRefused
  <2>2. talk.phase = "answered" => ~Refused("here", Incoming)
    <3>1. PICK p, raw, sent : p = Incoming /\ raw = talk.raw /\ sent = talk.sent
      OBVIOUS
    <3>2. talk.phase = "answered" => Quotes(p, "there")
      <4>1. CASE talk.phase = "answered" /\ talk.direction = "both"
        <5>1. Quotes(raw, "there") /\ Quotes(sent, "here") /\ p = WithoutEcho(raw, sent)
          BY <3>1, <4>1 DEF CalmInv, TalkIsFresh, Pushed, Incoming
        <5> QED BY <5>1, EchoIsHeld
      <4>2. CASE talk.phase = "answered" /\ talk.direction # "both"
        BY <3>1, <4>2 DEF CalmInv, TalkIsFresh, Incoming
      <4> QED BY <4>1, <4>2
    <3>3. talk.phase = "answered" => \A o \in DOMAIN p.objects : p.objects[o].link = NoObject
      BY <3>2, TwoSides DEF CalmInv, Quotes, RowsArePlain
    <3> QED BY <3>1, <3>3, NothingRefused
  <2> QED BY <2>1, <2>2 DEF BreakSync, CallFails, Undisturbed
<1>8. ~Rehearse
  BY DEF Rehearse, Undisturbed
<1>9. CASE UNCHANGED vars
  BY <1>1, <1>9 DEF vars, CalmInv, RowsArePlain, StampsAreUnique, MarksAreTrue, TalkIsFresh, Quotes,
     AllTold, Pushed, ObjectsDelivered, FactsDelivered, DivergenceIsPending, Differ, Reaches, Present,
     Other, OnItsWay, FactOnItsWay, Overtaken, store
<1> QED BY <1>2, <1>3, <1>4, <1>5, <1>6, <1>7, <1>8, <1>9 DEF Next, Exchange

(* Nothing is there, so nothing is amiss.                                  *)
LEMMA CalmFromTheStart ==
  ASSUME Init, SyncInv
  PROVE  CalmInv
<1>1. /\ \A s \in Sides : DOMAIN head[s] = {} /\ DOMAIN facts[s] = {} /\ mark[s] = 0
      /\ DOMAIN mark = Sides /\ DOMAIN raised = Sides
      /\ talk.phase = "idle" /\ clock = 0
  BY DEF Init, Quiet
<1> QED BY <1>1, TwoSides DEF CalmInv, RowsArePlain, StampsAreUnique, MarksAreTrue, TalkIsFresh,
     Pushed, ObjectsDelivered, FactsDelivered, DivergenceIsPending

(* While nothing disturbs the exchanges, everything a side holds that is   *)
(* stamped at or before its mark has reached the other side or is on its   *)
(* way there, whatever fits in one payload and whatever the facts are      *)
(* about, but for facts whose object was written again after them.         *)
THEOREM MarksPassOvertakenFactsOnly ==
  ASSUME Undisturbed PROVE Spec => []OnlyOvertakenFactsAreLost
<1>1. CalmInv => OnlyOvertakenFactsAreLost
  BY DEF CalmInv, ObjectsDelivered, FactsDelivered, OnlyOvertakenFactsAreLost, ObjectsFollow, Present
<1>2. Init /\ SyncInv => CalmInv
  BY CalmFromTheStart
<1>3. CalmInv /\ [Next]_vars => CalmInv'
  BY CalmSteps
<1> QED BY <1>1, <1>2, <1>3, SyncInvariant, PTL DEF Spec

(* While nothing disturbs the exchanges, two sides with nothing left to    *)
(* tell that give one version of an object different texts raised it.      *)
THEOREM DivergencesAreRaised ==
  ASSUME Undisturbed PROVE Spec => []DivergenceIsRaised
<1>1. CalmInv => DivergenceIsRaised
  <2> SUFFICES ASSUME CalmInv, talk = Quiet, NothingLeft("here"), NothingLeft("there"),
                      NEW o \in Present("here") \cap Present("there"), Differ(o)
               PROVE  FALSE
    BY DEF DivergenceIsRaised, Differ
  <2>1. ASSUME NEW s \in Sides PROVE NothingLeft(s) => head[s][o].stamp <= mark[s]
    <3>1. PICK p : p = ChangesSince(s, mark[s])
      OBVIOUS
    <3>2. NothingLeft(s) => DOMAIN p.objects = {}
      BY <3>1 DEF NothingLeft
    <3>3. DOMAIN p.objects = {} => \A q \in DOMAIN head[s] : head[s][q].stamp <= mark[s]
      BY <3>1, TellingIsSafe DEF CalmInv
    <3>4. o \in DOMAIN head[s]
      BY TwoSides DEF Present
    <3> QED BY <3>2, <3>3, <3>4
  <2>2. \A s \in Sides : ~OnItsWay(s, o, head[s][o].stamp)
    BY DEF OnItsWay, Quiet
  <2> QED BY <2>1, <2>2, TwoSides DEF CalmInv, DivergenceIsPending, Present
<1>2. Init /\ SyncInv => CalmInv
  BY CalmFromTheStart
<1>3. CalmInv /\ [Next]_vars => CalmInv'
  BY CalmSteps
<1> QED BY <1>1, <1>2, <1>3, SyncInvariant, PTL DEF Spec
=============================================================================
