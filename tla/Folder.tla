------------------------------- MODULE Folder -------------------------------
(***************************************************************************)
(* src/capture/folder.js: planFolder() walks a folder and lists what it    *)
(* holds that is worth capturing, with a reason for what it leaves out.    *)
(* The walk reads the disk and changes nothing.                            *)
(***************************************************************************)
EXTENDS Naturals, FiniteSets, Sequences, SequencesExt, FiniteSetsExt

CONSTANTS Entries,  \* the folder in the order it is walked: [name, within, folder]
          Disks,    \* what the entries may turn out to be: index -> kind
          Limits    \* --limit; one past the entries stands for none

Papers == {Entries[i].name : i \in {j \in DOMAIN Entries : ~Entries[j].folder}}

ASSUME FolderAssumption ==
    /\ Entries \in Seq([name : STRING, within : Nat, folder : BOOLEAN])
    /\ \A i \in DOMAIN Entries : Entries[i].within \in 0..(i - 1)
    /\ \A disk \in Disks : \A i \in DOMAIN Entries : disk[i] = "note" => ~Entries[i].folder
    /\ Limits \subseteq Nat
-----------------------------------------------------------------------------
(* Why a walk passes over an entry that is a link, hidden, machinery or    *)
(* unreadable, or over a file that is unsupported, empty or too large.     *)
Reasons == {"link", "hidden", "machinery", "unreadable", "unsupported", "empty", "huge"}

(* Mutant: one file more than the limit is taken.                          *)
MetOneMore(plan, i, limit) == Entries[i].within \in plan.walked /\ Len(plan.files) <= limit

(* An entry is met when its folder was walked and the plan is not full.    *)
Met(plan, i, limit) == Entries[i].within \in plan.walked /\ Len(plan.files) < limit

(* A folder that is not asked for is not opened to see if it can be read.  *)
PassedOver(i, kind, recursive) ==
    kind \in Reasons /\ (Entries[i].folder /\ kind = "unreadable" => recursive)

(* One entry of the walk.  A device, and a subfolder when only the folder  *)
(* itself was asked for, are passed over without a word.                   *)
Planned(plan, i, kind, limit, recursive) ==
    CASE ~Met(plan, i, limit) -> [plan EXCEPT !.limited = @ \/ Entries[i].within \in plan.walked]
      [] Met(plan, i, limit) /\ PassedOver(i, kind, recursive) ->
            [plan EXCEPT !.skipped = @ \cup {<<i, kind>>}]
      [] Met(plan, i, limit) /\ kind = "folder" ->
            [plan EXCEPT !.walked = IF recursive THEN @ \cup {i} ELSE @]
      [] Met(plan, i, limit) /\ kind = "note" -> [plan EXCEPT !.files = Append(@, i)]
      [] OTHER -> plan

(* planFolder(): what a folder holds that is worth capturing, which is     *)
(* what is made of one entry after the other.                              *)
PlanFolder(disk, limit, recursive) ==
    LET plan[i \in 0..Len(Entries)] ==
            IF i = 0 THEN [files |-> <<>>, skipped |-> {}, walked |-> {0}, limited |-> FALSE]
            ELSE Planned(plan[i - 1], i, disk[i], limit, recursive)
        whole == plan[Len(Entries)]
    IN  [whole EXCEPT !.limited = @ \/ Len(whole.files) >= limit]
-----------------------------------------------------------------------------
(* The folders an entry lies in, the one that is captured being 0.         *)
Around[i \in 0..Len(Entries)] ==
    IF i = 0 THEN {} ELSE {Entries[i].within} \cup Around[Entries[i].within]

(* What a person would expect to be met, and to be captured.               *)
Reached(disk, recursive) ==
    {i \in DOMAIN Entries : \A j \in Around[i] \ {0} : recursive /\ disk[j] = "folder"}
WantedFiles(disk, recursive) == SetToSortSeq({i \in Reached(disk, recursive) : disk[i] = "note"}, <)

(* What is left out without a word, though "a reason for every single      *)
(* thing" is promised: devices, and the subfolders of a flat walk.         *)
Silent(i, kind, recursive) ==
    \/ kind = "device"
    \/ ~recursive /\ Entries[i].folder /\ ~PassedOver(i, kind, recursive)

(* Why is my note not in here?  A plan holds the first of the notes that   *)
(* can be reached, as many as the limit allows and the same every time.    *)
(* When it does not say that it is limited, whatever can be reached and is *)
(* not silent is planned, walked, or left out for the reason there is; and *)
(* nothing is planned or left out that could not be reached.               *)
PlansAnswerForTheRest ==
    \A disk \in Disks, limit \in Limits, recursive \in BOOLEAN :
       LET plan == PlanFolder(disk, limit, recursive)
           reached == Reached(disk, recursive)
           all == WantedFiles(disk, recursive)
           Answered(i) == i \in ToSet(plan.files) \cup plan.walked \/ <<i, disk[i]>> \in plan.skipped
       IN  /\ plan.files = SubSeq(all, 1, Min({limit, Len(all)}))
           /\ \A entry \in plan.skipped : entry[1] \in reached /\ disk[entry[1]] = entry[2]
           /\ ~plan.limited => /\ plan.files = all
                              /\ \A i \in reached : Answered(i) \/ Silent(i, disk[i], recursive)
=============================================================================
