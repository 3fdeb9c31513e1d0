------------------------------ MODULE MCIngest ------------------------------
(* TLC instance of Ingest: a folder with two notes, one of them in a         *)
(* subfolder and one in two pieces that overlap, and a recording.          *)
EXTENDS Ingest, TLC

Entry(name, within, folder) == [name |-> name, within |-> within, folder |-> folder]
MCEntries == <<Entry("long", 0, FALSE), Entry("sub", 0, TRUE), Entry("deep", 2, TRUE), Entry("short", 2, FALSE)>>

MCDisks == {<<"note", "folder", "folder", "note">>}

MCPieces == "long" :> <<{"a", "b"}, {"b", "c"}>> @@ "short" :> <<{"a"}>>
            @@ "heard" :> <<{"a"}, {"b"}>>
=============================================================================
