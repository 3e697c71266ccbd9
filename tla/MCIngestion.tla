---------------------------- MODULE MCIngestion ----------------------------
(***************************************************************************)
(* Instances of Ingestion: successive versions of the file of one source.  *)
(***************************************************************************)
EXTENDS Ingestion, TLC

CONSTANT null

ThreeTexts == {"", "old", "new"}
NoNumber == 0

Q(no, text, options) == [no |-> no, text |-> text, options |-> options]
R(id, form, head, subs) == [id |-> id, form |-> form, head |-> head, subs |-> subs]
Import(fn, file) == [fn |-> fn, source |-> "s", file |-> file]

\* A recording of two questions, and a revision of the file that asks one and
\* adds a second recording.
Long  == R(1, "nested", "old", <<Q(1, "old", 1 :> "old" @@ 2 :> "old"), Q(NoNumber, "old", 2 :> "")>>)
Short == R(1, "choice", "new", <<Q(1, "new", 1 :> "new")>>)
Added == R(2, "choice", "new", <<Q(1, "new", Nothing)>>)

Revisions == { Import("listening_passage", <<Long>>), Import("listening", <<Short, Added>>) }
Unfit == { Import("listening_passage", <<Long>>), Import("listening", <<Long>>) }

NoManual  == Nothing
OneManual == 1 :> [ref |-> null, head |-> "old", questions |-> Nothing]
=============================================================================
