----------------------------- MODULE Catalogue -----------------------------
(***************************************************************************)
(* What the import of question files promises to the rest of the system    *)
(* (the comments of crawler/spiders/write_to_mysql.py): a source of the    *)
(* bank is a shelf of numbered entries, and an import either makes it      *)
(* mirror the file or, when records failed, loses nothing of it; an entry  *)
(* keeps the group id that exams refer to as long as it is on the shelf.   *)
(***************************************************************************)
CONSTANTS
    Sources,
    Offers,      \* what the files hold: source and contents by record id
    NoOffer

VARIABLES
    shelves, \* source -> (record id -> group id and content)
    offer,   \* the file being imported, NoOffer if none
    verdict  \* "open" until the import has reported its records "full" or "part" written

vars == <<shelves, offer, verdict>>

Init ==
    /\ shelves = [s \in Sources |-> [id \in {} |-> 0]]
    /\ offer = NoOffer /\ verdict = "open"

Begin(o) ==
    /\ offer = NoOffer
    /\ offer' = o
    /\ UNCHANGED <<shelves, verdict>>

Judge(v) ==
    /\ offer # NoOffer /\ verdict = "open"
    /\ verdict' = v
    /\ UNCHANGED <<shelves, offer>>

End == offer # NoOffer /\ offer' = NoOffer /\ verdict' = "open"

Cancel == End /\ UNCHANGED shelves

KeepsGroups(s) ==
    \A id \in DOMAIN shelves[s] \cap DOMAIN shelves'[s] :
        shelves'[s][id].group = shelves[s][id].group

OthersAlone(s) == \A r \in Sources \ {s} : shelves'[r] = shelves[r]

\* All records were written: old entries are gone, the new ones are the file's.
Mirror ==
    /\ verdict = "full" /\ End
    /\ OthersAlone(offer.source) /\ KeepsGroups(offer.source)
    /\ DOMAIN shelves'[offer.source] = DOMAIN offer.contents
    /\ \A id \in DOMAIN offer.contents :
          shelves'[offer.source][id].content = offer.contents[id]

\* Records failed: entries of the file may be old, new, or half written.
Patch ==
    /\ verdict = "part" /\ End
    /\ OthersAlone(offer.source) /\ KeepsGroups(offer.source)
    /\ LET old == DOMAIN shelves[offer.source]
           new == DOMAIN shelves'[offer.source]
       IN  /\ old \subseteq new /\ new \subseteq old \cup DOMAIN offer.contents
           /\ \A id \in old \ DOMAIN offer.contents :
                 shelves'[offer.source][id] = shelves[offer.source][id]

\* An administrator deletes an entry.
Remove(s, id) ==
    /\ OthersAlone(s) /\ KeepsGroups(s)
    /\ DOMAIN shelves'[s] = DOMAIN shelves[s] \ {id}
    /\ \A i \in DOMAIN shelves'[s] : shelves'[s][i] = shelves[s][i]
    /\ UNCHANGED <<offer, verdict>>

Next ==
    \/ \E o \in Offers : Begin(o)
    \/ Judge("full") \/ Judge("part")
    \/ Mirror \/ Patch \/ Cancel
    \/ \E s \in Sources : \E id \in DOMAIN shelves[s] : Remove(s, id)

Spec == Init /\ [][Next]_vars
=============================================================================
