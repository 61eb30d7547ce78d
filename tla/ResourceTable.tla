----------------------------- MODULE ResourceTable -----------------------------
(***************************************************************************)
(* What somebody who types a write command of kasapi-cli relies on.  There *)
(* is a table of entries, each with its settings; a command asks for one   *)
(* change of it, and is either carried out as asked, in one step and on    *)
(* nothing else, or leaves the table alone.                                *)
(***************************************************************************)
CONSTANT NoRow \* no entry under a name

VARIABLES rows,   \* rows[id]: the settings of entry id, or NoRow
          asked,  \* [op, ids, settings]: what a command asks for, and of which entry
          state   \* of that request: "open" or "closed"

vars == <<rows, asked, state>>

\* A request is posed, whatever it asks for, or forgotten.
Ask ==
    /\ state = "closed"
    /\ UNCHANGED rows

\* A new entry has the settings asked for; it has one of the names asked for,
\* which are all the names when the server gives it one.
Create ==
    /\ asked.op = "add"
    /\ \E id \in DOMAIN rows \cap asked.ids :
          /\ rows[id] = NoRow
          /\ rows' = [rows EXCEPT ![id] = asked.settings]

\* The settings asked for change, to what was asked, and no other.
Change ==
    /\ asked.op = "update"
    /\ \E id \in DOMAIN rows \cap asked.ids :
          /\ rows[id] # NoRow
          /\ rows' = [rows EXCEPT ![id] =
                        [s \in DOMAIN @ |->
                           IF s \in DOMAIN asked.settings THEN asked.settings[s] ELSE @[s]]]

\* The entry as asked takes the place of whatever was there.
Replace ==
    /\ asked.op = "replace"
    /\ \E id \in DOMAIN rows \cap asked.ids :
          rows' = [rows EXCEPT ![id] = asked.settings]

Remove ==
    /\ asked.op = "delete"
    /\ \E id \in DOMAIN rows \cap asked.ids :
          rows' = [rows EXCEPT ![id] = NoRow]

CarryOut ==
    /\ state = "open"
    /\ Create \/ Change \/ Replace \/ Remove
    /\ state' = "closed"
    /\ UNCHANGED asked

\* Wrong arguments, no consent, a dry run or a fault end it before.
Drop ==
    /\ state = "open"
    /\ state' = "closed"
    /\ UNCHANGED <<rows, asked>>

Init == state = "closed"
Next == Ask \/ CarryOut \/ Drop
Spec == Init /\ [][Next]_vars
===============================================================================
