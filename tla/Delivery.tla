------------------------------ MODULE Delivery ------------------------------
(***************************************************************************)
(* What the inbound side of a FIX session promises its application, with   *)
(* no word of queues, resends or duplicates: the business messages of the  *)
(* counterparty arrive in the order of their numbers, each once, and none  *)
(* is left out unless the counterparty itself has declared it void.        *)
(* Module Sequencing implements this.                                      *)
(***************************************************************************)
EXTENDS Naturals, Sequences

CONSTANT Kind  \* the kinds of messages there are; "app" is a business message

VARIABLES
    sent,      \* kind of each number the counterparty has used
    void,      \* numbers it has given up
    next,      \* the first number the session has not passed
    handed,    \* numbers of the messages the application got, in order
    over       \* the session has ended

deliveryVars == <<sent, void, next, handed, over>>

\* The Logon is the only message; the session may still have to pass it.
DeliveryInit ==
    /\ sent \in Seq(Kind) /\ sent # <<>>
    /\ void = {}
    /\ next = IF Len(sent) = 1 THEN 2 ELSE 1
    /\ handed = <<>>
    /\ over = FALSE

\* The counterparty uses a number, and may give up numbers it has used.
Use ==
    /\ ~over
    /\ \/ sent' = sent
       \/ Len(sent') = Len(sent) + 1 /\ SubSeq(sent', 1, Len(sent)) = sent
    /\ void \subseteq void' /\ void' \subseteq 1..Len(sent')
    /\ UNCHANGED <<next, handed, over>>

\* The next number is a business message, and the application gets it.
Deliver ==
    /\ ~over
    /\ next <= Len(sent) /\ sent[next] = "app"
    /\ handed' = Append(handed, next)
    /\ next' = next + 1
    /\ UNCHANGED <<sent, void, over>>

\* Numbers are passed that the application is not to have.
Pass ==
    /\ ~over
    /\ next' > next /\ next' <= Len(sent) + 1
    /\ \A n \in next..(next' - 1) : sent[n] # "app" \/ n \in void
    /\ UNCHANGED <<sent, void, handed, over>>

\* The session ends with a Logout.
End ==
    /\ over' = TRUE
    /\ UNCHANGED <<sent, void, next, handed>>

DeliverySpec ==
    DeliveryInit /\ [][Use \/ Deliver \/ Pass \/ End]_deliveryVars
=============================================================================
