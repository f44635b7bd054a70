----------------------------- MODULE MCLibrary -----------------------------
(* A program uses one thing of the library: a shared value, a row of values, a *)
(* table or a channel.                                                         *)
(*                                                                             *)
(* Shared values: two threads, three handles, counters that refuse to go       *)
(* beyond two.  Rows: a heap of up to five values, some of them equal in       *)
(* order, and the other classes with up to three, in blocks of up to six       *)
(* slots.  Tables: three keys whose searches begin at the last slot of eight,  *)
(* and at two places in other sizes.  Channels: without a buffer, with one     *)
(* slot and with two, each called as a program may.                            *)
EXTENDS Arc, Collections, TypedTable, Channel

CONSTANTS Producer, Consumer

VARIABLE uses

Lengths == [k \in Kinds |-> IF k = "Heap" THEN 5 ELSE 3]
Ranks == [v \in Values |-> v \div 2]
Hashes == [k \in Keys |-> 8 * k - 1]

\* one thread that owns the channel and calls everything (validation/sync/channel.tn)
Alone ==
    [t \in Threads |->
        IF t = Producer
        THEN {"send", "trySend", "receive", "tryReceive", "close", "destroy"}
        ELSE {}]

\* a producer and a consumer that share it
Pair == [t \in Threads |-> IF t = Producer THEN {"send", "trySend"}
                           ELSE {"receive", "tryReceive"}]
Blocking == [t \in Threads |-> IF t = Producer THEN {"send"} ELSE {"receive", "tryReceive"}]

\* the uses in which no copy is too old to matter
SafeUses == [c \in 0 .. 2 |-> CASE c = 0 -> Blocking [] c = 1 -> Pair [] c = 2 -> Alone]

\* what is not used is as it was made
Choose == /\ ArcInit /\ RowInit /\ TableInit /\ Init
          /\ uses \in {"arc", "row", "table", "channel"}
          /\ uses # "arc" => holder = [h \in Handles |-> CHOOSE t \in Sharers : TRUE]
          /\ uses # "row" => (kind = "Array" /\ copied = FALSE /\ capacity = 0)
          /\ uses # "table" => (ordered = FALSE /\ table.capacity = 8)
          /\ uses # "channel" => chan.capacity = 0

UseArc == uses = "arc" /\ ArcNext /\ UNCHANGED <<uses, rvars, tvars, vars>>
UseRow == uses = "row" /\ RowNext /\ UNCHANGED <<uses, avars, tvars, vars>>
UseTable == uses = "table" /\ TableNext /\ UNCHANGED <<uses, avars, rvars, vars>>
UseChannel == uses = "channel" /\ Next /\ UNCHANGED <<uses, avars, rvars, tvars>>

all == <<uses, avars, rvars, tvars, vars>>
Use == Choose /\ [][UseArc \/ UseRow \/ UseTable \/ UseChannel]_all

\* The fairness of the shared value's calls and of the channel's.
FairUse ==
    /\ Use
    /\ \A t \in Sharers : WF_avars(uses = "arc" /\ CallStep(t))
    /\ \A t \in Threads : SF_vars(uses = "channel" /\ Work(t))
=============================================================================
