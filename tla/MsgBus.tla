-------------------------------- MODULE MsgBus --------------------------------
(***************************************************************************)
(* What the message pump promises its clients: a bounded FIFO of accepted  *)
(* messages.  The oldest one is shown, unchanged since it was posted, to   *)
(* one receiver at a time, in the order of their seats, and retired only   *)
(* when everybody was called who had a seat when the showing began and has *)
(* kept it.  No message is lost, duplicated, reordered or altered while it *)
(* waits.                                                                  *)
(***************************************************************************)
EXTENDS Naturals, Sequences

CONSTANTS MsgIds,     \* message identifiers
          Values,     \* message contents, Null for a message without data
          Callbacks,  \* receivers
          Seats,      \* numbers of the places for receivers of one id
          Capacity,   \* MSG_PUMP_MSG_QUEUE_MAX_SIZE
          Null

VARIABLES pending,    \* accepted messages, oldest first
          seats,      \* who receives which message
          shown,      \* the oldest message is being shown
          due,        \* seats it has yet to be shown to
          handler     \* the callback that is running, or Null

vars == <<pending, seats, shown, due, handler>>

Message == [id : MsgIds, val : Values \cup {Null}]

TypeOK == /\ pending \in Seq(Message)
          /\ Len(pending) <= Capacity
          /\ seats \in [MsgIds -> [Seats -> Callbacks \cup {Null}]]
          /\ shown \in BOOLEAN
          /\ due \subseteq Seats
          /\ handler \in Callbacks \cup {Null}

Init == /\ pending = <<>>
        /\ seats = [m \in MsgIds |-> [i \in Seats |-> Null]]
        /\ shown = FALSE /\ due = {}
        /\ handler = Null

Taken(m) == {i \in Seats : seats[m][i] # Null}

Accept(msg) == /\ Len(pending) < Capacity
               /\ pending' = Append(pending, msg)
               /\ UNCHANGED <<seats, shown, due, handler>>

(* Who sits down while the message is shown may see it or be too late.       *)
Register(m, i, c) == /\ seats[m][i] = Null
                     /\ seats' = [seats EXCEPT ![m] = [@ EXCEPT ![i] = c]]
                     /\ \/ due' = due
                        \/ shown /\ Head(pending).id = m /\ due' = due \cup {i}
                     /\ UNCHANGED <<pending, shown, handler>>

Unregister(m, i) == /\ seats' = [seats EXCEPT ![m] = [@ EXCEPT ![i] = Null]]
                    /\ due' = IF shown /\ Head(pending).id = m THEN due \ {i} ELSE due
                    /\ UNCHANGED <<pending, shown, handler>>

Show == /\ pending # <<>>
        /\ ~shown
        /\ shown' = TRUE
        /\ due' = Taken(Head(pending).id)
        /\ UNCHANGED <<pending, seats, handler>>

Call(i) == /\ i \in due
           /\ \A j \in due : i <= j
           /\ handler = Null
           /\ handler' = seats[Head(pending).id][i]
           /\ due' = due \ {i}
           /\ UNCHANGED <<pending, seats, shown>>

Return == /\ handler # Null
          /\ handler' = Null
          /\ UNCHANGED <<pending, seats, shown, due>>

Retire == /\ shown
          /\ due = {}
          /\ handler = Null
          /\ pending' = Tail(pending)
          /\ shown' = FALSE
          /\ UNCHANGED <<seats, due, handler>>

Next == \/ \E msg \in Message : Accept(msg)
        \/ \E m \in MsgIds, i \in Seats :
             Unregister(m, i) \/ \E c \in Callbacks : Register(m, i, c)
        \/ Show
        \/ \E i \in Seats : Call(i)
        \/ Return
        \/ Retire

Spec == Init /\ [][Next]_vars
===============================================================================
