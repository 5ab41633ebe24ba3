------------------------------- MODULE Queue --------------------------------
(* What a channel of host/threading.c promises: a bounded queue on which   *)
(* every call acts in one step, somewhere between its start and its end.   *)
EXTENDS Naturals, Sequences

CONSTANTS Threads, Data

VARIABLES
  bufsize,        \* 0 as long as there is no channel
  queue, closed,
  call,           \* what each thread is in the middle of
  got             \* who returned last, and with what

queueVars == <<bufsize, queue, closed, call, got>>

Ops == {"send", "recv", "nbsend", "nbrecv", "close"}
NoCall == [op |-> "none", data |-> "none"]
Calls(ops) ==
  [op : ops \cap {"send", "nbsend"}, data : Data]
    \cup [op : ops \ {"send", "nbsend"}, data : {"none"}]

QueueInit ==
  /\ bufsize = 0 /\ queue = <<>> /\ closed = FALSE
  /\ call = [t \in Threads |-> NoCall]
  /\ got = <<"nobody", "nothing">>

Returns(t, result) ==
  /\ call' = [call EXCEPT ![t] = NoCall]
  /\ got' = <<t, result>>
  /\ UNCHANGED bufsize

Create ==
  /\ bufsize = 0 /\ bufsize' \in Nat \ {0}
  /\ UNCHANGED <<queue, closed, call, got>>

Invoke(t, c) ==
  /\ bufsize # 0 /\ call[t] = NoCall
  /\ call' = [call EXCEPT ![t] = c]
  /\ UNCHANGED <<bufsize, queue, closed, got>>

Send(t) ==
  /\ call[t].op \in {"send", "nbsend"} /\ ~closed /\ Len(queue) < bufsize
  /\ queue' = Append(queue, call[t].data)
  /\ Returns(t, "sent") /\ UNCHANGED closed

Receive(t) ==
  /\ call[t].op \in {"recv", "nbrecv"} /\ queue # <<>>
  /\ queue' = Tail(queue)
  /\ Returns(t, Head(queue)) /\ UNCHANGED closed

(* A closed channel takes nothing more and gives what it still has.        *)
Refuse(t) ==
  /\ closed
  /\ \/ call[t].op \in {"send", "nbsend"}
     \/ call[t].op \in {"recv", "nbrecv"} /\ queue = <<>>
  /\ Returns(t, "refused") /\ UNCHANGED <<queue, closed>>

(* Only these two return because they would have to wait.                  *)
GiveUp(t) ==
  /\ ~closed
  /\ \/ call[t].op = "nbsend" /\ Len(queue) = bufsize
     \/ call[t].op = "nbrecv" /\ queue = <<>>
  /\ Returns(t, "would wait") /\ UNCHANGED <<queue, closed>>

Close(t) ==
  /\ call[t].op = "close"
  /\ closed' = TRUE
  /\ Returns(t, "closed") /\ UNCHANGED queue

QueueNext ==
  \/ Create
  \/ \E t \in Threads :
       \/ \E c \in Calls(Ops) : Invoke(t, c)
       \/ Send(t) \/ Receive(t) \/ Refuse(t) \/ GiveUp(t) \/ Close(t)

QueueSpec == QueueInit /\ [][QueueNext]_queueVars
=============================================================================
