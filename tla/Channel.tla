------------------------------ MODULE Channel -------------------------------
(* A channel of host/threading.c: a ring buffer under a lock, and two      *)
(* rendezvous for those who wait.                                          *)
(*                                                                         *)
(* What a thread does with the lock held is one step, for it touches       *)
(* nothing that is used without the lock.  Getting the lock takes up to    *)
(* three: the look at lk->init, the initialisation, the mutex.             *)
EXTENDS Naturals, Sequences

CONSTANTS Threads, Data, Nobody

ASSUME NobodyAssumption == Nobody \notin Threads

VARIABLES
  bufsize, buf, off, nbuf, closed,
  call, got,
  pc,             \* "out", "lockinit", "want", "in" or "asleep"
  owner,          \* who has the mutex
  lock_init,      \* c->lock.init
  rend_init       \* those of c->full and c->empty that are initialised

ring == <<bufsize, buf, off, nbuf>>
channelVars == <<ring, closed, call, got, pc, owner, lock_init, rend_init>>

Promise == INSTANCE Queue WITH queue <- [i \in 1 .. nbuf |-> buf[(off + i - 1) % bufsize]]

ChannelTypeOK ==
  /\ bufsize \in Nat /\ DOMAIN buf = 0 .. bufsize - 1
  /\ bufsize # 0 => off \in 0 .. bufsize - 1
  /\ nbuf \in 0 .. bufsize
  /\ \A t \in Threads :
       /\ call[t] \in Promise!Calls(Promise!Ops) \cup {Promise!NoCall}
       /\ pc[t] \in {"out", "lockinit", "want", "in", "asleep"}
       /\ pc[t] = "in" => owner = t
       /\ pc[t] = "asleep" => call[t].op \in {"send", "recv"}

ChannelInit ==
  /\ bufsize = 0 /\ buf = <<>> /\ off = 0 /\ nbuf = 0 /\ closed = FALSE
  /\ call = [t \in Threads |-> Promise!NoCall] /\ got = <<"nobody", "nothing">>
  /\ pc = [t \in Threads |-> "out"] /\ owner = Nobody
  /\ lock_init = FALSE /\ rend_init = {}

chancreate(n) ==
  /\ bufsize = 0 /\ bufsize' = n
  /\ buf' = [i \in 0 .. n - 1 |-> "junk"]
  /\ UNCHANGED <<off, nbuf, closed, call, got, pc, owner, lock_init, rend_init>>

-----------------------------------------------------------------------------
(* Locks.                                                                  *)

Call(t, c) ==
  /\ bufsize # 0 /\ pc[t] = "out"
  /\ call' = [call EXCEPT ![t] = c]
  /\ pc' = [pc EXCEPT ![t] = IF lock_init THEN "want" ELSE "lockinit"]
  /\ UNCHANGED <<ring, closed, got, owner, lock_init, rend_init>>

(* Fault: the second look at lk->init is left out.                         *)
lockinit_unchecked(t) ==
  /\ pc[t] = "lockinit"
  /\ lock_init' = TRUE /\ owner' = Nobody
  /\ pc' = [pc EXCEPT ![t] = "want"]
  /\ UNCHANGED <<ring, closed, call, got, rend_init>>

lockinit(t) ==
  /\ pc[t] = "lockinit"
  /\ lock_init' = TRUE
  /\ owner' = IF lock_init THEN owner ELSE Nobody
  /\ pc' = [pc EXCEPT ![t] = "want"]
  /\ UNCHANGED <<ring, closed, call, got, rend_init>>

lock(t) ==
  /\ pc[t] = "want" /\ owner = Nobody
  /\ owner' = t
  /\ pc' = [pc EXCEPT ![t] = "in"]
  /\ UNCHANGED <<ring, closed, call, got, lock_init, rend_init>>

-----------------------------------------------------------------------------
(* Rendezvous: those who wait to send are on full, to receive on empty.    *)

Rendez(t) == IF call[t].op = "send" THEN "full" ELSE "empty"
Sleepers(r) == {t \in Threads : pc[t] = "asleep" /\ Rendez(t) = r}

rsleep(t) ==
  /\ rend_init' = rend_init \cup {Rendez(t)}
  /\ owner' = Nobody
  /\ pc' = [pc EXCEPT ![t] = "asleep"]
  /\ UNCHANGED <<ring, closed, call, got, lock_init>>

(* pthread_cond_wait() may return by itself.                               *)
WakesByItself(t) ==
  /\ pc[t] = "asleep"
  /\ pc' = [pc EXCEPT ![t] = "want"]
  /\ UNCHANGED <<ring, closed, call, got, owner, lock_init, rend_init>>

(* The sets of threads a call may wake.                                    *)
rwakeup(r) ==
  IF r \notin rend_init \/ Sleepers(r) = {} THEN {{}} ELSE {{t} : t \in Sleepers(r)}
(* Fault: one of those who wait is woken.                                  *)
rwakeupone(rs) == UNION {rwakeup(r) : r \in rs}
rwakeupall(rs) == {UNION {Sleepers(r) : r \in rs \cap rend_init}}

(* The end of a call: some are woken, the lock is given back.              *)
Return(t, result, wakes) ==
  /\ \E woken \in wakes :
       pc' = [u \in Threads |->
                CASE u = t -> "out" [] u \in woken -> "want" [] OTHER -> pc[u]]
  /\ owner' = Nobody
  /\ call' = [call EXCEPT ![t] = Promise!NoCall] /\ got' = <<t, result>>
  /\ UNCHANGED <<lock_init, rend_init>>

-----------------------------------------------------------------------------
(* What the calls do with the lock held.                                   *)

cansend == nbuf < bufsize
canrecv == nbuf > 0

(* Fault: the place is computed without the offset's turn.                 *)
chansend_from_zero(t) ==
  /\ buf' = [buf EXCEPT ![nbuf] = call[t].data]
  /\ nbuf' = nbuf + 1 /\ UNCHANGED <<bufsize, off>>
chansend_(t) ==
  /\ buf' = [buf EXCEPT ![(off + nbuf) % bufsize] = call[t].data]
  /\ nbuf' = nbuf + 1 /\ UNCHANGED <<bufsize, off>>
chanrecv_ ==
  /\ nbuf' = nbuf - 1
  /\ off' = IF off + 1 = bufsize THEN 0 ELSE off + 1
  /\ UNCHANGED <<bufsize, buf>>

Sends(t) == chansend_(t) /\ Return(t, "sent", rwakeup("empty")) /\ UNCHANGED closed
Receives(t) == chanrecv_ /\ Return(t, buf[off], rwakeup("full")) /\ UNCHANGED closed
Fails(t, result) == Return(t, result, {{}}) /\ UNCHANGED <<ring, closed>>

In(t, op) == pc[t] = "in" /\ call[t].op = op

chansend(t) ==
  /\ In(t, "send")
  /\ IF closed THEN Fails(t, "refused") ELSE IF cansend THEN Sends(t) ELSE rsleep(t)

chanrecv(t) ==
  /\ In(t, "recv")
  /\ IF canrecv THEN Receives(t) ELSE IF closed THEN Fails(t, "refused") ELSE rsleep(t)

channbsend(t) ==
  /\ In(t, "nbsend")
  /\ IF closed THEN Fails(t, "refused") ELSE IF cansend THEN Sends(t) ELSE Fails(t, "would wait")

channbrecv(t) ==
  /\ In(t, "nbrecv")
  /\ IF canrecv THEN Receives(t) ELSE IF closed THEN Fails(t, "refused") ELSE Fails(t, "would wait")

chanclose(t) ==
  /\ In(t, "close")
  /\ closed' = TRUE
  /\ Return(t, "closed", rwakeupall({"full", "empty"}))
  /\ UNCHANGED ring

Body(t) == chansend(t) \/ chanrecv(t) \/ channbsend(t) \/ channbrecv(t) \/ chanclose(t)

AnyCall == \E t \in Threads : pc[t] = "out" /\ pc'[t] # "out"
Working(t) == lockinit(t) \/ lock(t) \/ Body(t) \/ WakesByItself(t)

-----------------------------------------------------------------------------

(* A channel is a queue: whatever the threads do at once, each call takes  *)
(* effect in one step between its start and its end, and what it returns   *)
(* is what that step says.                                                 *)
FifoQueue == Promise!QueueSpec

(* Once nobody calls any more, every call returns for which there is still *)
(* room, something to receive or a closed channel: no wakeup is lost.      *)
NoLostWakeup ==
  <>[][~AnyCall]_channelVars =>
     <>[](\A t \in Threads :
            pc[t] # "out" => ~closed /\ IF call[t].op = "send" THEN ~cansend ELSE ~canrecv)
=============================================================================
