-------------------------- MODULE HostThreadsProofs --------------------------
(* Proofs about HostThreads: the channels, the screen and the controllers, *)
(* for every number of threads, pixels and controllers, every halo and     *)
(* every set of uses.                                                      *)
EXTENDS HostThreads, SequenceTheorems, WellFoundedInduction, TLAPS

(***************************************************************************)
(* Channels                                                                *)
(***************************************************************************)

Places == {"out", "lockinit", "want", "in", "asleep"}
Words == Data \cup {"junk"}

(* One thread has the mutex, and nobody has it or waits for it before the  *)
(* lock is initialised.  Whoever is out is in the middle of nothing.       *)
ChannelInv ==
  /\ ChannelTypeOK
  /\ buf \in [0 .. bufsize - 1 -> Words]
  /\ bufsize = 0 => off = 0
  /\ call \in [Threads -> Promise!Calls(Promise!Ops) \cup {Promise!NoCall}]
  /\ pc \in [Threads -> Places]
  /\ \A t \in Threads : pc[t] = "in" <=> owner = t
  /\ \A t \in Threads : pc[t] = "out" => call[t] = Promise!NoCall
  /\ \A t \in Threads : pc[t] = "asleep" => call[t].op \in {"send", "recv"}
  /\ ~lock_init => \A t \in Threads : pc[t] \in {"out", "lockinit"}

(* The ring, read from its offset on.                                      *)
Contents == [i \in 1 .. nbuf |-> buf[(off + i - 1) % bufsize]]

-----------------------------------------------------------------------------
(* The ring.                                                               *)

(* A place in the ring, at most one turn on.                               *)
LEMMA Turn ==
  ASSUME NEW b \in Nat \ {0}, NEW o \in 0 .. b - 1, NEW n \in 0 .. b
  PROVE  (o + n) % b = IF o + n < b THEN o + n ELSE o + n - b
  BY SMTT(30)

LEMMA PlaceInRing ==
  ASSUME ChannelInv, bufsize # 0, NEW i \in 1 .. nbuf
  PROVE  /\ (off + i - 1) % bufsize \in 0 .. bufsize - 1
         /\ (off + i - 1) % bufsize = IF off + i - 1 < bufsize THEN off + i - 1 ELSE off + i - 1 - bufsize
  <1>1. /\ bufsize \in Nat \ {0} /\ off \in 0 .. bufsize - 1 /\ nbuf \in 0 .. bufsize
        /\ i - 1 \in 0 .. bufsize /\ off + i - 1 = off + (i - 1)
    BY DEF ChannelInv, ChannelTypeOK
  <1>2. (off + (i - 1)) % bufsize = IF off + (i - 1) < bufsize THEN off + (i - 1) ELSE off + (i - 1) - bufsize
    BY <1>1, Turn
  <1> QED
    BY <1>1, <1>2

LEMMA ContentsType ==
  ASSUME ChannelInv
  PROVE  Contents \in Seq(Words) /\ Len(Contents) = nbuf
  <1>1. nbuf \in Nat /\ (bufsize = 0 => nbuf = 0)
    BY DEF ChannelInv, ChannelTypeOK
  <1>2. \A i \in 1 .. nbuf : buf[(off + i - 1) % bufsize] \in Words
    BY <1>1, PlaceInRing DEF ChannelInv
  <1> QED
    BY <1>1, <1>2 DEF Contents

LEMMA Sending ==
  ASSUME ChannelInv, bufsize # 0, cansend, NEW t \in Threads, call[t].data \in Words, chansend_(t)
  PROVE  /\ Contents' = Append(Contents, call[t].data)
         /\ buf' \in [0 .. bufsize - 1 -> Words]
  <1> DEFINE d == call[t].data
             last == (off + nbuf) % bufsize
  <1>1. /\ bufsize \in Nat \ {0} /\ off \in 0 .. bufsize - 1 /\ nbuf \in 0 .. bufsize
        /\ nbuf < bufsize
        /\ buf \in [0 .. bufsize - 1 -> Words]
        /\ buf' = [buf EXCEPT ![last] = d] /\ nbuf' = nbuf + 1
        /\ bufsize' = bufsize /\ off' = off
    BY DEF ChannelInv, ChannelTypeOK, cansend, chansend_
  <1>2. last = IF off + nbuf < bufsize THEN off + nbuf ELSE off + nbuf - bufsize
    BY <1>1, Turn
  <1> HIDE DEF last, d
  <1>3. last \in 0 .. bufsize - 1
    BY <1>1, <1>2
  <1>4. \A i \in 1 .. nbuf : (off + i - 1) % bufsize # last
    <2> SUFFICES ASSUME NEW i \in 1 .. nbuf
                 PROVE  (off + i - 1) % bufsize # last
      OBVIOUS
    <2> DEFINE p == (off + i - 1) % bufsize
    <2>1. p = IF off + i - 1 < bufsize THEN off + i - 1 ELSE off + i - 1 - bufsize
      BY <1>1, PlaceInRing
    <2> HIDE DEF p
    <2>2. p # last
      BY <1>1, <1>2, <2>1
    <2> QED
      BY <2>2 DEF p
  <1>5. \A i \in 1 .. nbuf : Contents'[i] = Contents[i]
    <2>1. \A i \in 1 .. nbuf : (off + i - 1) % bufsize \in 0 .. bufsize - 1
      BY <1>1, PlaceInRing
    <2>2. ASSUME NEW i \in 1 .. nbuf
          PROVE  buf'[(off + i - 1) % bufsize] = buf[(off + i - 1) % bufsize]
      BY <1>1, <1>4, <2>1
    <2>3. \A i \in 1 .. nbuf : i \in 1 .. nbuf'
      BY <1>1
    <2> QED
      BY <1>1, <2>2, <2>3 DEF Contents
  <1>6. Contents'[nbuf + 1] = d
    <2>1. nbuf + 1 \in 1 .. nbuf' /\ off + (nbuf + 1) - 1 = off + nbuf
      BY <1>1
    <2>2. Contents'[nbuf + 1] = buf'[last]
      BY <1>1, <2>1 DEF Contents, last
    <2> QED
      BY <1>1, <1>3, <2>2
  <1>7. Contents' = [i \in 1 .. nbuf + 1 |-> Contents'[i]]
    BY <1>1 DEF Contents
  <1>8. Append(Contents, d) = [i \in 1 .. nbuf + 1 |-> IF i = nbuf + 1 THEN d ELSE Contents[i]]
    <2>1. Contents \in Seq(Words) /\ Len(Contents) = nbuf /\ d \in Words
      BY ContentsType DEF d
    <2> QED
      BY <1>1, <2>1
  <1>9. Contents' = Append(Contents, d)
    <2>1. \A i \in 1 .. nbuf + 1 : Contents'[i] = IF i = nbuf + 1 THEN d ELSE Contents[i]
      <3>1. \A i \in 1 .. nbuf + 1 : i = nbuf + 1 \/ i \in 1 .. nbuf
        BY <1>1
      <3>2. nbuf + 1 \notin 1 .. nbuf
        BY <1>1
      <3> QED
        BY <1>5, <1>6, <3>1, <3>2
    <2> QED
      BY <1>7, <1>8, <2>1
  <1>10. buf' \in [0 .. bufsize - 1 -> Words]
    BY <1>1 DEF d
  <1> QED
    BY <1>9, <1>10 DEF d

LEMMA Receiving ==
  ASSUME ChannelInv, bufsize # 0, canrecv, chanrecv_
  PROVE  /\ Contents # <<>> /\ buf[off] = Head(Contents) /\ Contents' = Tail(Contents)
         /\ off' \in 0 .. bufsize - 1
  <1>1. /\ bufsize \in Nat \ {0} /\ off \in 0 .. bufsize - 1 /\ nbuf \in 1 .. bufsize
        /\ nbuf' = nbuf - 1 /\ buf' = buf /\ bufsize' = bufsize
        /\ off' = IF off + 1 = bufsize THEN 0 ELSE off + 1
    BY DEF ChannelInv, ChannelTypeOK, canrecv, chanrecv_
  <1>2. Contents \in Seq(Words) /\ Len(Contents) = nbuf
    BY ContentsType
  <1>3. Contents[1] = buf[off]
    <2>1. 1 \in 1 .. nbuf /\ off + 1 - 1 < bufsize /\ off + 1 - 1 = off
      BY <1>1
    <2>2. (off + 1 - 1) % bufsize = off
      BY <1>1, <2>1, PlaceInRing
    <2> QED
      BY <2>1, <2>2 DEF Contents
  <1>4. off' \in 0 .. bufsize - 1
    BY <1>1
  <1>5. \A i \in 1 .. nbuf - 1 : Contents'[i] = Contents[i + 1]
    <2> SUFFICES ASSUME NEW i \in 1 .. nbuf - 1
                 PROVE  Contents'[i] = Contents[i + 1]
      OBVIOUS
    <2>1. i + 1 \in 1 .. nbuf /\ i - 1 \in 0 .. bufsize /\ i \in 1 .. nbuf'
          /\ off' + i - 1 = off' + (i - 1)
      BY <1>1, <1>4
    <2> DEFINE p == (off + (i + 1) - 1) % bufsize
               q == (off' + (i - 1)) % bufsize
    <2>2. p = IF off + (i + 1) - 1 < bufsize THEN off + (i + 1) - 1 ELSE off + (i + 1) - 1 - bufsize
      BY <1>1, <2>1, PlaceInRing
    <2>3. q = IF off' + (i - 1) < bufsize THEN off' + (i - 1) ELSE off' + (i - 1) - bufsize
      BY <1>1, <1>4, <2>1, Turn
    <2> HIDE DEF p, q
    <2>4. p = q
      BY <1>1, <1>4, <2>2, <2>3
    <2>5. Contents[i + 1] = buf[p] /\ Contents'[i] = buf[q]
      BY <1>1, <2>1 DEF Contents, p, q
    <2> QED
      BY <2>4, <2>5
  <1>6. Contents # <<>> /\ Head(Contents) = Contents[1]
    BY <1>1, <1>2
  <1>7. /\ Tail(Contents) \in Seq(Words) /\ Len(Tail(Contents)) = nbuf - 1
        /\ \A i \in 1 .. nbuf - 1 : Tail(Contents)[i] = Contents[i + 1]
    BY <1>1, <1>2, <1>6
  <1>8. Contents' \in Seq(Words) /\ Len(Contents') = nbuf - 1
    <2>1. \A i \in 1 .. nbuf - 1 : Contents'[i] \in Words
      BY <1>1, <1>2, <1>5, <1>6, <1>7, ElementOfSeq
    <2> QED
      BY <1>1, <2>1 DEF Contents
  <1>9. Contents' = Tail(Contents)
    BY <1>5, <1>7, <1>8, SeqEqual
  <1> QED
    BY <1>3, <1>4, <1>6, <1>9

-----------------------------------------------------------------------------
(* The invariant.                                                          *)

LEMMA InitChannel == ChannelInit => ChannelInv
  <1> SUFFICES ASSUME ChannelInit
               PROVE  ChannelInv
    OBVIOUS
  <1>1. 0 .. bufsize - 1 = {} /\ DOMAIN buf = {} /\ buf \in [0 .. bufsize - 1 -> Words]
    <2>1. 0 .. 0 - 1 = {} /\ bufsize = 0 /\ buf = <<>>
      BY DEF ChannelInit
    <2>2. DOMAIN buf = {} /\ buf = [i \in {} |-> 0]
      BY <2>1
    <2> QED
      BY <2>1, <2>2
  <1>2. ChannelTypeOK
    BY <1>1 DEF ChannelInit, ChannelTypeOK
  <1> QED
    BY <1>1, <1>2, NobodyAssumption DEF ChannelInit, ChannelInv, Places

(* The end of a call gives the lock back, and those it wakes wait for it.  *)
LEMMA ReturnKeepsPlaces ==
  ASSUME ChannelInv, NEW t \in Threads, pc[t] = "in", NEW result, NEW wakes,
         Return(t, result, wakes),
         \A woken \in wakes : \A u \in woken : u \in Threads /\ pc[u] = "asleep"
  PROVE  /\ call' \in [Threads -> Promise!Calls(Promise!Ops) \cup {Promise!NoCall}]
         /\ pc' \in [Threads -> Places]
         /\ \A u \in Threads :
              /\ pc'[u] = "in" <=> owner' = u
              /\ pc'[u] = "out" => call'[u] = Promise!NoCall
              /\ pc'[u] = "asleep" => call'[u].op \in {"send", "recv"}
         /\ lock_init /\ lock_init' = lock_init
  <1>1. PICK woken \in wakes :
          pc' = [u \in Threads |-> CASE u = t -> "out" [] u \in woken -> "want" [] OTHER -> pc[u]]
    BY DEF Return
  <1>2. /\ owner' = Nobody /\ call' = [call EXCEPT ![t] = Promise!NoCall]
        /\ lock_init' = lock_init
    BY DEF Return
  <1>3. \A u \in woken : pc[u] = "asleep"
    OBVIOUS
  <1>4. pc'[t] = "out" /\ call'[t] = Promise!NoCall
    BY <1>1, <1>2 DEF ChannelInv
  <1>5. \A u \in Threads \ {t} :
          pc'[u] = (IF u \in woken THEN "want" ELSE pc[u]) /\ call'[u] = call[u]
    BY <1>1, <1>2 DEF ChannelInv
  <1>6. owner = t /\ \A u \in Threads \ {t} : pc[u] # "in"
    BY DEF ChannelInv
  <1>7. pc' \in [Threads -> Places]
    <2>1. \A u \in Threads : pc'[u] \in Places
      BY <1>4, <1>5 DEF ChannelInv, Places
    <2> QED
      BY <1>1, <2>1
  <1>8. call' \in [Threads -> Promise!Calls(Promise!Ops) \cup {Promise!NoCall}]
    BY <1>2 DEF ChannelInv
  <1>9. \A u \in Threads : pc'[u] # "in" /\ owner' # u
    BY <1>2, <1>4, <1>5, <1>6, NobodyAssumption
  <1>10. \A u \in Threads : pc'[u] = "out" => call'[u] = Promise!NoCall
    BY <1>4, <1>5 DEF ChannelInv
  <1>11. \A u \in Threads : pc'[u] = "asleep" => call'[u].op \in {"send", "recv"}
    BY <1>4, <1>5 DEF ChannelInv
  <1>12. lock_init
    BY DEF ChannelInv
  <1> QED
    BY <1>2, <1>7, <1>8, <1>9, <1>10, <1>11, <1>12

(* Whom a call wakes is asleep.                                            *)
LEMMA WokenSleep ==
  /\ \A r : \A woken \in rwakeup(r) : \A u \in woken : u \in Threads /\ pc[u] = "asleep"
  /\ \A rs : \A woken \in rwakeupall(rs) : \A u \in woken : u \in Threads /\ pc[u] = "asleep"
  /\ \A woken \in {{}} : \A u \in woken : u \in Threads /\ pc[u] = "asleep"
  BY DEF rwakeup, rwakeupall, Sleepers

(* A call that has the lock is one of the five, with what it sends.        *)
LEMMA CallShape ==
  ASSUME ChannelInv, NEW t \in Threads
  PROVE  /\ call[t].op \in {"send", "nbsend"} => call[t].data \in Data
         /\ pc[t] = "in" => owner = t /\ lock_init
         /\ pc[t] \in {"in", "want", "lockinit", "asleep"} \/ call[t].op = "none"
  BY DEF ChannelInv, Places, Promise!Calls, Promise!Ops, Promise!NoCall

(* What has room or something to receive is a channel.                     *)
LEMMA RunsInChannel ==
  ASSUME ChannelInv, cansend \/ canrecv
  PROVE  bufsize # 0
  BY DEF ChannelInv, ChannelTypeOK, cansend, canrecv

(* What a call leaves behind, given what it does to the ring.              *)
LEMMA ReturnKeepsChannel ==
  ASSUME ChannelInv, NEW t \in Threads, pc[t] = "in", NEW result, NEW wakes,
         Return(t, result, wakes),
         \A woken \in wakes : \A u \in woken : u \in Threads /\ pc[u] = "asleep",
         bufsize' = bufsize, buf' \in [0 .. bufsize - 1 -> Words],
         IF bufsize = 0 THEN off' = 0 ELSE off' \in 0 .. bufsize - 1,
         nbuf' \in 0 .. bufsize
  PROVE  ChannelInv'
  <1>1. /\ call' \in [Threads -> Promise!Calls(Promise!Ops) \cup {Promise!NoCall}]
        /\ pc' \in [Threads -> Places]
        /\ \A u \in Threads :
             /\ pc'[u] = "in" <=> owner' = u
             /\ pc'[u] = "out" => call'[u] = Promise!NoCall
             /\ pc'[u] = "asleep" => call'[u].op \in {"send", "recv"}
        /\ lock_init /\ lock_init' = lock_init
    BY ReturnKeepsPlaces
  <1>2. bufsize \in Nat
    BY DEF ChannelInv, ChannelTypeOK
  <1>3. ChannelTypeOK'
    BY <1>1, <1>2 DEF ChannelTypeOK, Places
  <1> QED
    BY <1>1, <1>2, <1>3 DEF ChannelInv

LEMMA SendsKeepsChannel ==
  ASSUME ChannelInv, NEW t \in Threads, pc[t] = "in", call[t].op \in {"send", "nbsend"},
         cansend, Sends(t)
  PROVE  ChannelInv'
  <1>1. bufsize # 0 /\ call[t].data \in Words
    BY RunsInChannel, CallShape DEF Words
  <1>2. buf' \in [0 .. bufsize - 1 -> Words]
    BY <1>1, Sending DEF Sends
  <1>3. /\ bufsize' = bufsize /\ off' \in 0 .. bufsize - 1 /\ nbuf' \in 0 .. bufsize
        /\ Return(t, "sent", rwakeup("empty"))
    BY <1>1 DEF Sends, chansend_, cansend, ChannelInv, ChannelTypeOK
  <1> QED
    BY <1>1, <1>2, <1>3, WokenSleep, ReturnKeepsChannel

LEMMA ReceivesKeepsChannel ==
  ASSUME ChannelInv, NEW t \in Threads, pc[t] = "in", canrecv, Receives(t)
  PROVE  ChannelInv'
  <1>1. bufsize # 0
    BY RunsInChannel
  <1>2. off' \in 0 .. bufsize - 1
    BY <1>1, Receiving DEF Receives
  <1>3. /\ bufsize' = bufsize /\ buf' \in [0 .. bufsize - 1 -> Words] /\ nbuf' \in 0 .. bufsize
        /\ Return(t, buf[off], rwakeup("full"))
    BY <1>1 DEF Receives, chanrecv_, canrecv, ChannelInv, ChannelTypeOK
  <1> QED
    BY <1>1, <1>2, <1>3, WokenSleep, ReturnKeepsChannel

LEMMA FailsKeepsChannel ==
  ASSUME ChannelInv, NEW t \in Threads, pc[t] = "in", NEW result, Fails(t, result)
  PROVE  ChannelInv'
  <1>1. /\ Return(t, result, {{}}) /\ UNCHANGED ring
        /\ buf' \in [0 .. bufsize - 1 -> Words] /\ nbuf' \in 0 .. bufsize
        /\ IF bufsize = 0 THEN off' = 0 ELSE off' \in 0 .. bufsize - 1
    BY DEF Fails, ring, ChannelInv, ChannelTypeOK
  <1> QED
    BY <1>1, WokenSleep, ReturnKeepsChannel DEF ring

LEMMA CloseKeepsChannel ==
  ASSUME ChannelInv, NEW t \in Threads, chanclose(t)
  PROVE  ChannelInv'
  <1>1. /\ Return(t, "closed", rwakeupall({"full", "empty"})) /\ UNCHANGED ring
        /\ buf' \in [0 .. bufsize - 1 -> Words] /\ nbuf' \in 0 .. bufsize
        /\ IF bufsize = 0 THEN off' = 0 ELSE off' \in 0 .. bufsize - 1
    BY DEF chanclose, ring, ChannelInv, ChannelTypeOK
  <1> QED
    BY <1>1, WokenSleep, ReturnKeepsChannel DEF ring, chanclose, In

(* A thread moves, nothing else does.                                      *)
LEMMA RsleepKeepsChannel ==
  ASSUME ChannelInv, NEW t \in Threads, pc[t] = "in", call[t].op \in {"send", "recv"}, rsleep(t)
  PROVE  ChannelInv'
  <1>1. /\ pc' = [pc EXCEPT ![t] = "asleep"] /\ owner' = Nobody
        /\ UNCHANGED <<bufsize, buf, off, nbuf, call, lock_init>>
    BY DEF rsleep, ring
  <1>2. /\ pc'[t] = "asleep" /\ pc' \in [Threads -> Places] /\ owner = t
        /\ \A u \in Threads \ {t} : pc'[u] = pc[u] /\ pc[u] # "in"
    BY <1>1 DEF ChannelInv, Places
  <1>3. \A u \in Threads : pc'[u] # "in" /\ owner' # u
    BY <1>1, <1>2, NobodyAssumption
  <1>4. ChannelTypeOK'
    BY <1>1, <1>2, <1>3 DEF ChannelInv, ChannelTypeOK, Places
  <1> QED
    BY <1>1, <1>2, <1>3, <1>4 DEF ChannelInv

LEMMA WakesKeepsChannel ==
  ASSUME ChannelInv, NEW t \in Threads, WakesByItself(t)
  PROVE  ChannelInv'
  <1>1. /\ pc' = [pc EXCEPT ![t] = "want"] /\ pc[t] = "asleep"
        /\ UNCHANGED <<bufsize, buf, off, nbuf, call, lock_init, owner>>
    BY DEF WakesByItself, ring
  <1>2. /\ pc'[t] = "want" /\ pc' \in [Threads -> Places] /\ lock_init
        /\ \A u \in Threads \ {t} : pc'[u] = pc[u]
    BY <1>1 DEF ChannelInv, Places
  <1>3. ChannelTypeOK'
    BY <1>1, <1>2 DEF ChannelInv, ChannelTypeOK, Places
  <1> QED
    BY <1>1, <1>2, <1>3 DEF ChannelInv

LEMMA LockKeepsChannel ==
  ASSUME ChannelInv, NEW t \in Threads, lock(t) \/ lockinit(t)
  PROVE  ChannelInv'
  <1>1. UNCHANGED <<bufsize, buf, off, nbuf, call>>
    BY DEF lock, lockinit, ring
  <1>2. CASE lock(t)
    <2>1. /\ pc' = [pc EXCEPT ![t] = "in"] /\ pc[t] = "want" /\ owner = Nobody /\ owner' = t
          /\ lock_init' = lock_init
      BY <1>2 DEF lock
    <2>2. /\ pc'[t] = "in" /\ pc' \in [Threads -> Places] /\ lock_init
          /\ \A u \in Threads \ {t} : pc'[u] = pc[u] /\ pc[u] # "in"
      BY <2>1, NobodyAssumption DEF ChannelInv, Places
    <2>3. ChannelTypeOK'
      BY <1>1, <2>1, <2>2 DEF ChannelInv, ChannelTypeOK, Places
    <2> QED
      BY <1>1, <2>1, <2>2, <2>3 DEF ChannelInv
  <1>3. CASE lockinit(t)
    <2>1. /\ pc' = [pc EXCEPT ![t] = "want"] /\ pc[t] = "lockinit" /\ lock_init'
          /\ owner' = IF lock_init THEN owner ELSE Nobody
      BY <1>3 DEF lockinit
    <2>2. /\ pc'[t] = "want" /\ pc' \in [Threads -> Places]
          /\ \A u \in Threads \ {t} : pc'[u] = pc[u]
      BY <2>1 DEF ChannelInv, Places
    <2>3. \A u \in Threads : pc'[u] = "in" <=> owner' = u
      BY <2>1, <2>2, NobodyAssumption DEF ChannelInv
    <2>4. ChannelTypeOK'
      BY <1>1, <2>1, <2>2, <2>3 DEF ChannelInv, ChannelTypeOK, Places
    <2> QED
      BY <1>1, <2>1, <2>2, <2>3, <2>4 DEF ChannelInv
  <1> QED
    BY <1>2, <1>3

LEMMA CallKeepsChannel ==
  ASSUME ChannelInv, NEW t \in Threads, NEW c \in Promise!Calls(Promise!Ops), Call(t, c)
  PROVE  ChannelInv'
  <1> DEFINE next == IF lock_init THEN "want" ELSE "lockinit"
  <1>1. /\ pc' = [pc EXCEPT ![t] = next] /\ pc[t] = "out" /\ call' = [call EXCEPT ![t] = c]
        /\ UNCHANGED <<bufsize, buf, off, nbuf, lock_init, owner>>
    BY DEF Call, ring
  <1>2. /\ pc'[t] = next /\ pc' \in [Threads -> Places]
        /\ \A u \in Threads \ {t} : pc'[u] = pc[u] /\ call'[u] = call[u]
        /\ call' \in [Threads -> Promise!Calls(Promise!Ops) \cup {Promise!NoCall}]
    BY <1>1 DEF ChannelInv, Places
  <1>3. ChannelTypeOK'
    BY <1>1, <1>2 DEF ChannelInv, ChannelTypeOK, Places
  <1> QED
    BY <1>1, <1>2, <1>3 DEF ChannelInv

LEMMA CreateKeepsChannel ==
  ASSUME ChannelInv, NEW n \in Nat \ {0}, chancreate(n)
  PROVE  ChannelInv'
  <1>1. /\ bufsize = 0 /\ bufsize' = n /\ off = 0 /\ nbuf = 0
        /\ buf' = [i \in 0 .. n - 1 |-> "junk"]
        /\ UNCHANGED <<off, nbuf, call, pc, owner, lock_init>>
    BY DEF chancreate, ChannelInv, ChannelTypeOK
  <1>2. ChannelTypeOK'
    BY <1>1 DEF ChannelInv, ChannelTypeOK
  <1> QED
    BY <1>1, <1>2 DEF ChannelInv, Words

(* What a call does with the lock held.                                    *)
LEMMA BodyKeepsChannel ==
  ASSUME ChannelInv, NEW t \in Threads, Body(t)
  PROVE  ChannelInv'
  <1>1. CASE chanclose(t)
    BY <1>1, CloseKeepsChannel
  <1>2. CASE chansend(t)
    BY <1>2, SendsKeepsChannel, FailsKeepsChannel, RsleepKeepsChannel DEF chansend, In
  <1>3. CASE chanrecv(t)
    BY <1>3, ReceivesKeepsChannel, FailsKeepsChannel, RsleepKeepsChannel DEF chanrecv, In
  <1>4. CASE channbsend(t)
    BY <1>4, SendsKeepsChannel, FailsKeepsChannel DEF channbsend, In
  <1>5. CASE channbrecv(t)
    BY <1>5, ReceivesKeepsChannel, FailsKeepsChannel DEF channbrecv, In
  <1> QED
    BY <1>1, <1>2, <1>3, <1>4, <1>5 DEF Body

-----------------------------------------------------------------------------
(* A channel is a queue, step by step.                                     *)

LEMMA QueueIsContents ==
  \A t \in Threads :
     /\ Promise!Send(t) <=>
          /\ call[t].op \in {"send", "nbsend"} /\ ~closed /\ Len(Contents) < bufsize
          /\ Contents' = Append(Contents, call[t].data)
          /\ Promise!Returns(t, "sent") /\ UNCHANGED closed
     /\ Promise!Receive(t) <=>
          /\ call[t].op \in {"recv", "nbrecv"} /\ Contents # <<>>
          /\ Contents' = Tail(Contents)
          /\ Promise!Returns(t, Head(Contents)) /\ UNCHANGED closed
     /\ Promise!Refuse(t) <=>
          /\ closed
          /\ \/ call[t].op \in {"send", "nbsend"}
             \/ call[t].op \in {"recv", "nbrecv"} /\ Contents = <<>>
          /\ Promise!Returns(t, "refused") /\ UNCHANGED <<Contents, closed>>
     /\ Promise!GiveUp(t) <=>
          /\ ~closed
          /\ \/ call[t].op = "nbsend" /\ Len(Contents) = bufsize
             \/ call[t].op = "nbrecv" /\ Contents = <<>>
          /\ Promise!Returns(t, "would wait") /\ UNCHANGED <<Contents, closed>>
     /\ Promise!Close(t) <=>
          /\ call[t].op = "close" /\ closed' = TRUE
          /\ Promise!Returns(t, "closed") /\ UNCHANGED Contents
  BY DEF Contents, Promise!Send, Promise!Receive, Promise!Refuse,
         Promise!GiveUp, Promise!Close

(* Nothing that is read of the ring changes when the ring does not.        *)
LEMMA RingStays ==
  ASSUME UNCHANGED ring
  PROVE  Contents' = Contents /\ bufsize' = bufsize
  BY DEF Contents, ring

LEMMA ReturnReturns ==
  ASSUME NEW t, NEW result, NEW wakes, Return(t, result, wakes), bufsize' = bufsize
  PROVE  Promise!Returns(t, result)
  BY DEF Return, Promise!Returns

(* Empty and full are what canrecv and cansend say of the ring.            *)
LEMMA RoomAndWords ==
  ASSUME ChannelInv
  PROVE  /\ cansend <=> Len(Contents) < bufsize
         /\ ~cansend <=> Len(Contents) = bufsize
         /\ canrecv <=> Contents # <<>>
  <1>1. Contents \in Seq(Words) /\ Len(Contents) = nbuf
    BY ContentsType
  <1>2. Contents = <<>> <=> Len(Contents) = 0
    BY <1>1, EmptySeq
  <1> QED
    BY <1>1, <1>2 DEF ChannelInv, ChannelTypeOK, cansend, canrecv

LEMMA SendsSend ==
  ASSUME ChannelInv, NEW t \in Threads, call[t].op \in {"send", "nbsend"},
         ~closed, cansend, Sends(t)
  PROVE  Promise!Send(t)
  <1>1. bufsize # 0 /\ call[t].data \in Words
    BY RunsInChannel, CallShape DEF Words
  <1>2. Contents' = Append(Contents, call[t].data)
    BY <1>1, Sending DEF Sends
  <1>3. Promise!Returns(t, "sent") /\ UNCHANGED closed
    BY ReturnReturns DEF Sends, chansend_
  <1> QED
    BY <1>2, <1>3, RoomAndWords, QueueIsContents

LEMMA ReceivesReceive ==
  ASSUME ChannelInv, NEW t \in Threads, call[t].op \in {"recv", "nbrecv"}, canrecv, Receives(t)
  PROVE  Promise!Receive(t)
  <1>1. Contents # <<>> /\ buf[off] = Head(Contents) /\ Contents' = Tail(Contents)
    BY RunsInChannel, Receiving DEF Receives
  <1>2. Promise!Returns(t, Head(Contents)) /\ UNCHANGED closed
    BY <1>1, ReturnReturns DEF Receives, chanrecv_
  <1> QED
    BY <1>1, <1>2, QueueIsContents

LEMMA FailsReturns ==
  ASSUME NEW t, NEW result, Fails(t, result)
  PROVE  Promise!Returns(t, result) /\ UNCHANGED <<Contents, closed>>
  <1>1. UNCHANGED ring /\ UNCHANGED closed /\ Return(t, result, {{}})
    BY DEF Fails
  <1> QED
    BY <1>1, RingStays, ReturnReturns

LEMMA QueueStays ==
  ASSUME UNCHANGED <<ring, closed, call, got>>
  PROVE  UNCHANGED Promise!queueVars
  BY RingStays DEF Contents, Promise!queueVars

LEMMA SleepStutters ==
  ASSUME NEW t, rsleep(t)
  PROVE  UNCHANGED Promise!queueVars
  BY QueueStays DEF rsleep

(* What a call does with the lock held is what the queue does in a step,   *)
(* or it goes to sleep and the queue is as it was.                         *)
LEMMA BodyRefines ==
  ASSUME ChannelInv, NEW t \in Threads, Body(t)
  PROVE  Promise!QueueNext \/ UNCHANGED Promise!queueVars
  <1> SUFFICES \/ Promise!Send(t) \/ Promise!Receive(t) \/ Promise!Refuse(t)
               \/ Promise!GiveUp(t) \/ Promise!Close(t) \/ UNCHANGED Promise!queueVars
    BY DEF Promise!QueueNext
  <1>1. CASE chanclose(t)
    BY <1>1, RingStays, ReturnReturns, QueueIsContents DEF chanclose, In
  <1>2. CASE chansend(t)
    BY <1>2, SendsSend, FailsReturns, SleepStutters, QueueIsContents DEF chansend, In
  <1>3. CASE chanrecv(t)
    BY <1>3, ReceivesReceive, FailsReturns, SleepStutters, RoomAndWords, QueueIsContents
    DEF chanrecv, In
  <1>4. CASE channbsend(t)
    BY <1>4, SendsSend, FailsReturns, RoomAndWords, QueueIsContents DEF channbsend, In
  <1>5. CASE channbrecv(t)
    BY <1>5, ReceivesReceive, FailsReturns, RoomAndWords, QueueIsContents DEF channbrecv, In
  <1> QED
    BY <1>1, <1>2, <1>3, <1>4, <1>5 DEF Body

LEMMA CallRefines ==
  ASSUME ChannelInv, NEW t \in Threads, NEW c \in Promise!Calls(Promise!Ops), Call(t, c)
  PROVE  Promise!QueueNext
  <1>1. call[t] = Promise!NoCall
    BY DEF Call, ChannelInv
  <1>2. UNCHANGED ring
    BY DEF Call
  <1>3. Contents' = Contents /\ bufsize' = bufsize
    BY <1>2, RingStays
  <1>4. Promise!Invoke(t, c)
    BY <1>1, <1>3 DEF Call, Promise!Invoke, Contents
  <1> QED
    BY <1>4 DEF Promise!QueueNext

LEMMA CreateRefines ==
  ASSUME ChannelInv, NEW n \in Nat \ {0}, chancreate(n)
  PROVE  Promise!QueueNext
  <1>1. Contents = Contents'
    <2>1. nbuf = 0 /\ nbuf' = 0 /\ 1 .. 0 = {}
      BY DEF chancreate, ChannelInv, ChannelTypeOK
    <2>2. Contents = [i \in {} |-> buf[(off + i - 1) % bufsize]]
      BY <2>1 DEF Contents
    <2>3. Contents' = [i \in {} |-> buf'[(off' + i - 1) % bufsize']]
      BY <2>1 DEF Contents
    <2> QED
      BY <2>2, <2>3
  <1>2. Promise!Create
    BY <1>1 DEF chancreate, Promise!Create, Contents
  <1> QED
    BY <1>2 DEF Promise!QueueNext

(* Getting the lock, and waking by itself, are nothing the queue sees.     *)
LEMMA WorkingRefines ==
  ASSUME ChannelInv, NEW t \in Threads, Working(t)
  PROVE  Promise!QueueNext \/ UNCHANGED Promise!queueVars
  <1>1. CASE lockinit(t) \/ lock(t) \/ WakesByItself(t)
    BY <1>1, QueueStays DEF lockinit, lock, WakesByItself
  <1> QED
    BY <1>1, BodyRefines DEF Working

LEMMA WorkingKeepsChannel ==
  ASSUME ChannelInv, NEW t \in Threads, Working(t)
  PROVE  ChannelInv'
  BY BodyKeepsChannel, LockKeepsChannel, WakesKeepsChannel DEF Working

LEMMA InitRefines ==
  ASSUME ChannelInit
  PROVE  Promise!QueueInit
  <1>1. nbuf = 0 /\ 1 .. 0 = {}
    BY DEF ChannelInit
  <1>2. [i \in 1 .. nbuf |-> buf[(off + i - 1) % bufsize]] = <<>>
    BY <1>1
  <1> QED
    BY <1>2 DEF ChannelInit, Promise!QueueInit

(***************************************************************************)
(* The screen                                                              *)
(***************************************************************************)

(* The lists are bags of at most one; what is queued has an intensity, so  *)
(* that a dot that found none is not of a queued pixel; the pixels to      *)
(* clear are gone before others are found.                                 *)
CrtInv ==
  /\ CrtTypeOK /\ OnePlace
  /\ pxlist \in [Pixels -> {0, 1}] /\ clearList \in [Pixels -> {0, 1}]
  /\ phos1List \in [Pixels -> {0, 1}] /\ phos2List \in [Pixels -> {0, 1}]
  /\ \A p \in Pixels : pxvals[p] = 0 => pxlist[p] = 0
  /\ dot # NoDot => (dot.v = 0 => pxlist[dot.p] = 0)
  /\ frame = "phosphor 1" => clearList = Dark

LEMMA InitCrt == CrtInit => CrtInv
  BY GlowAssumption, IntensitiesAssumption
  DEF CrtInit, CrtInv, CrtTypeOK, OnePlace, Dark, Bright

(* A dot is read without the lock, and queued with it.                     *)
LEMMA ReadDotKeepsCrt ==
  ASSUME CrtInv, NEW p \in Pixels, NEW i \in Intensities, ReadDot(p, i)
  PROVE  CrtInv'
  <1>1. dot' \in [p : Pixels, intensity : Intensities, v : Intensities \cup {0}]
    BY DEF ReadDot, CrtInv, CrtTypeOK
  <1>2. dot'.v = 0 => pxlist[dot'.p] = 0
    BY DEF ReadDot, CrtInv
  <1> QED
    BY <1>1, <1>2
    DEF ReadDot, queue, phosphor1, phosphor2, CrtInv, CrtTypeOK, OnePlace, Dark

LEMMA QueuePixelKeepsCrt ==
  ASSUME CrtInv, QueuePixel
  PROVE  CrtInv'
  <1> USE IntensitiesAssumption
  <1>1. /\ dot.p \in Pixels /\ dot.intensity \in Intensities /\ dot.intensity # 0
        /\ dot.v = 0 => pxlist[dot.p] = 0
    BY DEF QueuePixel, CrtInv, CrtTypeOK
  <1>2. pxvals' \in [Pixels -> Intensities \cup {0}]
    BY <1>1 DEF QueuePixel, CrtInv, CrtTypeOK
  <1>3. /\ pxlist' \in [Pixels -> {0, 1}]
        /\ \A q \in Pixels : pxvals'[q] = 0 => pxlist'[q] = 0
    <2>1. CASE IsNew
      <3>1. pxvals' = [pxvals EXCEPT ![dot.p] = dot.intensity]
        BY <1>1, <2>1 DEF QueuePixel
      <3> DEFINE one == pxlist[dot.p] + 1
      <3>2. pxlist' = [pxlist EXCEPT ![dot.p] = one] /\ one = 1
        BY <1>1, <2>1 DEF QueuePixel, IsNew
      <3> HIDE DEF one
      <3>3. pxlist' \in [Pixels -> {0, 1}]
        BY <3>2 DEF CrtInv
      <3>4. \A q \in Pixels : q # dot.p => pxlist'[q] = pxlist[q] /\ pxvals'[q] = pxvals[q]
        BY <3>1, <3>2 DEF CrtInv, CrtTypeOK
      <3>5. pxvals'[dot.p] # 0
        BY <1>1, <3>1 DEF CrtInv, CrtTypeOK
      <3> QED
        BY <3>3, <3>4, <3>5 DEF CrtInv
    <2>2. CASE ~IsNew
      <3>1. pxlist' = pxlist /\ \A q \in Pixels : pxvals'[q] = 0 => pxvals[q] = 0
        BY <1>1, <2>2 DEF QueuePixel, CrtInv, CrtTypeOK
      <3> QED
        BY <3>1 DEF CrtInv
    <2> QED
      BY <2>1, <2>2
  <1>4. \A q \in Pixels : pxlist'[q] <= 1
    BY <1>3
  <1> QED
    BY <1>2, <1>3, <1>4
    DEF QueuePixel, phosphor1, phosphor2, CrtInv, CrtTypeOK, OnePlace, Dark

(* A frame.                                                                *)
LEMMA RenderpixelsKeepsCrt ==
  ASSUME CrtInv, renderpixels
  PROVE  CrtInv'
  <1>1. phos1vals' \in [Pixels -> 0 .. Bright]
    BY DEF renderpixels, renderpixel
  <1>2. /\ phos1List' \in [Pixels -> {0, 1}]
        /\ \A p \in Pixels : phos1List'[p] = (IF phos1vals'[p] = 0 THEN 0 ELSE 1)
    <2>1. \A p \in Pixels : phos1vals[p] # 0 => phos1vals'[p] # 0
      BY DEF renderpixels, renderpixel, CrtInv, CrtTypeOK, Bright
    <2> QED
      BY <1>1, <2>1 DEF renderpixels, CrtInv, OnePlace, CrtTypeOK
  <1>3. /\ pxvals' \in [Pixels -> Intensities \cup {0}]
        /\ pxlist' \in [Pixels -> {0, 1}]
        /\ \A p \in Pixels : pxlist'[p] = 0
    BY DEF renderpixels, CrtInv, CrtTypeOK, Dark
  <1> QED
    BY <1>1, <1>2, <1>3 DEF renderpixels, phosphor2, CrtInv, CrtTypeOK, OnePlace

LEMMA ClearAndDrawGlowKeepsCrt ==
  ASSUME CrtInv, ClearAndDrawGlow
  PROVE  CrtInv'
  <1>1. clearList' = Dark
    BY DEF ClearAndDrawGlow
  <1>2. pixels' \in [Pixels -> {"bg", "lit"}]
    BY DEF ClearAndDrawGlow, CrtInv, CrtTypeOK
  <1>3. clearList' \in [Pixels -> {0, 1}] /\ \A p \in Pixels : clearList'[p] <= 1
    BY <1>1 DEF Dark
  <1>4. frame' = "phosphor 1" /\ UNCHANGED <<dot, pxlist, pxvals, phosphor1, phosphor2>>
    BY DEF ClearAndDrawGlow, queue
  <1>5. CrtTypeOK'
    BY <1>2, <1>4 DEF CrtInv, CrtTypeOK, phosphor1, phosphor2
  <1>6. OnePlace'
    BY <1>3, <1>4 DEF CrtInv, OnePlace, phosphor1, phosphor2
  <1> QED
    BY <1>1, <1>3, <1>4, <1>5, <1>6 DEF CrtInv, phosphor1, phosphor2

LEMMA Phosphor1KeepsCrt ==
  ASSUME CrtInv, Phosphor1
  PROVE  CrtInv'
  <1> DEFINE trace == {p \in Pixels : phos1List[p] > 0 /\ phos1vals[p] = Bright}
  <1>1. PICK u \in [Pixels -> 1 .. MaxGlow] :
          phos2vals' = [p \in Pixels |->
             IF p \in trace /\ phos2vals[p] < u[p] THEN u[p] ELSE phos2vals[p]]
    BY DEF Phosphor1
  <1>2. /\ phos2vals' \in [Pixels -> 0 .. MaxGlow]
        /\ \A p \in Pixels : phos2vals'[p] = 0 <=> phos2vals[p] = 0 /\ p \notin trace
    <2>1. \A p \in Pixels : u[p] \in 1 .. MaxGlow /\ phos2vals[p] \in 0 .. MaxGlow
      BY DEF CrtInv, CrtTypeOK
    <2> HIDE DEF trace
    <2> QED
      BY <1>1, <2>1, GlowAssumption
  <1>3. /\ phos2List' \in [Pixels -> {0, 1}]
        /\ \A p \in Pixels : phos2List'[p] = (IF phos2vals'[p] = 0 THEN 0 ELSE 1)
    <2>1. phos2List' = [p \in Pixels |->
            IF p \in trace /\ phos2vals[p] = 0 THEN phos2List[p] + 1 ELSE phos2List[p]]
      BY DEF Phosphor1
    <2>2. \A p \in Pixels : phos2List[p] = (IF phos2vals[p] = 0 THEN 0 ELSE 1)
      BY DEF CrtInv, OnePlace
    <2> HIDE DEF trace
    <2>3. \A p \in Pixels :
            phos2List'[p] \in {0, 1} /\ phos2List'[p] = (IF phos2vals'[p] = 0 THEN 0 ELSE 1)
      BY <1>2, <2>1, <2>2
    <2> QED
      BY <2>1, <2>3
  <1>4. /\ phos1vals' \in [Pixels -> 0 .. Bright] /\ phos1List' \in [Pixels -> {0, 1}]
        /\ \A p \in Pixels : phos1List'[p] = 0 /\ phos1vals'[p] = 0
    <2>1. \A p \in Pixels : phos1vals[p] \in 0 .. Bright /\ phos1List[p] = (IF phos1vals[p] = 0 THEN 0 ELSE 1)
      BY DEF CrtInv, CrtTypeOK, OnePlace
    <2>2. phos1vals' = [p \in Pixels |-> IF phos1List[p] > 0 THEN 0 ELSE phos1vals[p]] /\ phos1List' = Dark
      BY DEF Phosphor1
    <2>3. \A p \in Pixels : phos1vals'[p] = 0
      BY <2>1, <2>2
    <2> QED
      BY <2>2, <2>3 DEF Dark, Bright
  <1>5. clearList' \in [Pixels -> {0, 1}] /\ \A p \in Pixels : clearList'[p] <= 1
    <2>1. \A p \in Pixels : clearList[p] = 0
      BY DEF Phosphor1, CrtInv, Dark
    <2>2. clearList' = [p \in Pixels |->
            IF phos1List[p] > 0 /\ ToClear(p) THEN clearList[p] + 1 ELSE clearList[p]]
      BY DEF Phosphor1
    <2> QED
      BY <2>1, <2>2
  <1>6. pixels' \in [Pixels -> {"bg", "lit"}] /\ frame' = "fade"
    BY DEF Phosphor1, CrtInv, CrtTypeOK
  <1>7. UNCHANGED <<dot, pxlist, pxvals>>
    BY DEF Phosphor1, queue
  <1>8. CrtTypeOK'
    BY <1>2, <1>4, <1>6, <1>7 DEF CrtInv, CrtTypeOK
  <1>9. OnePlace'
    BY <1>3, <1>4, <1>5, <1>7 DEF CrtInv, OnePlace
  <1> QED
    BY <1>3, <1>4, <1>5, <1>6, <1>7, <1>8, <1>9 DEF CrtInv

LEMMA FadePhosphor2KeepsCrt ==
  ASSUME CrtInv, FadePhosphor2
  PROVE  CrtInv'
  <1>1. phos2vals' \in [Pixels -> 0 .. MaxGlow]
    BY DEF FadePhosphor2
  <1>2. /\ phos2List' \in [Pixels -> {0, 1}]
        /\ \A p \in Pixels : phos2List'[p] = (IF phos2vals'[p] = 0 THEN 0 ELSE 1)
    <2>1. \A p \in Pixels : phos2vals'[p] # 0 => phos2List[p] = 1
      BY <1>1, GlowAssumption DEF FadePhosphor2, CrtInv, CrtTypeOK, OnePlace
    <2>2. phos2List' = [p \in Pixels |-> IF phos2vals'[p] > 0 THEN phos2List[p] ELSE 0]
      BY DEF FadePhosphor2
    <2>3. \A p \in Pixels : phos2vals'[p] \in 0 .. MaxGlow
      BY <1>1
    <2> QED
      BY <1>1, <2>1, <2>2, <2>3, GlowAssumption
  <1>3. pixels' \in [Pixels -> {"bg", "lit"}]
    BY DEF FadePhosphor2, CrtInv, CrtTypeOK
  <1> QED
    BY <1>1, <1>2, <1>3
    DEF FadePhosphor2, queue, phosphor1, CrtInv, CrtTypeOK, OnePlace, Dark

LEMMA CrtInvariance ==
  ASSUME CrtInv, QueuePixel \/ render \/ \E p \in Pixels, i \in Intensities : ReadDot(p, i)
  PROVE  CrtInv'
  BY ReadDotKeepsCrt, QueuePixelKeepsCrt, RenderpixelsKeepsCrt, ClearAndDrawGlowKeepsCrt,
     Phosphor1KeepsCrt, FadePhosphor2KeepsCrt DEF render

(***************************************************************************)
(* The controllers                                                         *)
(***************************************************************************)

(* A set of places in a sequence has a last one, and Max is it.            *)
LEMMA LastOne ==
  ASSUME NEW n \in Nat, NEW S \in SUBSET (1 .. n), S # {}
  PROVE  Max(S) \in S /\ \A x \in S : x <= Max(S)
  <1> DEFINE Less == {p \in Nat \X Nat : p[1] < p[2]}
             T == {n - x : x \in S}
  <1>1. IsWellFoundedOn(Less, Nat)
    BY NatLessThanWellFounded DEF OpToRel
  <1>2. T \subseteq Nat /\ \A x \in S : n - x \in T
    OBVIOUS
  <1>3. PICK t \in T : \A u \in T : <<u, t>> \notin Less
    <2>1. T # {}
      BY <1>2
    <2> HIDE DEF T, Less
    <2> QED
      BY <1>1, <1>2, <2>1, WFMin
  <1>4. PICK x \in S : t = n - x
    OBVIOUS
  <1>5. ASSUME NEW y \in S
        PROVE  x >= y
    <2>1. n - y \in T /\ n - y \in Nat /\ t \in Nat
      BY <1>2
    <2>2. ~(n - y < t)
      BY <1>3, <2>1
    <2> QED
      BY <1>4, <2>2
  <1> QED
    BY <1>4, <1>5 DEF Max

LEMMA IsLast ==
  ASSUME NEW n \in Nat, NEW S \in SUBSET (1 .. n), NEW m \in S, \A x \in S : x <= m
  PROVE  Max(S) = m
  <1>1. Max(S) \in S /\ \A x \in S : x <= Max(S)
    BY LastOne
  <1>2. PICK l \in S : l = Max(S)
    BY <1>1
  <1>3. l <= m /\ m <= l /\ l \in 1 .. n /\ m \in 1 .. n
    BY <1>1, <1>2
  <1> QED
    BY <1>2, <1>3

(* What the program holds of each controller is what is held.              *)
ConsolesInv ==
  /\ ConsolesTypeOK /\ ConsoleFollows
  /\ \A i \in Consoles : joys[i] = held[i]
  /\ held[Pen] = IF penstate THEN {Pen} ELSE {}

Message == Registers \X SUBSET (Bits \cup {Pen})

LEMMA InitConsoles == ConsolesInit => ConsolesInv
  <1> SUFFICES ASSUME ConsolesInit
               PROVE  ConsolesInv
    OBVIOUS
  <1>1. ConsolesTypeOK
    <2>1. sock \in Seq(Registers \X SUBSET (Bits \cup {Pen})) /\ Len(sock) = 0
      BY EmptySeq DEF ConsolesInit
    <2>2. joys \in [Consoles -> SUBSET Bits] /\ penstate \in BOOLEAN
      BY DEF ConsolesInit
    <2>3. csl \in [Registers -> SUBSET (Bits \cup {Pen})] /\ held = csl
      BY DEF ConsolesInit
    <2> QED
      BY <2>1, <2>2, <2>3, ConsolesAssumption DEF ConsolesTypeOK
  <1>2. \A i \in Registers : Sent(i) = {}
    BY DEF ConsolesInit, Sent
  <1> QED
    BY <1>1, <1>2
    DEF ConsolesInit, ConsolesInv, ConsoleFollows, Latest, Registers, Pen

(* A message is the latest of its controller.                              *)
LEMMA SendingFollows ==
  ASSUME ConsolesTypeOK, NEW i \in Registers, NEW bits \in SUBSET (Bits \cup {Pen}),
         write(i, bits), csl' = csl
  PROVE  /\ sock' \in Seq(Message) /\ Len(sock') <= MaxInFlight
         /\ Latest(i)' = bits
         /\ \A j \in Registers \ {i} : Latest(j)' = Latest(j)
  <1> DEFINE m == <<i, bits>>
  <1>1. sock \in Seq(Message) /\ m \in Message /\ sock' = Append(sock, m)
    BY DEF ConsolesTypeOK, Message, write
  <1>2. /\ sock' \in Seq(Message) /\ Len(sock') = Len(sock) + 1
        /\ DOMAIN sock = 1 .. Len(sock) /\ DOMAIN sock' = 1 .. Len(sock) + 1
        /\ \A n \in 1 .. Len(sock) : sock'[n] = sock[n]
        /\ sock'[Len(sock) + 1] = m
    <2> HIDE DEF m
    <2> QED
      BY <1>1
  <1>3. Len(sock) \in Nat
    BY <1>1
  <1>4. Latest(i)' = bits
    <2>1. /\ Sent(i)' \in SUBSET (1 .. Len(sock) + 1)
          /\ Len(sock) + 1 \in Sent(i)' /\ Len(sock) + 1 \in Nat
          /\ \A n \in Sent(i)' : n <= Len(sock) + 1
      BY <1>2, <1>3 DEF Sent
    <2>2. Max(Sent(i)') = Len(sock) + 1
      BY <2>1, IsLast
    <2> QED
      BY <1>2, <2>1, <2>2 DEF Latest
  <1>5. ASSUME NEW j \in Registers \ {i}
        PROVE  Latest(j)' = Latest(j)
    <2>1. Sent(j)' = Sent(j) /\ Sent(j) \in SUBSET (1 .. Len(sock))
      BY <1>2, <1>3 DEF Sent
    <2>2. Sent(j) # {} => Max(Sent(j)) \in 1 .. Len(sock)
      BY <1>3, <2>1, LastOne
    <2> QED
      BY <1>2, <2>1, <2>2 DEF Latest
  <1> QED
    BY <1>2, <1>3, <1>4, <1>5, ConsolesAssumption DEF write, ConsolesTypeOK

(* The front end writes the oldest message to its register.                *)
LEMMA WritingFollows ==
  ASSUME ConsolesTypeOK, wcsl_thread
  PROVE  /\ sock' \in Seq(Message) /\ Len(sock') <= MaxInFlight
         /\ csl' \in [Registers -> SUBSET (Bits \cup {Pen})]
         /\ \A j \in Registers : Latest(j)' = Latest(j)
  <1> DEFINE h == Head(sock)
  <1>1. /\ sock \in Seq(Message) /\ sock # <<>> /\ sock' = Tail(sock)
        /\ csl' = [csl EXCEPT ![h[1]] = h[2]]
    BY DEF ConsolesTypeOK, Message, wcsl_thread
  <1>2. /\ Len(sock) \in Nat /\ Len(sock) >= 1
        /\ sock' \in Seq(Message) /\ Len(sock') = Len(sock) - 1
        /\ DOMAIN sock = 1 .. Len(sock) /\ DOMAIN sock' = 1 .. Len(sock) - 1
        /\ \A n \in 1 .. Len(sock) - 1 : sock'[n] = sock[n + 1]
        /\ h = sock[1] /\ h \in Message
    BY <1>1
  <1>3. csl' \in [Registers -> SUBSET (Bits \cup {Pen})]
    BY <1>1, <1>2 DEF ConsolesTypeOK, Message
  <1>4. ASSUME NEW j \in Registers
        PROVE  Latest(j)' = Latest(j)
    <2>1. Sent(j) \in SUBSET (1 .. Len(sock)) /\ Sent(j)' \in SUBSET (1 .. Len(sock) - 1)
      BY <1>2 DEF Sent
    <2>2. \A n \in 1 .. Len(sock) - 1 : n \in Sent(j)' <=> n + 1 \in Sent(j)
      BY <1>2 DEF Sent
    <2>3. 1 \in Sent(j) <=> h[1] = j
      BY <1>2 DEF Sent
    <2>4. csl'[j] = IF h[1] = j THEN h[2] ELSE csl[j]
      BY <1>1, <1>2 DEF ConsolesTypeOK, Message
    <2>5. CASE Sent(j)' = {}
      <3>1. Sent(j) \in SUBSET {1}
        <4> SUFFICES ASSUME NEW n \in Sent(j), n # 1
                     PROVE  FALSE
          OBVIOUS
        <4>1. n - 1 \in 1 .. Len(sock) - 1 /\ (n - 1) + 1 = n
          BY <1>2, <2>1
        <4> QED
          BY <2>2, <2>5, <4>1
      <3>2. CASE Sent(j) = {}
        BY <2>3, <2>4, <2>5, <3>2 DEF Latest
      <3>3. CASE Sent(j) = {1}
        <4>1. Max(Sent(j)) = 1
          BY <1>2, <2>1, <3>3, IsLast
        <4> QED
          BY <1>2, <2>3, <2>4, <2>5, <3>3, <4>1 DEF Latest
      <3> QED
        BY <3>1, <3>2, <3>3
    <2>6. CASE Sent(j)' # {}
      <3> DEFINE l == Max(Sent(j)')
      <3>1. l \in Sent(j)' /\ \A n \in Sent(j)' : n <= l
        BY <1>2, <2>1, <2>6, LastOne
      <3>2. l + 1 \in Sent(j)
        BY <2>1, <2>2, <3>1
      <3>3. \A n \in Sent(j) : n <= l + 1
        <4> SUFFICES ASSUME NEW n \in Sent(j), n # 1
                     PROVE  n <= l + 1
          BY <1>2, <2>1, <3>1
        <4>1. n - 1 \in 1 .. Len(sock) - 1 /\ (n - 1) + 1 = n
          BY <1>2, <2>1
        <4>2. n - 1 \in Sent(j)'
          BY <2>2, <4>1
        <4> QED
          BY <1>2, <2>1, <3>1, <4>2
      <3>4. Max(Sent(j)) = l + 1
        BY <1>2, <2>1, <3>2, <3>3, IsLast
      <3> QED
        BY <1>2, <2>1, <2>6, <3>1, <3>2, <3>4 DEF Latest
    <2> QED
      BY <2>5, <2>6
  <1> QED
    BY <1>2, <1>3, <1>4, ConsolesAssumption DEF ConsolesTypeOK

(* A register of which the latest message, or its content, is now what is  *)
(* held; the others are as they were.                                      *)
LEMMA HeldFollows ==
  ASSUME ConsolesInv, NEW i \in Registers, NEW bits \in SUBSET (Bits \cup {Pen}),
         \A j \in Registers \ {i} : Latest(j)' = Latest(j),
         Latest(i)' = bits, held' = [held EXCEPT ![i] = bits]
  PROVE  /\ ConsoleFollows' /\ held' \in [Registers -> SUBSET (Bits \cup {Pen})]
         /\ held'[i] = bits
         /\ \A j \in Registers \ {i} : held'[j] = held[j]
  BY DEF ConsolesInv, ConsolesTypeOK, ConsoleFollows

(* A key, a stick or a button of a controller: what the program holds of   *)
(* it changes as what is held does, and is sent if it changes.             *)
LEMMA HandFollows ==
  ASSUME ConsolesInv, NEW i \in Consoles, NEW bits \in SUBSET Bits,
         joys' = [joys EXCEPT ![i] = bits], held' = [held EXCEPT ![i] = bits],
         updatejoy(i) \/ (bits = joys[i] /\ UNCHANGED sock),
         UNCHANGED <<penstate, csl>>
  PROVE  ConsolesInv'
  <1>1. i \in Registers /\ i # Pen /\ bits \in SUBSET (Bits \cup {Pen})
    BY ConsolesAssumption DEF Registers, Pen
  <1>2. joys' \in [Consoles -> SUBSET Bits] /\ joys'[i] = bits
    BY DEF ConsolesInv, ConsolesTypeOK
  <1>3. /\ sock' \in Seq(Message) /\ Len(sock') <= MaxInFlight
        /\ Latest(i)' = bits /\ \A j \in Registers \ {i} : Latest(j)' = Latest(j)
    <2>1. CASE updatejoy(i)
      BY <1>1, <1>2, <2>1, SendingFollows DEF updatejoy, ConsolesInv
    <2>2. CASE bits = joys[i] /\ UNCHANGED sock
      <3>1. \A j \in Registers : Latest(j)' = Latest(j)
        BY <2>2 DEF Latest, Sent
      <3> QED
        BY <1>1, <2>2, <3>1 DEF ConsolesInv, ConsolesTypeOK, ConsoleFollows, Message
    <2> QED
      BY <2>1, <2>2
  <1>4. /\ ConsoleFollows' /\ held' \in [Registers -> SUBSET (Bits \cup {Pen})]
        /\ held'[i] = bits
        /\ \A j \in Registers \ {i} : held'[j] = held[j]
    BY <1>1, <1>3, HeldFollows
  <1>5. \A j \in Consoles : joys'[j] = held'[j]
    BY <1>1, <1>2, <1>4 DEF ConsolesInv, ConsolesTypeOK, Registers
  <1>6. held'[Pen] = IF penstate' THEN {Pen} ELSE {}
    BY <1>1, <1>4 DEF ConsolesInv, Registers
  <1>7. ConsolesTypeOK'
    BY <1>2, <1>3, <1>4 DEF ConsolesInv, ConsolesTypeOK, Message
  <1> QED
    BY <1>4, <1>5, <1>6, <1>7 DEF ConsolesInv

LEMMA MouseFollows ==
  ASSUME ConsolesInv, NEW state \in BOOLEAN, mouse(state)
  PROVE  ConsolesInv'
  <1> DEFINE bits == IF state THEN {Pen} ELSE {}
  <1>1. Pen \in Registers /\ Pen \notin Consoles /\ bits \in SUBSET (Bits \cup {Pen})
    BY ConsolesAssumption DEF Registers, Pen
  <1>2. /\ penstate' = state /\ held' = [held EXCEPT ![Pen] = bits]
        /\ csl' = csl /\ joys' = joys
    BY DEF mouse
  <1>3. /\ sock' \in Seq(Message) /\ Len(sock') <= MaxInFlight
        /\ Latest(Pen)' = bits /\ \A j \in Registers \ {Pen} : Latest(j)' = Latest(j)
    <2>1. CASE write(Pen, bits)
      BY <1>1, <1>2, <2>1, SendingFollows DEF ConsolesInv
    <2>2. CASE penstate = state /\ UNCHANGED sock
      <3>1. \A j \in Registers : Latest(j)' = Latest(j)
        BY <1>2, <2>2 DEF Latest, Sent
      <3> QED
        BY <1>1, <2>2, <3>1 DEF ConsolesInv, ConsolesTypeOK, ConsoleFollows, Message
    <2> QED
      BY <2>1, <2>2 DEF mouse
  <1>4. /\ ConsoleFollows' /\ held' \in [Registers -> SUBSET (Bits \cup {Pen})]
        /\ held'[Pen] = bits
        /\ \A j \in Registers \ {Pen} : held'[j] = held[j]
    BY <1>1, <1>2, <1>3, HeldFollows
  <1>5. \A j \in Consoles : joys'[j] = held'[j]
    BY <1>1, <1>2, <1>4 DEF ConsolesInv, Registers
  <1>6. ConsolesTypeOK'
    BY <1>2, <1>3, <1>4 DEF ConsolesInv, ConsolesTypeOK, Message
  <1> QED
    BY <1>2, <1>4, <1>5, <1>6 DEF ConsolesInv

LEMMA ConsolesInvariance ==
  ASSUME ConsolesInv,
         \/ wcsl_thread
         \/ \E state \in BOOLEAN : mouse(state)
         \/ \E i \in Consoles, b \in Bits : keydn(i, b) \/ keyup(i, b)
         \/ \E i \in Consoles, dirs \in SUBSET Dirs : joyhat(i, dirs)
         \/ \E i \in Consoles, b \in Buttons : joybtn(i, b)
  PROVE  ConsolesInv'
  <1>1. \A i \in Consoles : /\ joys[i] = held[i] /\ joys[i] \in SUBSET Bits
                            /\ joys \in [Consoles -> SUBSET Bits]
                            /\ i \in Registers
    BY DEF ConsolesInv, ConsolesTypeOK, Registers
  <1>2. CASE wcsl_thread
    BY <1>2, WritingFollows
    DEF wcsl_thread, ConsolesInv, ConsolesTypeOK, ConsoleFollows, Message
  <1>3. CASE \E state \in BOOLEAN : mouse(state)
    BY <1>3, MouseFollows
  <1>4. ASSUME NEW i \in Consoles, NEW b \in Bits, keydn(i, b)
        PROVE  ConsolesInv'
    <2> DEFINE bits == joys[i] \cup {b}
    <2>1. bits \in SUBSET Bits /\ joys' = [joys EXCEPT ![i] = bits] /\ joys'[i] = bits
          /\ held' = [held EXCEPT ![i] = bits]
      BY <1>1, <1>4 DEF keydn
    <2>2. updatejoy(i) \/ (bits = joys[i] /\ UNCHANGED sock)
      BY <1>4, <2>1 DEF keydn, Changed
    <2>3. UNCHANGED <<penstate, csl>>
      BY <1>4 DEF keydn
    <2> HIDE DEF bits
    <2> QED
      BY <2>1, <2>2, <2>3, HandFollows
  <1>5. ASSUME NEW i \in Consoles, NEW b \in Bits, keyup(i, b)
        PROVE  ConsolesInv'
    <2> DEFINE bits == joys[i] \ {b}
    <2>1. bits \in SUBSET Bits /\ joys' = [joys EXCEPT ![i] = bits] /\ joys'[i] = bits
          /\ held' = [held EXCEPT ![i] = bits]
      BY <1>1, <1>5 DEF keyup
    <2>2. updatejoy(i) \/ (bits = joys[i] /\ UNCHANGED sock)
      BY <1>5, <2>1 DEF keyup, Changed
    <2>3. UNCHANGED <<penstate, csl>>
      BY <1>5 DEF keyup
    <2> HIDE DEF bits
    <2> QED
      BY <2>1, <2>2, <2>3, HandFollows
  <1>6. ASSUME NEW i \in Consoles, NEW dirs \in SUBSET Dirs, joyhat(i, dirs)
        PROVE  ConsolesInv'
    <2> DEFINE bits == (joys[i] \ Dirs) \cup dirs
    <2>1. bits \in SUBSET Bits /\ joys' = [joys EXCEPT ![i] = bits]
          /\ held' = [held EXCEPT ![i] = bits]
      BY <1>1, <1>6 DEF joyhat, Hat, Bits
    <2>2. updatejoy(i) /\ UNCHANGED <<penstate, csl>>
      BY <1>6 DEF joyhat
    <2> HIDE DEF bits
    <2> QED
      BY <2>1, <2>2, HandFollows
  <1>7. ASSUME NEW i \in Consoles, NEW b \in Buttons, joybtn(i, b)
        PROVE  ConsolesInv'
    <2> DEFINE bits == IF b \in held[i] THEN joys[i] \ {b} ELSE joys[i] \cup {b}
    <2>1. bits \in SUBSET Bits /\ joys' = [joys EXCEPT ![i] = bits]
          /\ held' = [held EXCEPT ![i] = bits]
      BY <1>1, <1>7 DEF joybtn, Bits
    <2>2. updatejoy(i) /\ UNCHANGED <<penstate, csl>>
      BY <1>7 DEF joybtn
    <2> HIDE DEF bits
    <2> QED
      BY <2>1, <2>2, HandFollows
  <1> QED
    BY <1>2, <1>3, <1>4, <1>5, <1>6, <1>7
(***************************************************************************)
(* The three together: a step is one of theirs and leaves the others as    *)
(* they are.                                                               *)
(***************************************************************************)

IInv == ChannelInv /\ CrtInv /\ ConsolesInv

(* The parts that stay.                                                    *)
LEMMA ChannelStays ==
  ASSUME ChannelInv, UNCHANGED channelVars
  PROVE  ChannelInv' /\ UNCHANGED Promise!queueVars
  <1>1. UNCHANGED <<bufsize, buf, off, nbuf, closed, call, got, pc, owner, lock_init, rend_init>>
    BY DEF channelVars, ring
  <1> QED
    BY <1>1 DEF ChannelInv, ChannelTypeOK, Promise!queueVars

LEMMA CrtStays ==
  ASSUME CrtInv, UNCHANGED crtVars
  PROVE  CrtInv'
  <1>1. UNCHANGED <<dot, pxlist, pxvals, phos1List, phos1vals, phos2List, phos2vals, clearList, pixels, frame>>
    BY DEF crtVars, queue, phosphor1, phosphor2
  <1> QED
    BY <1>1 DEF CrtInv, CrtTypeOK, OnePlace, ToClear

LEMMA ConsolesStay ==
  ASSUME ConsolesInv, UNCHANGED consoleVars
  PROVE  ConsolesInv'
  BY DEF consoleVars, ConsolesInv, ConsolesTypeOK, ConsoleFollows, Latest, Sent

(* Whose step it is.                                                       *)
LEMMA Steps ==
  ASSUME [Next]_vars
  PROVE  \/ /\ \/ \E n \in Nat \ {0} : chancreate(n)
               \/ \E t \in Threads : Working(t) \/ \E c \in Promise!Calls(Promise!Ops) : Call(t, c)
            /\ UNCHANGED <<crtVars, consoleVars>>
         \/ /\ QueuePixel \/ render \/ \E p \in Pixels, i \in Intensities : ReadDot(p, i)
            /\ UNCHANGED <<channelVars, consoleVars>>
         \/ /\ \/ wcsl_thread
               \/ \E state \in BOOLEAN : mouse(state)
               \/ \E i \in Consoles, b \in Bits : keydn(i, b) \/ keyup(i, b)
               \/ \E i \in Consoles, dirs \in SUBSET Dirs : joyhat(i, dirs)
               \/ \E i \in Consoles, b \in Buttons : joybtn(i, b)
            /\ UNCHANGED <<channelVars, crtVars>>
         \/ UNCHANGED <<channelVars, crtVars, consoleVars>>
  <1>1. CASE Callers
    BY <1>1, BufSizesAssumption DEF Callers, ChannelStep
  <1>2. CASE Dots
    BY <1>2 DEF Dots, CrtStep
  <1>3. CASE Hands
    BY <1>3 DEF Hands, ConsoleStep
  <1>4. CASE \E t \in Threads : ChannelStep(Working(t))
    BY <1>4 DEF ChannelStep
  <1>5. CASE CrtStep(QueuePixel) \/ CrtStep(render)
    BY <1>5 DEF CrtStep
  <1>6. CASE ConsoleStep(wcsl_thread)
    BY <1>6 DEF ConsoleStep
  <1>7. CASE UNCHANGED vars
    BY <1>7 DEF vars
  <1> QED
    BY <1>1, <1>2, <1>3, <1>4, <1>5, <1>6, <1>7 DEF Next

LEMMA Step ==
  ASSUME IInv, [Next]_vars
  PROVE  IInv' /\ (Promise!QueueNext \/ UNCHANGED Promise!queueVars)
  <1> USE DEF IInv
  <1>1. CASE /\ \/ \E n \in Nat \ {0} : chancreate(n)
                \/ \E t \in Threads : Working(t) \/ \E c \in Promise!Calls(Promise!Ops) : Call(t, c)
             /\ UNCHANGED <<crtVars, consoleVars>>
    <2>1. ChannelInv'
      BY <1>1, CreateKeepsChannel, WorkingKeepsChannel, CallKeepsChannel
    <2>2. Promise!QueueNext \/ UNCHANGED Promise!queueVars
      BY <1>1, CreateRefines, WorkingRefines, CallRefines
    <2>3. CrtInv' /\ ConsolesInv'
      BY <1>1, CrtStays, ConsolesStay
    <2> QED
      BY <2>1, <2>2, <2>3
  <1>2. CASE /\ QueuePixel \/ render \/ \E p \in Pixels, i \in Intensities : ReadDot(p, i)
             /\ UNCHANGED <<channelVars, consoleVars>>
    BY <1>2, CrtInvariance, ChannelStays, ConsolesStay
  <1>3. CASE /\ \/ wcsl_thread
                \/ \E state \in BOOLEAN : mouse(state)
                \/ \E i \in Consoles, b \in Bits : keydn(i, b) \/ keyup(i, b)
                \/ \E i \in Consoles, dirs \in SUBSET Dirs : joyhat(i, dirs)
                \/ \E i \in Consoles, b \in Buttons : joybtn(i, b)
             /\ UNCHANGED <<channelVars, crtVars>>
    BY <1>3, ConsolesInvariance, ChannelStays, CrtStays
  <1>4. CASE UNCHANGED <<channelVars, crtVars, consoleVars>>
    BY <1>4, ChannelStays, CrtStays, ConsolesStay
  <1> QED
    BY <1>1, <1>2, <1>3, <1>4, Steps

LEMMA InitIInv == Init => IInv
  BY InitChannel, InitCrt, InitConsoles DEF Init, IInv

(* The inductive invariant of the three.                                   *)
THEOREM Invariance == Spec => []IInv
  <1>1. Init => IInv
    BY InitIInv
  <1>2. IInv /\ [Next]_vars => IInv'
    BY Step
  <1> QED
    BY <1>1, <1>2, PTL DEF Spec

(* A ring never holds more than its length, whoever works on it has its    *)
(* mutex although the first who call race to initialise it                 *)
(* (threading.c), and the lists of the screen and the messages of the      *)
(* controllers have their types.                                           *)
THEOREM Types == Spec => []TypeOK
  <1>1. IInv => TypeOK
    BY DEF IInv, ChannelInv, CrtInv, ConsolesInv, TypeOK
  <1> QED
    BY <1>1, Invariance, PTL

(* However a dot is read, queued and drawn beside the frames (crt.c), a    *)
(* pixel is in a phosphor's list once if it glows there and not at all     *)
(* otherwise, and never twice in any list.                                 *)
THEOREM Placed == Spec => []OnePlace
  <1>1. IInv => OnePlace
    BY DEF IInv, CrtInv
  <1> QED
    BY <1>1, Invariance, PTL

(* The latest message of each controller, or its register when none is on  *)
(* the way, is what is held (spcwarjoy.c and the front end's thread).      *)
THEOREM Follows == Spec => []ConsoleFollows
  <1>1. IInv => ConsoleFollows
    BY DEF IInv, ConsolesInv
  <1> QED
    BY <1>1, Invariance, PTL

(* The ring under its lock implements the queue: every step of a thread is *)
(* one of the queue's or changes nothing of it (threading.c).              *)
THEOREM ImplementsQueue == Spec => FifoQueue
  <1>1. Init => Promise!QueueInit
    BY InitRefines DEF Init
  <1>2. IInv /\ [Next]_vars => [Promise!QueueNext]_Promise!queueVars
    BY Step
  <1> QED
    BY <1>1, <1>2, Invariance, PTL DEF Spec, FifoQueue, Promise!QueueSpec
=============================================================================
