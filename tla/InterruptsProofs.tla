-------------------------- MODULE InterruptsProofs --------------------------
(***************************************************************************)
(* Proofs about Interrupts for every number of channels and every choice   *)
(* of the instructions that programs and interrupt locations hold.         *)
(***************************************************************************)
EXTENDS Interrupts, WellFoundedInduction, TLAPS

\* A set of numbers that is not empty has a least one.
LEMMA Least ==
  ASSUME NEW S \in SUBSET Nat, S # {}
  PROVE  \E x \in S : \A y \in S : x <= y
  <1> DEFINE Less == {p \in Nat \X Nat : p[1] < p[2]}
  <1>2. IsWellFoundedOn(Less, Nat)
    BY NatLessThanWellFounded DEF OpToRel
  <1>3. PICK x \in S : \A y \in S : <<y, x>> \notin Less
    BY <1>2, WFMin
  <1>4. \A y \in S : ~(y < x)
    BY <1>3
  <1> QED
    BY <1>3, <1>4

(***************************************************************************)
(* The inductive invariant                                                 *)
(***************************************************************************)

\* An instruction is in IR, and has not come to et3.
Decoded == at \in {"at3", "ft0", "et1"} \/ (at = "sync" /\ ~if1a)

\* From the fetch to the holding, the channel asking is the one in MA.
AskingIsVectored ==
  pi_cyc /\ \/ Decoded /\ at # "et1"
            \/ at = "fetch"
            \/ at \in {"et1", "et3"} /\ ir \in {"blk", "xct", "uuo"}
    => pi_req = {} \/ pi_req = ma

\* Where nothing may break in any more, nobody asks.
NobodyAsks ==
  /\ at = "ft0" /\ ~pi_cyc => ~pi_rq
  /\ at \in {"et1", "et3"} /\ ir = "blk" /\ ~pi_cyc => ~pi_rq
  /\ at = "et1" /\ pi_rst => ~pi_rq

IInv == TypeOK /\ AskingIsVectored /\ NobodyAsks

(***************************************************************************)
(* The priority chain                                                      *)
(***************************************************************************)

\* At most one channel is granted, and it is above all that are held.
LEMMA OneIsGranted ==
  ASSUME TypeOK
  PROVE  /\ \A i, j \in pi_req : i = j
         /\ \A i \in pi_req, j \in pih : i < j
         /\ pi_req \subseteq Channel
  <1>1. \A i \in pi_req : i \in Channel /\ i \in pir /\ i \notin pih /\ pi_ok(i)
    BY DEF pi_req, TypeOK
  <1>2. \A i \in pi_req, j \in Channel : j < i => j \notin pih \cup pir
    BY <1>1, InterruptsAssumption DEF pi_ok, Channel
  <1>3. \A i \in pi_req, j \in pi_req : ~(i < j) /\ ~(j < i)
    BY <1>1, <1>2
  <1>4. \A i \in pi_req, j \in pih : j \in Channel /\ ~(j < i) /\ j # i
    BY <1>1, <1>2 DEF TypeOK
  <1>5. Channel \subseteq Nat
    BY InterruptsAssumption DEF Channel
  <1>6. \A i, j \in pi_req : i \in Nat /\ j \in Nat
    BY <1>1, <1>5
  <1>7. \A i, j \in pi_req : i = j
    BY <1>3, <1>6
  <1>8. \A i \in pi_req, j \in pih : i \in Nat /\ j \in Nat
    BY <1>4, <1>5, <1>6
  <1>9. \A i \in pi_req, j \in pih : i < j
    BY <1>4, <1>8
  <1> QED
    BY <1>1, <1>7, <1>9

\* Once the channel granted is held, nobody asks.
LEMMA HoldingSilences ==
  ASSUME pih' = pih \cup pi_req, pir' = pir \ pih', UNCHANGED pi_active
  PROVE  pi_req' = {} /\ ~pi_rq'
  <1>1. pih' \cup pir' = pih \cup pir
    BY DEF pi_req
  <1>2. \A i : pi_ok(i)' <=> pi_ok(i)
    BY <1>1 DEF pi_ok
  <1>3. \A i : i \notin pi_req'
    BY <1>2 DEF pi_req
  <1> QED
    BY <1>3 DEF pi_rq

\* Who asks depends on nothing but PIR, PIH and whether the system is on.
LEMMA AskingStays ==
  ASSUME UNCHANGED <<pir, pih, pi_active>>
  PROVE  pi_req' = pi_req /\ (pi_rq' <=> pi_rq)
  <1>1. \A i : pi_ok(i)' <=> pi_ok(i)
    BY DEF pi_ok
  <1> QED
    BY <1>1 DEF pi_req, pi_rq

\* When nobody asks, what the chain reaches of the channels held is the
\* highest of them.
LEMMA ChainReachesHighest ==
  ASSUME TypeOK, ~pi_rq, pi_active, pih # {}
  PROVE  {i \in pih : pi_ok(i)} = Levels!Highest(pih)
  <1>1. pih \cup pir \in SUBSET Nat /\ pih \subseteq Nat
    BY InterruptsAssumption DEF TypeOK, Channel
  <1>2. PICK m \in pih \cup pir : \A j \in pih \cup pir : m <= j
    BY <1>1, Least
  <1>3. m \in Channel
    BY <1>2 DEF TypeOK
  <1>4. pi_ok(m)
    BY <1>1, <1>2 DEF pi_ok
  <1>5. m \in pih
    BY <1>2, <1>4 DEF pi_req, pi_rq
  <1>6. \A i \in pih : pi_ok(i) => i = m
    <2> TAKE i \in pih
    <2> HAVE pi_ok(i)
    <2>1. m <= i /\ i \in Nat /\ m \in Nat
      BY <1>1, <1>2
    <2>2. m \notin 1 .. i - 1
      BY <1>5 DEF pi_ok
    <2> QED
      BY <1>3, <2>1, <2>2 DEF Channel
  <1>7. \A i \in pih : (\A j \in pih : i <= j) <=> i = m
    BY <1>1, <1>2, <1>5
  <1> QED
    BY <1>4, <1>6, <1>7 DEF Levels!Highest

(***************************************************************************)
(* Types                                                                   *)
(***************************************************************************)

LEMMA InitTypes == Init => TypeOK
  BY InterruptsAssumption DEF Init, TypeOK, Instruction, Pulse

\* The strobe lets in what is asked for, and nothing that is held.
LEMMA SyncTypes ==
  ASSUME TypeOK, pi_sync
  PROVE  pir' \subseteq Channel /\ pir' \cap pih = {}
  BY DEF TypeOK, pi_sync, Strobed

LEMMA FetchesTypes ==
  ASSUME TypeOK, Fetches
  PROVE  TypeOK'
  <1>1. CASE It0
    BY <1>1, SyncTypes DEF It0, TypeOK, Pulse, cycle, key
  <1>2. CASE Interrupt
    BY <1>2, OneIsGranted DEF Interrupt, TypeOK, Pulse, pi, key
  <1>3. CASE It1
    BY <1>3, OneIsGranted DEF It1, TypeOK, Pulse, pi, cycle, key
  <1>4. CASE Cut
    BY <1>4 DEF Cut, TypeOK, Pulse, pi, cycle, key, fetch
  <1>5. CASE Decode
    <2>1. ir' \in Instruction
      BY <1>5, InterruptsAssumption DEF Decode
    <2> QED
      BY <1>5, <2>1, SyncTypes DEF Decode, TypeOK, Pulse, cycle, key
  <1> QED
    BY <1>1, <1>2, <1>3, <1>4, <1>5 DEF Fetches

LEMMA AddressesTypes ==
  ASSUME TypeOK, Addresses
  PROVE  TypeOK'
  <1>1. CASE Indirect
    BY <1>1 DEF Indirect, TypeOK, Pulse, pi, cycle, key, fetch
  <1>2. CASE NextAddress
    BY <1>2, SyncTypes DEF NextAddress, TypeOK, Pulse, cycle, key, fetch
  <1>3. CASE Address
    BY <1>3 DEF Address, TypeOK, Pulse, pi, cycle, key, fetch
  <1> QED
    BY <1>1, <1>2, <1>3 DEF Addresses

LEMMA ExecutesTypes ==
  ASSUME TypeOK, Executes
  PROVE  TypeOK'
  <1>1. CASE Et0
    BY <1>1, OneIsGranted DEF Et0, TypeOK, Pulse, cycle, fetch
  <1>2. CASE Et1
    BY <1>2 DEF Et1, TypeOK, Pulse, cycle, key, fetch
  <1>3. CASE Blk
    BY <1>3 DEF Blk, TypeOK, Pulse, Instruction, pi, key
  <1>4. CASE Uuo
    BY <1>4 DEF Uuo, TypeOK, Pulse, pi, cycle, key
  <1>5. CASE BltStart
    BY <1>5 DEF BltStart, TypeOK, Pulse, pi, cycle, key, fetch
  <1>6. CASE BltWord
    BY <1>6 DEF BltWord, Strobed, TypeOK, Pulse, cycle, key, fetch
  <1>7. CASE Cono
    <2>1. PICK reset, ask, on, off, activate, deactivate \in BOOLEAN :
            CONO(reset, ask, on, off, activate, deactivate)
      BY <1>7 DEF Cono
    <2>2. PICK chans \in SUBSET Channel :
            /\ pih' = IF reset THEN {} ELSE pih
            /\ pir' = ((IF reset THEN {} ELSE pir) \cup (IF ask THEN chans ELSE {}))
                        \ (IF reset THEN {} ELSE pih)
            /\ pio' = ((IF reset THEN {} ELSE pio) \cup (IF on THEN chans ELSE {}))
                        \ (IF off THEN chans ELSE {})
            /\ pi_active' = (activate \/ (pi_active /\ ~reset /\ ~deactivate))
      BY <2>1 DEF CONO
    <2>3. pih' \subseteq Channel /\ pir' \subseteq Channel /\ pio' \subseteq Channel
      BY <2>2 DEF TypeOK
    <2>4. pir' \cap pih' = {}
      BY <2>2
    <2>5. pi_active' \in BOOLEAN
      BY <2>2
    <2> QED
      BY <1>7, <2>3, <2>4, <2>5 DEF Cono, TypeOK, Pulse, cycle, key, fetch
  <1>8. CASE Skip
    BY <1>8 DEF Skip, TypeOK, Pulse, pi, cycle, key, fetch
  <1>9. CASE Other
    BY <1>9 DEF Other, TypeOK, Pulse, pi, cycle, key, fetch
  <1>10. CASE Et10
    BY <1>10 DEF Et10, TypeOK, Pulse, pi, key, fetch
  <1>11. CASE St7
    BY <1>11 DEF St7, TypeOK, Pulse, pi, cycle, key, fetch
  <1> QED
    BY <1>1, <1>2, <1>3, <1>4, <1>5, <1>6, <1>7, <1>8, <1>9, <1>10, <1>11
    DEF Executes

LEMMA OutsideTypes ==
  ASSUME TypeOK, Illegal \/ Keys \/ (\E i \in Channel : Request(i))
  PROVE  TypeOK'
  <1>1. CASE Illegal
    BY <1>1 DEF Illegal, TypeOK, Pulse, pi, cycle, key, fetch
  <1>2. CASE Stop
    BY <1>2 DEF Stop, TypeOK, pi, cycle, fetch
  <1>3. CASE StopOver
    BY <1>3 DEF StopOver, TypeOK, pi, cycle, fetch
  <1>4. CASE Go(FALSE) \/ Go(TRUE)
    BY <1>4 DEF Go, TypeOK, Pulse, pi, cycle, fetch
  <1>5. CASE IoReset
    BY <1>5 DEF IoReset, TypeOK, key, fetch
  <1>6. CASE \E i \in Channel : Request(i)
    BY <1>6 DEF Request, TypeOK, pi, cycle, key, fetch
  <1> QED
    BY <1>1, <1>2, <1>3, <1>4, <1>5, <1>6 DEF Keys

LEMMA NextTypes ==
  ASSUME TypeOK, [Next]_vars
  PROVE  TypeOK'
  <1>1. CASE UNCHANGED vars
    BY <1>1 DEF vars, TypeOK, pi, cycle, key, fetch
  <1> QED
    BY <1>1, FetchesTypes, AddressesTypes, ExecutesTypes, OutsideTypes
    DEF Next, Processor

(***************************************************************************)
(* The invariant                                                           *)
(***************************************************************************)

LEMMA InitInvariant == Init => IInv
  <1>1. Init => AskingIsVectored /\ NobodyAsks
    BY DEF Init, AskingIsVectored, NobodyAsks, Decoded
  <1> QED
    BY <1>1, InitTypes DEF IInv

LEMMA FetchesInvariant ==
  ASSUME IInv, Fetches
  PROVE  AskingIsVectored' /\ NobodyAsks'
  <1>1. CASE It0
    BY <1>1 DEF It0, AskingIsVectored, NobodyAsks, Decoded
  <1>2. CASE Interrupt
    <2>1. pi_req' = pi_req
      BY <1>2, AskingStays DEF Interrupt, pi
    <2> QED
      BY <1>2, <2>1 DEF Interrupt, AskingIsVectored, NobodyAsks, Decoded
  <1>3. CASE It1
    <2>1. pi_req' = pi_req
      BY <1>3, AskingStays DEF It1, pi
    <2> QED
      BY <1>3, <2>1 DEF It1, AskingIsVectored, NobodyAsks, Decoded, cycle
  <1>4. CASE Cut
    BY <1>4 DEF Cut, AskingIsVectored, NobodyAsks, Decoded
  <1>5. CASE Decode
    <2>1. pi_cyc => pi_req' = pi_req
      BY <1>5, AskingStays DEF Decode, pi_sync
    <2>2. pi_cyc => pi_req = {} \/ pi_req = ma
      BY <1>5 DEF Decode, IInv, AskingIsVectored
    <2> QED
      BY <1>5, <2>1, <2>2 DEF Decode, AskingIsVectored, NobodyAsks, Decoded, cycle
  <1> QED
    BY <1>1, <1>2, <1>3, <1>4, <1>5 DEF Fetches

LEMMA AddressesInvariant ==
  ASSUME IInv, Addresses
  PROVE  AskingIsVectored' /\ NobodyAsks'
  <1>1. CASE Indirect
    <2>1. pi_req' = pi_req
      BY <1>1, AskingStays DEF Indirect, pi
    <2> QED
      BY <1>1, <2>1
      DEF Indirect, IInv, AskingIsVectored, NobodyAsks, Decoded, cycle, fetch
  <1>2. CASE NextAddress
    <2>1. pi_cyc => pi_req' = pi_req
      BY <1>2, AskingStays DEF NextAddress, pi_sync
    <2> QED
      BY <1>2, <2>1
      DEF NextAddress, IInv, AskingIsVectored, NobodyAsks, Decoded, cycle, fetch
  <1>3. CASE Address
    <2>1. pi_req' = pi_req /\ (pi_rq' <=> pi_rq)
      BY <1>3, AskingStays DEF Address, pi
    <2> QED
      BY <1>3, <2>1
      DEF Address, IInv, AskingIsVectored, NobodyAsks, Decoded, ia_NOT_int,
          cycle, fetch
  <1> QED
    BY <1>1, <1>2, <1>3 DEF Addresses

\* What et0 leaves of the requests: none if it holds, all if it does not.
LEMMA Et0Invariant ==
  ASSUME IInv, Et0
  PROVE  AskingIsVectored' /\ NobodyAsks'
  <1>1. CASE pi_hold
    <2>1. pi_req' = {} /\ ~pi_rq'
      BY <1>1, HoldingSilences DEF Et0
    <2> QED
      BY <2>1 DEF Et0, AskingIsVectored, NobodyAsks, Decoded
  <1>2. CASE ~pi_hold
    <2>1. UNCHANGED <<pir, pih, pi_active>>
      BY <1>2 DEF Et0, IInv, TypeOK
    <2>2. pi_req' = pi_req /\ (pi_rq' <=> pi_rq)
      BY <2>1, AskingStays
    <2>3. pi_rst' => ~pi_cyc
      BY <1>2 DEF Et0, pi_rst, pi_hold, pi_blk_rst, Iot, cycle, fetch
    <2> QED
      BY <2>2, <2>3
      DEF Et0, IInv, AskingIsVectored, NobodyAsks, Decoded, cycle, fetch
  <1> QED
    BY <1>1, <1>2

LEMMA ExecutesInvariant ==
  ASSUME IInv, Executes
  PROVE  AskingIsVectored' /\ NobodyAsks'
  <1>1. CASE Et1
    <2>1. CASE ir \in {"blk", "xct", "uuo"}
      <3>1. UNCHANGED <<pir, pih, pi_active>>
        BY <1>1, <2>1 DEF Et1, Dismissed, pi_rst, pi_blk_rst
      <3>2. pi_req' = pi_req /\ (pi_rq' <=> pi_rq)
        BY <3>1, AskingStays
      <3> QED
        BY <1>1, <2>1, <3>2
        DEF Et1, IInv, AskingIsVectored, NobodyAsks, Decoded, cycle, fetch
    <2>2. CASE ir \notin {"blk", "xct", "uuo"}
      BY <1>1, <2>2 DEF Et1, AskingIsVectored, NobodyAsks, Decoded, fetch
    <2> QED
      BY <2>1, <2>2
  <1>2. CASE Blk
    <2>1. pi_req' = pi_req /\ (pi_rq' <=> pi_rq)
      BY <1>2, AskingStays DEF Blk, pi
    <2> QED
      BY <1>2, <2>1 DEF Blk, IInv, AskingIsVectored, NobodyAsks, Decoded
  <1>3. CASE Uuo
    <2>1. pi_req' = pi_req
      BY <1>3, AskingStays DEF Uuo, pi
    <2> QED
      BY <1>3, <2>1 DEF Uuo, IInv, AskingIsVectored, NobodyAsks, Decoded, cycle
  <1>4. CASE BltStart \/ BltWord \/ Cono \/ Skip \/ Other \/ Et10 \/ St7
    <2>1. at' \in {"blt_t4", "et10", "st7", "it0", "rest"}
      BY <1>4 DEF BltStart, BltWord, Cono, Skip, Other, Et10, St7
    <2> QED
      BY <2>1 DEF AskingIsVectored, NobodyAsks, Decoded
  <1> QED
    BY <1>1, <1>2, <1>3, <1>4, Et0Invariant DEF Executes

LEMMA OutsideInvariant ==
  ASSUME IInv, Illegal \/ Keys \/ (\E i \in Channel : Request(i)) \/ UNCHANGED vars
  PROVE  AskingIsVectored' /\ NobodyAsks'
  <1>1. CASE Illegal \/ Go(FALSE) \/ Go(TRUE) \/ IoReset
    <2>1. at' \in {"st7", "it0", "rest"}
      BY <1>1 DEF Illegal, Go, IoReset
    <2> QED
      BY <2>1 DEF AskingIsVectored, NobodyAsks, Decoded
  <1>2. CASE Stop \/ StopOver \/ (\E i \in Channel : Request(i)) \/ UNCHANGED vars
    <2>1. UNCHANGED <<pi, cycle, fetch, at>>
      BY <1>2 DEF Stop, StopOver, Request, vars
    <2>2. pi_req' = pi_req /\ (pi_rq' <=> pi_rq)
      BY <2>1, AskingStays DEF pi
    <2>3. pi_rst' <=> pi_rst
      BY <2>1 DEF pi_rst, pi_blk_rst, cycle, fetch
    <2> QED
      BY <2>1, <2>2, <2>3
      DEF IInv, AskingIsVectored, NobodyAsks, Decoded, cycle, fetch
  <1> QED
    BY <1>1, <1>2 DEF Keys

LEMMA NextInvariant ==
  ASSUME IInv, [Next]_vars
  PROVE  IInv'
  <1>1. TypeOK'
    BY NextTypes DEF IInv
  <1>2. AskingIsVectored' /\ NobodyAsks'
    BY FetchesInvariant, AddressesInvariant, ExecutesInvariant, OutsideInvariant
    DEF Next, Processor
  <1> QED
    BY <1>1, <1>2 DEF IInv

\* The invariant holds throughout.
THEOREM Invariance == Spec => []IInv
  BY InitInvariant, NextInvariant, PTL DEF Spec

\* Every register of the interrupt system keeps its range, and no channel
\* that is held asks as well.
THEOREM Types == Spec => []TypeOK
  <1>1. IInv => TypeOK
    BY DEF IInv
  <1> QED
    BY <1>1, Invariance, PTL

(***************************************************************************)
(* Holding and dismissing                                                  *)
(***************************************************************************)

\* What a step can do to the channels held.
LEMMA HeldChanges ==
  ASSUME IInv, [Next]_vars
  PROVE  \/ pih' = pih
         \/ pih' = {}
         \/ Et0 /\ pi_hold /\ pih' = pih \cup pi_req
         \/ Et1 /\ pi_rst /\ pih' = pih \ {i \in pih : pi_ok(i)}
  <1>1. CASE Fetches \/ Addresses
    BY <1>1 DEF Fetches, Addresses, It0, Interrupt, It1, Cut, Decode, Indirect,
                NextAddress, Address, pi
  <1>2. CASE Executes
    <2>1. CASE Et0
      BY <2>1 DEF Et0
    <2>2. CASE Et1
      BY <2>2 DEF Et1, Dismissed
    <2>3. CASE Cono
      BY <2>3 DEF Cono, CONO
    <2> QED
      BY <1>2, <2>1, <2>2, <2>3
      DEF Executes, Blk, Uuo, BltStart, BltWord, Skip, Other, Et10, St7, pi
  <1>3. CASE Illegal \/ Keys \/ (\E i \in Channel : Request(i)) \/ UNCHANGED vars
    BY <1>3 DEF Illegal, Keys, Stop, StopOver, Go, IoReset, Request, vars, pi
  <1> QED
    BY <1>1, <1>2, <1>3 DEF Next, Processor

\* The channel that becomes held is the one whose instruction was fetched.
THEOREM HoldsTheVectored == Spec => HeldAsVectored
  <1> DEFINE Step == pih' \ pih # {} =>
                       \E i \in Channel : pih' \ pih = {i} /\ ma = {i}
  <1>1. ASSUME IInv, [Next]_vars
        PROVE  Step
    <2>1. SUFFICES ASSUME pih' \ pih # {}
                   PROVE  \E i \in Channel : pih' \ pih = {i} /\ ma = {i}
      OBVIOUS
    <2>2. Et0 /\ pi_hold /\ pih' = pih \cup pi_req
      BY <1>1, <2>1, HeldChanges
    <2>3. pih' \ pih = pi_req
      BY <2>2 DEF pi_req
    <2>4. PICK i \in pi_req : TRUE
      BY <2>1, <2>3
    <2>5. pi_req = {i} /\ i \in Channel
      BY <1>1, <2>4, OneIsGranted DEF IInv
    <2>6. ma = pi_req
      BY <1>1, <2>2, <2>4 DEF IInv, AskingIsVectored, Decoded, Et0, pi_hold
    <2> QED
      BY <2>3, <2>5, <2>6
  <1>2. IInv /\ [Next]_vars => [Step]_vars
    BY <1>1
  <1> QED
    BY <1>2, Invariance, PTL DEF Spec, HeldAsVectored

\* A dismissal ends the highest level, whatever has been asked for meanwhile.
THEOREM DismissesTheHighest == Spec => DismissesHighest
  <1> DEFINE Step == at = "et1" /\ at' = "et3" /\ pi_rst /\ pi_active /\ pih # {}
                       => pih' = pih \ Levels!Highest(pih)
  <1>1. ASSUME IInv, [Next]_vars
        PROVE  Step
    <2>1. SUFFICES ASSUME at = "et1", at' = "et3", pi_rst, pi_active, pih # {}
                   PROVE  pih' = pih \ Levels!Highest(pih)
      OBVIOUS
    <2>2. Et1
      <3>1. ~Fetches /\ ~Addresses
        BY <2>1 DEF Fetches, Addresses, It0, Interrupt, It1, Cut, Decode, Indirect,
                    NextAddress, Address
      <3>2. Executes => Et1
        BY <2>1 DEF Executes, Et0, Blk, Uuo, BltStart, BltWord, Cono, Skip, Other,
                    Et10, St7
      <3>3. ~Illegal /\ ~Keys /\ ~(\E i \in Channel : Request(i)) /\ ~UNCHANGED vars
        BY <2>1 DEF Illegal, Keys, Stop, StopOver, Go, IoReset, Request, vars
      <3> QED
        BY <1>1, <3>1, <3>2, <3>3 DEF Next, Processor
    <2>3. pih' = pih \ {i \in pih : pi_ok(i)}
      BY <2>1, <2>2 DEF Et1, Dismissed
    <2>4. ~pi_rq
      BY <1>1, <2>1 DEF IInv, NobodyAsks
    <2> QED
      BY <1>1, <2>1, <2>3, <2>4, ChainReachesHighest DEF IInv
  <1>2. IInv /\ [Next]_vars => [Step]_vars
    BY <1>1
  <1> QED
    BY <1>2, Invariance, PTL DEF Spec, DismissesHighest

\* The interrupt system nests service: it implements PriorityLevels.
THEOREM Nests == Spec => Nested
  <1>1. Init => Levels!Init
    BY DEF Init, Levels!Init
  <1>2. ASSUME IInv, [Next]_vars
        PROVE  [Levels!Next]_pih
    <2>1. CASE pih' = pih
      BY <2>1
    <2>2. CASE pih' = {}
      BY <2>2 DEF Levels!Next, Levels!Clear
    <2>3. CASE Et0 /\ pi_hold /\ pih' = pih \cup pi_req
      <3>1. CASE pi_req = {}
        BY <2>3, <3>1
      <3>2. CASE pi_req # {}
        <4>1. PICK i \in pi_req : TRUE
          BY <3>2
        <4>2. pi_req = {i} /\ i \in Channel /\ \A j \in pih : i < j
          BY <1>2, <4>1, OneIsGranted DEF IInv
        <4>3. Levels!Take(i)
          BY <2>3, <4>2 DEF Levels!Take
        <4> QED
          BY <4>2, <4>3 DEF Levels!Next
      <3> QED
        BY <3>1, <3>2
    <2>4. CASE Et1 /\ pi_rst /\ pih' = pih \ {i \in pih : pi_ok(i)}
      <3>1. CASE pih = {}
        BY <2>4, <3>1
      <3>2. CASE ~pi_active
        BY <2>4, <3>2 DEF pi_ok
      <3>3. CASE pi_active /\ pih # {}
        <4>1. ~pi_rq
          BY <1>2, <2>4 DEF IInv, NobodyAsks, Et1
        <4>2. pih' = pih \ Levels!Highest(pih)
          BY <1>2, <2>4, <3>3, <4>1, ChainReachesHighest DEF IInv
        <4> QED
          BY <3>3, <4>2 DEF Levels!Next, Levels!Dismiss
      <3> QED
        BY <3>1, <3>2, <3>3
    <2> QED
      BY <1>2, <2>1, <2>2, <2>3, <2>4, HeldChanges
  <1>3. IInv /\ [Next]_vars => [Levels!Next]_pih
    BY <1>2
  <1> QED
    BY <1>1, <1>3, Invariance, PTL DEF Spec, Nested, Levels!Spec

(***************************************************************************)
(* PC.  An interrupt location must not hold an instruction that skips, nor *)
(* BLT: neither pc_inc_et9 nor a BLT's last word looks at pi_cyc.          *)
(***************************************************************************)

\* None of these in an interrupt cycle.
NoCounting ==
  /\ pi_cyc /\ (Decoded \/ at = "et3") => ir \notin Counting
  /\ at = "blt_t4" => ir = "blt" /\ ~pi_cyc

\* PC has not moved where the instruction may still be given up, nor in an
\* interrupt cycle until its last instruction is executed.
PcStands ==
  /\ at \in {"sync", "fetch", "at3"} => ~pcMoved
  /\ at = "ft0" /\ (pi_cyc \/ ir # "data") => ~pcMoved
  /\ at \in {"et1", "et3"} /\ (pi_cyc \/ ir \in {"xct", "uuo"}) => ~pcMoved
  /\ at = "et10" /\ pi_cyc => ~pcMoved
  /\ at \in {"st7", "it0", "rest"} /\ pi_cyc => ~pcMoved

PcInv == NoCounting /\ PcStands

LEMMA InitPc == Init => PcInv
  BY DEF Init, PcInv, NoCounting, PcStands, Decoded

LEMMA FetchesPc ==
  ASSUME Vector \cap Counting = {}, PcInv, Fetches
  PROVE  PcInv'
  <1>1. CASE It0
    BY <1>1 DEF It0, PcInv, NoCounting, Counting, PcStands, Decoded, cycle
  <1>2. CASE Interrupt
    BY <1>2 DEF Interrupt, PcInv, NoCounting, Counting, PcStands, Decoded
  <1>3. CASE It1
    BY <1>3 DEF It1, PcInv, NoCounting, Counting, PcStands, Decoded, cycle
  <1>4. CASE Cut
    BY <1>4 DEF Cut, PcInv, NoCounting, Counting, PcStands, Decoded, cycle
  <1>5. CASE Decode
    BY <1>5 DEF Decode, PcInv, NoCounting, Counting, PcStands, Decoded, cycle
  <1> QED
    BY <1>1, <1>2, <1>3, <1>4, <1>5 DEF Fetches

LEMMA AddressesPc ==
  ASSUME PcInv, Addresses
  PROVE  PcInv'
  BY DEF Addresses, Indirect, NextAddress, Address, PcInv, NoCounting, PcStands,
         Decoded, cycle, fetch

LEMMA ExecutesPc ==
  ASSUME TypeOK, PcInv, Executes
  PROVE  PcInv'
  <1>1. CASE Et0
    BY <1>1 DEF Et0, pc_inc_inh_et0, PcInv, NoCounting, Counting, PcStands, Decoded, cycle, fetch
  <1>2. CASE Et1
    BY <1>2 DEF Et1, PcInv, NoCounting, Counting, PcStands, Decoded, cycle, fetch
  <1>3. CASE Blk
    BY <1>3 DEF Blk, PcInv, NoCounting, Counting, PcStands, Decoded
  <1>4. CASE Uuo
    BY <1>4 DEF Uuo, PcInv, NoCounting, Counting, PcStands, Decoded, cycle
  <1>5. CASE BltStart \/ BltWord
    BY <1>5
    DEF BltStart, BltWord, PcInv, NoCounting, Counting, PcStands, Decoded, Iot, cycle, fetch
  <1>6. CASE Cono \/ Other
    BY <1>6 DEF Cono, Other, PcInv, NoCounting, Counting, PcStands, Decoded, cycle, fetch
  <1>7. CASE Skip
    BY <1>7 DEF Skip, PcInv, NoCounting, Counting, PcStands, Decoded, cycle, fetch
  <1>8. CASE Et10
    BY <1>8 DEF Et10, pi_hold, PcInv, NoCounting, Counting, PcStands, Decoded, fetch
  <1>9. CASE St7
    BY <1>9 DEF St7, PcInv, NoCounting, Counting, PcStands, Decoded, cycle, fetch
  <1> QED
    BY <1>1, <1>2, <1>3, <1>4, <1>5, <1>6, <1>7, <1>8, <1>9 DEF Executes

LEMMA OutsidePc ==
  ASSUME PcInv, Illegal \/ Keys \/ (\E i \in Channel : Request(i)) \/ UNCHANGED vars
  PROVE  PcInv'
  <1>1. CASE Illegal
    BY <1>1 DEF Illegal, PcInv, NoCounting, Counting, PcStands, Decoded, cycle
  <1>2. CASE Go(FALSE) \/ Go(TRUE)
    <2>1. at = "rest" /\ at' = "it0" /\ (pcMoved' => pcMoved) /\ UNCHANGED pi_cyc
      BY <1>2 DEF Go, cycle
    <2> QED
      BY <2>1 DEF PcInv, NoCounting, PcStands, Decoded
  <1>3. CASE IoReset
    BY <1>3 DEF IoReset, PcInv, NoCounting, PcStands, Decoded
  <1>4. CASE Stop \/ StopOver \/ (\E i \in Channel : Request(i)) \/ UNCHANGED vars
    BY <1>4 DEF Stop, StopOver, Request, vars, PcInv, NoCounting, PcStands, Decoded,
                cycle, fetch
  <1> QED
    BY <1>1, <1>2, <1>3, <1>4 DEF Keys

\* If no interrupt location holds, executes or leads to an instruction that
\* skips, or a BLT, whatever is given up for an interrupt is done after it: PC
\* names it when the interrupt instruction saves PC, and when the interrupt
\* cycle is over.
THEOREM PcNamesWhatIsUndone ==
  ASSUME Vector \cap Counting = {}
  PROVE  Spec => []PcNamesUndone
  <1>1. ASSUME TypeOK, PcInv, [Next]_vars
        PROVE  PcInv'
    BY <1>1, FetchesPc, AddressesPc, ExecutesPc, OutsidePc DEF Next, Processor
  <1>2. TypeOK /\ PcInv /\ [Next]_vars => PcInv'
    BY <1>1
  <1>3. PcInv => PcNamesUndone
    BY DEF PcInv, PcStands, PcNamesUndone
  <1> QED
    BY <1>2, <1>3, InitPc, Types, PTL DEF Spec

(***************************************************************************)
(* Block transfers.  An interrupt location must not hold XCT or what traps *)
(* to 40: either holds its channel at its own et0, and the word a BLK      *)
(* transfers under it, when it is the last, does not dismiss (pi_blk_rst   *)
(* looks at pi_ov and IR alone).                                           *)
(***************************************************************************)

\* The channel of MA is not held yet, unless the transfer at hand holds it,
\* above all others, to dismiss it a pulse later.
Free == pih \cap ma = {}
HeldForWord == pi_active /\ pih \cap ma \subseteq Levels!Highest(pih)

NothingUnder ==
  /\ pi_cyc /\ (Decoded \/ at = "et3") => ir \notin {"xct", "uuo"}
  /\ at = "blt_t4" => ir = "blt"


BlockInv ==
  /\ pi_cyc /\ (at = "fetch" \/ (Decoded /\ at # "et1")) => Free
  /\ pi_cyc /\ at = "et1" /\ (ir = "blk" \/ (ir = "data" /\ pi_ov)) => Free
  /\ pi_cyc /\ at = "et1" /\ ir = "data" => Free \/ HeldForWord
  /\ pi_cyc /\ at = "et3" /\ ir \in {"blk", "data"} => Free
  /\ pi_cyc /\ at = "et10" /\ ir = "data" => Free

WordInv == NothingUnder /\ BlockInv

LEMMA InitWord == Init => WordInv
  BY DEF Init, WordInv, NothingUnder, BlockInv, Decoded

LEMMA FetchesWord ==
  ASSUME "xct" \notin Vector, "uuo" \notin Vector, WordInv, Fetches
  PROVE  WordInv'
  <1>1. pi_req \cap pih = {}
    BY DEF pi_req
  <1>2. CASE It0
    BY <1>2 DEF It0, WordInv, NothingUnder, BlockInv, Decoded
  <1>3. CASE Interrupt
    BY <1>1, <1>3 DEF Interrupt, WordInv, NothingUnder, BlockInv, Free, Decoded, pi
  <1>4. CASE It1
    BY <1>1, <1>4 DEF It1, WordInv, NothingUnder, BlockInv, Free, Decoded, pi, cycle
  <1>5. CASE Cut
    BY <1>5 DEF Cut, WordInv, NothingUnder, BlockInv, Decoded
  <1>6. CASE Decode
    BY <1>6 DEF Decode, WordInv, NothingUnder, BlockInv, Free, Decoded, cycle
  <1> QED
    BY <1>2, <1>3, <1>4, <1>5, <1>6 DEF Fetches

LEMMA AddressesWord ==
  ASSUME WordInv, Addresses
  PROVE  WordInv'
  BY DEF Addresses, Indirect, NextAddress, Address, WordInv, NothingUnder, BlockInv,
         Free, Decoded, pi, cycle, fetch

\* What et0 holds is the highest held.
LEMMA Et0Word ==
  ASSUME IInv, WordInv, Et0
  PROVE  WordInv'
  <1>1. NothingUnder'
    BY DEF Et0, WordInv, NothingUnder, Decoded, cycle, fetch
  <1>2. at' = "et1" /\ UNCHANGED <<pi_cyc, pi_ov, ir, ma, pi_active>>
    BY DEF Et0, cycle, fetch
  <1>3. SUFFICES ASSUME pi_cyc, ir \in {"blk", "data"}
                 PROVE  IF ir = "data" /\ ~pi_ov THEN (Free \/ HeldForWord)' ELSE Free'
    BY <1>1, <1>2 DEF WordInv, BlockInv, Decoded
  <1>4. Free /\ (pi_req = {} \/ pi_req = ma)
    BY <1>3 DEF Et0, IInv, AskingIsVectored, WordInv, BlockInv, Decoded
  <1>5. CASE ~(ir = "data" /\ ~pi_ov)
    <2>1. pih' = pih
      BY <1>3, <1>5 DEF Et0, pi_hold, pi_blk_rst, Iot
    <2> QED
      BY <1>2, <1>4, <1>5, <2>1 DEF Free
  <1>6. CASE ir = "data" /\ ~pi_ov
    <2>1. pih' = pih \cup pi_req
      BY <1>3, <1>6 DEF Et0, pi_hold, pi_blk_rst
    <2>2. CASE pi_req = {}
      BY <1>2, <1>4, <1>6, <2>1, <2>2 DEF Free
    <2>3. CASE pi_req = ma /\ pi_req # {}
      <3>1. PICK i \in pi_req : TRUE
        BY <2>3
      <3>2. /\ pi_req = {i} /\ pi_active /\ i \in Nat
            /\ \A j \in pih : i < j /\ j \in Nat
        BY <3>1, OneIsGranted, InterruptsAssumption
        DEF IInv, TypeOK, Channel, pi_req, pi_ok
      <3>3. pih' \cap ma' = {i} /\ \A j \in pih' : i <= j
        BY <1>2, <2>1, <2>3, <3>2
      <3>4. HeldForWord'
        BY <1>2, <3>2, <3>3 DEF HeldForWord, Levels!Highest
      <3> QED
        BY <1>2, <1>6, <3>4
    <2> QED
      BY <1>4, <2>2, <2>3
  <1> QED
    BY <1>5, <1>6

\* And et1 dismisses it with the word.
LEMMA Et1Word ==
  ASSUME IInv, WordInv, Et1
  PROVE  WordInv'
  <1>1. NothingUnder'
    BY DEF Et1, WordInv, NothingUnder, Decoded, cycle, fetch
  <1>2. /\ at = "et1" /\ at' = "et3" /\ UNCHANGED <<pi_cyc, pi_ov, ir, ma>>
        /\ pih' = pih \ Dismissed
    BY DEF Et1, cycle, fetch
  <1>3. SUFFICES ASSUME pi_cyc, ir \in {"blk", "data"}
                 PROVE  Free'
    BY <1>1, <1>2 DEF WordInv, BlockInv, Decoded
  <1>4. CASE Free
    BY <1>2, <1>4 DEF Free
  <1>5. CASE ~Free
    <2>1. ir = "data" /\ ~pi_ov /\ HeldForWord
      BY <1>2, <1>3, <1>5 DEF WordInv, BlockInv
    <2>2. pi_rst
      BY <1>3, <2>1 DEF pi_rst, pi_blk_rst
    <2>3. ~pi_rq /\ pih # {}
      BY <1>2, <1>5, <2>2 DEF IInv, NobodyAsks, Free
    <2>4. Dismissed = Levels!Highest(pih)
      BY <2>1, <2>2, <2>3, ChainReachesHighest DEF Dismissed, HeldForWord, IInv
    <2> QED
      BY <1>2, <2>1, <2>4 DEF Free, HeldForWord
  <1> QED
    BY <1>4, <1>5

LEMMA ExecutesWord ==
  ASSUME IInv, WordInv, Executes
  PROVE  WordInv'
  <1>1. CASE Blk
    BY <1>1 DEF Blk, WordInv, NothingUnder, BlockInv, Free, Decoded, pi
  <1>2. CASE Uuo
    BY <1>2 DEF Uuo, WordInv, NothingUnder, BlockInv, Decoded, cycle
  <1>3. CASE BltStart \/ Cono \/ Skip \/ Et10 \/ St7
    BY <1>3 DEF BltStart, Cono, Skip, Et10, St7, WordInv, NothingUnder, BlockInv,
                Decoded, fetch
  <1>4. CASE BltWord
    <2>1. at = "blt_t4" /\ at' \in {"et10", "blt_t4"} /\ UNCHANGED <<pi_cyc, pih, ma, ir>>
      BY <1>4 DEF BltWord, cycle, fetch
    <2>2. ir # "data"
      BY <2>1 DEF WordInv, NothingUnder
    <2> QED
      BY <2>1, <2>2 DEF WordInv, NothingUnder, BlockInv, Decoded
  <1>5. CASE Other
    BY <1>5 DEF Other, WordInv, NothingUnder, BlockInv, Free, Decoded, pi, cycle, fetch
  <1> QED
    BY <1>1, <1>2, <1>3, <1>4, <1>5, Et0Word, Et1Word DEF Executes

LEMMA OutsideWord ==
  ASSUME WordInv, Illegal \/ Keys \/ (\E i \in Channel : Request(i)) \/ UNCHANGED vars
  PROVE  WordInv'
  <1>1. CASE Illegal \/ Go(FALSE) \/ Go(TRUE) \/ IoReset
    <2>1. at' \in {"st7", "it0", "rest"}
      BY <1>1 DEF Illegal, Go, IoReset
    <2> QED
      BY <2>1 DEF WordInv, NothingUnder, BlockInv, Decoded
  <1>2. CASE Stop \/ StopOver \/ (\E i \in Channel : Request(i)) \/ UNCHANGED vars
    <2>1. UNCHANGED <<pir, pih, pi_active, pi_cyc, pi_ov, if1a, ir, ma, at>>
      BY <1>2 DEF Stop, StopOver, Request, vars, pi, cycle, fetch
    <2> QED
      BY <2>1 DEF WordInv, NothingUnder, BlockInv, Free, HeldForWord, Decoded
  <1> QED
    BY <1>1, <1>2 DEF Keys

\* However requests come and go around a block transfer, and whichever channels
\* are held below, a word of it leaves its channel free.
THEOREM WordsFreeTheirChannel ==
  ASSUME "xct" \notin Vector, "uuo" \notin Vector
  PROVE  Spec => []WordFreesChannel
  <1>1. ASSUME IInv, WordInv, [Next]_vars
        PROVE  WordInv'
    BY <1>1, FetchesWord, AddressesWord, ExecutesWord, OutsideWord DEF Next, Processor
  <1>2. IInv /\ WordInv /\ [Next]_vars => WordInv'
    BY <1>1
  <1>3. WordInv => WordFreesChannel
    BY DEF WordInv, BlockInv, Free, WordFreesChannel
  <1> QED
    BY <1>2, <1>3, InitWord, Invariance, PTL DEF Spec
=============================================================================
