---------------------------- MODULE NonceProofs ----------------------------
(***************************************************************************)
(* The nonces and ids of OTXs: what a run has inserted so far extends the  *)
(* committed OTXs of its signer without gap or repetition, because the     *)
(* lock on the signer's noncestore row keeps every other transaction of    *)
(* that signer from acquiring a nonce until this one ends.                 *)
(***************************************************************************)
EXTENDS SigningProofs

(* The row lock: one open transaction per signer has acquired nonces.      *)
RowInv ==
    \A i, j \in Jobs :
        acquired[i] > 0 /\ acquired[j] > 0 /\ Signer(i) = Signer(j) => i = j

(* An uncommitted OTX of job j.                                            *)
PendOTX(j, p) ==
    /\ p.signer = Signer(j) /\ p.job = j /\ p.run = attempt[j]
    /\ p.nonce = nextNonce[Signer(j)] + p.idx - 1
    /\ p.idx <= acquired[j]
    /\ phase[j] = "nonce" => p.idx < acquired[j]
    /\ p.id < nextID

(* Each acquired nonce, except one still to be signed, has its one OTX.    *)
PendInv(j) ==
    /\ \A p \in pend[j] : PendOTX(j, p)
    /\ \A p, q \in pend[j] : /\ p.idx = q.idx => p = q
                             /\ p.idx < q.idx => p.id < q.id
    /\ \A i \in 1 .. acquired[j] :
          \/ phase[j] = "nonce" /\ i = acquired[j]
          \/ \E p \in pend[j] : p.idx = i

(* Uncommitted ids are above the visible ones of the same signer.          *)
FreshInv == \A j \in Jobs : \A p \in pend[j], o \in otx :
                o.signer = p.signer => o.id < p.id

(* The committed OTXs.                                                     *)
BooksInv ==
    /\ \A o \in otx : /\ FirstNonce[o.signer] <= o.nonce
                      /\ o.nonce < nextNonce[o.signer]
                      /\ o.id < nextID
    /\ \A s \in Signers :
          /\ FirstNonce[s] <= nextNonce[s]
          /\ \A n \in FirstNonce[s] .. nextNonce[s] - 1 :
                \E o \in otx : o.signer = s /\ o.nonce = n
    /\ \A o1, o2 \in otx : o1.signer = o2.signer =>
          /\ o1.nonce = o2.nonce => o1 = o2
          /\ o1.nonce < o2.nonce => o1.id < o2.id

NonceInv == RowInv /\ (\A j \in Jobs : PendInv(j)) /\ FreshInv /\ BooksInv

(* What TypeOK says of the numbers in play.                                *)
LEMMA NumbersLemma ==
    ASSUME TypeOK
    PROVE  /\ \A j \in Jobs : acquired[j] \in Nat /\ attempt[j] \in Nat
           /\ nextID \in Nat
           /\ nextNonce \in [Signers -> Nat]
           /\ FirstNonce \in [Signers -> Nat]
           /\ \A j \in Jobs : \A p \in pend[j] :
                 p.id \in Nat /\ p.nonce \in Nat /\ p.idx \in Nat \ {0}
                 /\ p.signer \in Signers
           /\ \A o \in otx : o.id \in Nat /\ o.nonce \in Nat /\ o.signer \in Signers
BY ConstantsAssumption DEF TypeOK, OTX, MaxBlock

(* A transaction that has acquired nothing has inserted nothing.           *)
LEMMA NothingLemma ==
    ASSUME Typed, NEW j \in Jobs, PendInv(j), ~(acquired[j] > 0)
    PROVE  acquired[j] = 0 /\ pend[j] = {}
BY NumbersLemma DEF Typed, PendInv, PendOTX

(* At the start no nonce has been handed out.                              *)
THEOREM NonceInit == Init => NonceInv
BY ConstantsAssumption DEF Init, NonceInv, RowInv, PendInv, FreshInv, BooksInv

(* Steps that acquire, insert, commit and roll back nothing.               *)
LEMMA NonceQuiet ==
    ASSUME Typed, NonceInv,
           UNCHANGED <<txVars, nextNonce, nextID, otx>>,
           \A j \in Jobs : acquired[j] > 0 =>
               /\ Signer(j)' = Signer(j) /\ attempt'[j] = attempt[j]
               /\ phase'[j] = "nonce" <=> phase[j] = "nonce"
    PROVE  NonceInv'
<1>1. RowInv'
  BY DEF NonceInv, RowInv, txVars
<1>2. ASSUME NEW j \in Jobs PROVE PendInv(j)'
  <2>1. CASE acquired[j] > 0
    BY <2>1 DEF NonceInv, PendInv, PendOTX, txVars
  <2>2. CASE ~(acquired[j] > 0)
    <3>1. acquired[j] = 0 /\ pend[j] = {}
      BY <2>2, NothingLemma DEF NonceInv
    <3> QED BY <3>1 DEF PendInv, txVars
  <2> QED BY <2>1, <2>2
<1>3. FreshInv' /\ BooksInv'
  BY DEF NonceInv, FreshInv, BooksInv, txVars
<1> QED BY <1>1, <1>2, <1>3 DEF NonceInv

(* A request touches no nonce.                                             *)
LEMMA NonceAPI ==
    ASSUME Typed, NonceInv, NEW r \in Requests, API(r)
    PROVE  NonceInv'
<1>1. PICK kind, from : Enqueue(r, kind, from)
  BY DEF API, transferHandler, sweepHandler, poolSwapHandler, poolDepositHandler,
     accountCreateHandler, methodEthSendTransaction, contractsERC20Handler,
     contractsDemurrageERC20Handler, contractsPoolHandler
<1>2. ~(acquired[r] > 0)
  BY <1>1, JobsLemma DEF Typed, JobInv, RunInv, Enqueue, InTx
<1>3. \A j \in Jobs : j # r => Signer(j)' = Signer(j)
  BY <1>1 DEF Enqueue, Signer, KindOf, Typed, TypeOK
<1> QED BY <1>1, <1>2, <1>3, NonceQuiet DEF Enqueue, dbVars

(* Starting, declining, reporting and rescuing a job touch no nonce.       *)
LEMMA NonceOutside ==
    ASSUME Typed, NonceInv, NEW j \in Jobs,
           \/ Start(j) \/ FaucetDeclines(j) \/ Report(j) \/ Rescue(j)
    PROVE  NonceInv'
<1>1. \A i \in Jobs : Signer(i)' = Signer(i)
  BY ArgsLemma DEF Start, FaucetDeclines, Report, Rescue, jobVars
<1>2. ~(acquired[j] > 0)
  <2>1. RunInv(j) /\ acquired[j] \in Nat
    BY NumbersLemma DEF Typed, JobInv
  <2> QED BY <2>1 DEF RunInv, Start, FaucetDeclines, Report, Rescue, InTx
<1>3. \A i \in Jobs : i # j => attempt'[i] = attempt[i] /\ phase'[i] = phase[i]
  BY DEF Start, FaucetDeclines, Report, Rescue, jobVars, Typed, TypeOK
<1> QED BY <1>1, <1>2, <1>3, NonceQuiet
        DEF Start, FaucetDeclines, Report, Rescue, dbVars

(* AcquireNonce takes the signer's row only when no other job holds it.    *)
LEMMA NonceAcquire ==
    ASSUME Typed, NonceInv, NEW j \in Jobs, AcquireNonce(j)
    PROVE  NonceInv'
<1>1. /\ acquired' = [acquired EXCEPT ![j] = @ + 1]
      /\ phase' = [phase EXCEPT ![j] = "nonce"] /\ phase[j] = "open"
      /\ UNCHANGED <<jobState, attempt, args, pend, nextNonce, nextID, otx>>
  BY DEF AcquireNonce, jobVars, dbVars
<1>2. \A i \in Jobs : Signer(i)' = Signer(i)
  BY <1>1, ArgsLemma
<1>3. RowInv'
  <2>1. \A i \in Jobs \ {j} : acquired[i] > 0 => Signer(i) # Signer(j)
    BY DEF AcquireNonce, RowLockedByOther
  <2> QED BY <1>1, <1>2, <2>1 DEF NonceInv, RowInv, Typed, TypeOK
<1>4. ASSUME NEW i \in Jobs PROVE PendInv(i)'
  <2>1. PendInv(i)
    BY DEF NonceInv
  <2>2. CASE i = j
    <3>1. acquired'[j] = acquired[j] + 1 /\ phase'[j] = "nonce"
      BY <1>1 DEF Typed, TypeOK
    <3>2. \A p \in pend[j] : PendOTX(j, p)'
      BY <1>1, <1>2, <2>1, <2>2, <3>1, NumbersLemma DEF PendInv, PendOTX, Typed
    <3>3. \A k \in 1 .. acquired[j] : \E p \in pend[j] : p.idx = k
      BY <1>1, <2>1, <2>2 DEF PendInv
    <3> QED BY <1>1, <2>1, <2>2, <3>1, <3>2, <3>3, NumbersLemma DEF PendInv, Typed
  <2>3. CASE i # j
    BY <1>1, <1>2, <2>1, <2>3 DEF PendInv, PendOTX, Typed, TypeOK
  <2> QED BY <2>2, <2>3
<1>5. FreshInv' /\ BooksInv'
  BY <1>1 DEF NonceInv, FreshInv, BooksInv
<1> QED BY <1>3, <1>4, <1>5 DEF NonceInv

(* InsertOTX uses the nonce acquired last, under a fresh id.               *)
LEMMA NonceInsert ==
    ASSUME Typed, NonceInv, NEW j \in Jobs, InsertOTX(j)
    PROVE  NonceInv'
<1>0. PICK new : new = NewOTX(j)
  OBVIOUS
<1>1. /\ pend' = [pend EXCEPT ![j] = @ \cup {new}]
      /\ phase' = [phase EXCEPT ![j] = "open"] /\ phase[j] = "nonce"
      /\ nextID' = nextID + 1
      /\ UNCHANGED <<jobState, attempt, args, acquired, nextNonce, otx>>
  BY <1>0 DEF InsertOTX, jobVars, dbVars
<1>2. \A i \in Jobs : Signer(i)' = Signer(i)
  BY <1>1, ArgsLemma
<1>3. /\ new.id = nextID /\ new.signer = Signer(j) /\ new.job = j
      /\ new.run = attempt[j] /\ new.idx = acquired[j]
      /\ new.nonce = nextNonce[Signer(j)] + new.idx - 1
  BY <1>0 DEF NewOTX
<1>4. acquired[j] > 0
  BY <1>1 DEF Typed, JobInv, RunInv
<1>5. RowInv'
  BY <1>1, <1>2 DEF NonceInv, RowInv
<1>6. ASSUME NEW i \in Jobs PROVE PendInv(i)'
  <2>1. PendInv(i)
    BY DEF NonceInv
  <2>2. CASE i = j
    <3>1. pend'[j] = pend[j] \cup {new} /\ phase'[j] = "open"
      BY <1>1 DEF Typed, TypeOK
    <3>2. \A p \in pend[j] : p.idx < new.idx /\ p.id < new.id
      BY <1>1, <1>3, <2>1, <2>2 DEF PendInv, PendOTX
    <3>3. \A p \in pend'[j] : PendOTX(j, p)'
      <4>1. \A p \in pend[j] : PendOTX(j, p)'
        BY <1>1, <1>2, <2>1, <2>2, <3>1, NumbersLemma DEF PendInv, PendOTX, Typed
      <4>2. PendOTX(j, new)'
        BY <1>1, <1>2, <1>3, <3>1, NumbersLemma DEF PendOTX, Typed
      <4> QED BY <3>1, <4>1, <4>2
    <3>4. \A p, q \in pend'[j] : /\ p.idx = q.idx => p = q
                                 /\ p.idx < q.idx => p.id < q.id
      <4>1. \A p \in pend[j] : p.idx \in Nat /\ p.id \in Nat
        BY NumbersLemma DEF Typed
      <4>2. new.idx \in Nat /\ new.id \in Nat
        BY <1>3, NumbersLemma DEF Typed
      <4> QED BY <2>1, <2>2, <3>1, <3>2, <4>1, <4>2 DEF PendInv
    <3>5. \A k \in 1 .. acquired[j] : \E p \in pend'[j] : p.idx = k
      <4> SUFFICES ASSUME NEW k \in 1 .. acquired[j]
                   PROVE  \E p \in pend'[j] : p.idx = k
        OBVIOUS
      <4>1. CASE k = acquired[j]
        BY <1>3, <3>1, <4>1
      <4>2. CASE k # acquired[j]
        <5>1. PendInv(j)
          BY <2>1, <2>2
        <5>2. \E p \in pend[j] : p.idx = k
          BY <4>2, <5>1 DEF PendInv
        <5> QED BY <3>1, <5>2
      <4> QED BY <4>1, <4>2
    <3> QED BY <1>1, <2>2, <3>3, <3>4, <3>5 DEF PendInv
  <2>3. CASE i # j
    BY <1>1, <1>2, <2>1, <2>3, NumbersLemma DEF PendInv, PendOTX, Typed, TypeOK
  <2> QED BY <2>2, <2>3
<1>7. FreshInv'
  <2>1. \A o \in otx : o.id < new.id
    BY <1>3 DEF NonceInv, BooksInv
  <2>2. \A i \in Jobs : \A p \in pend'[i] : p \in pend[i] \/ p = new
    BY <1>1 DEF Typed, TypeOK
  <2> QED BY <1>1, <2>1, <2>2 DEF NonceInv, FreshInv
<1>8. BooksInv'
  BY <1>1, NumbersLemma DEF NonceInv, BooksInv, Typed
<1> QED BY <1>5, <1>6, <1>7, <1>8 DEF NonceInv

(* A rollback gives back all nonces of the open transaction.               *)
LEMMA NonceRolledBack ==
    ASSUME Typed, NonceInv, NEW j \in Jobs, NEW outcome \in {"idle", "err"},
           phase' = [phase EXCEPT ![j] = outcome],
           acquired' = [acquired EXCEPT ![j] = 0],
           pend' = [pend EXCEPT ![j] = {}],
           UNCHANGED <<jobVars, dbVars, nextID>>
    PROVE  NonceInv'
<1>1. \A i \in Jobs : Signer(i)' = Signer(i)
  BY ArgsLemma DEF jobVars
<1>2. UNCHANGED <<jobState, attempt, args, nextNonce, nextID, otx>>
  BY DEF jobVars, dbVars
<1>3. acquired'[j] = 0 /\ pend'[j] = {}
  BY DEF Typed, TypeOK
<1>4. \A i \in Jobs \ {j} : /\ acquired'[i] = acquired[i] /\ pend'[i] = pend[i]
                            /\ phase'[i] = phase[i]
  BY DEF Typed, TypeOK
<1>5. RowInv'
  BY <1>1, <1>3, <1>4 DEF NonceInv, RowInv
<1>6. ASSUME NEW i \in Jobs PROVE PendInv(i)'
  <2>1. CASE i = j
    BY <1>3, <2>1 DEF PendInv
  <2>2. CASE i # j
    BY <1>1, <1>2, <1>4, <2>2 DEF NonceInv, PendInv, PendOTX
  <2> QED BY <2>1, <2>2
<1>7. FreshInv' /\ BooksInv'
  BY <1>2, <1>3, <1>4 DEF NonceInv, FreshInv, BooksInv
<1> QED BY <1>5, <1>6, <1>7 DEF NonceInv

(* What a commit adds: the block of nonces after those of its signer.      *)
LEMMA CommittedLemma ==
    ASSUME Typed, NonceInv, NEW j \in Jobs, Committed(j)
    PROVE  /\ Signer(j) \in Signers /\ acquired[j] \in 1 .. MaxBlock
           /\ otx' = otx \cup pend[j]
           /\ nextNonce' = [nextNonce EXCEPT ![Signer(j)] = @ + acquired[j]]
           /\ \A p \in pend[j] :
                 /\ p.signer = Signer(j)
                 /\ p.nonce = nextNonce[Signer(j)] + p.idx - 1
                 /\ p.idx \in 1 .. acquired[j]
                 /\ p.id \in Nat /\ p.id < nextID
           /\ \A n \in nextNonce[Signer(j)] .. nextNonce[Signer(j)] + acquired[j] - 1 :
                 \E p \in pend[j] : p.nonce = n
<1>1. jobState[j] # "none" /\ phase[j] = "open"
  BY DEF Committed, Typed, JobInv, RunInv
<1>2. Signer(j) \in Signers /\ acquired[j] \in 1 .. MaxBlock
  BY <1>1, SubmittedLemma DEF Committed
<1>3. PendInv(j)
  BY DEF NonceInv
<1>4. acquired[j] \in Nat /\ nextNonce[Signer(j)] \in Nat
  BY <1>2, NumbersLemma DEF Typed
<1>5. \A p \in pend[j] :
         /\ p.signer = Signer(j)
         /\ p.nonce = nextNonce[Signer(j)] + p.idx - 1
         /\ p.idx \in 1 .. acquired[j]
         /\ p.id \in Nat /\ p.id < nextID
  BY <1>3, <1>4, NumbersLemma DEF PendInv, PendOTX, Typed
<1>6. ASSUME NEW n \in nextNonce[Signer(j)] .. nextNonce[Signer(j)] + acquired[j] - 1
      PROVE  \E p \in pend[j] : p.nonce = n
  <2>1. n - nextNonce[Signer(j)] + 1 \in 1 .. acquired[j]
    BY <1>4
  <2>2. PICK p \in pend[j] : p.idx = n - nextNonce[Signer(j)] + 1
    BY <1>1, <1>3, <2>1 DEF PendInv
  <2>3. p.nonce = nextNonce[Signer(j)] + p.idx - 1
    BY <1>5
  <2> QED BY <1>4, <2>1, <2>2, <2>3
<1> QED BY <1>2, <1>5, <1>6 DEF Committed

(* A commit appends the block of nonces the job acquired.                  *)
LEMMA NonceCommitted ==
    ASSUME Typed, NonceInv, NEW j \in Jobs, Committed(j),
           NEW outcome \in {"ok", "err"}, phase' = [phase EXCEPT ![j] = outcome]
    PROVE  NonceInv'
<1>1. PICK s : s = Signer(j)
  OBVIOUS
<1>2. /\ s \in Signers /\ acquired[j] \in 1 .. MaxBlock
      /\ otx' = otx \cup pend[j]
      /\ nextNonce' = [nextNonce EXCEPT ![s] = @ + acquired[j]]
      /\ \A p \in pend[j] : /\ p.signer = s
                            /\ p.nonce = nextNonce[s] + p.idx - 1
                            /\ p.idx \in 1 .. acquired[j]
                            /\ p.id \in Nat /\ p.id < nextID
      /\ \A n \in nextNonce[s] .. nextNonce[s] + acquired[j] - 1 :
            \E p \in pend[j] : p.nonce = n
  BY <1>1, CommittedLemma
<1>3. \A i \in Jobs : Signer(i)' = Signer(i)
  BY ArgsLemma DEF Committed
<1>4. /\ acquired'[j] = 0 /\ pend'[j] = {} /\ attempt' = attempt /\ nextID' = nextID
      /\ \A i \in Jobs \ {j} : /\ acquired'[i] = acquired[i] /\ pend'[i] = pend[i]
                              /\ phase'[i] = phase[i]
  BY DEF Committed, Typed, TypeOK
<1>5. nextNonce'[s] = nextNonce[s] + acquired[j]
      /\ \A t \in Signers \ {s} : nextNonce'[t] = nextNonce[t]
  BY <1>2, NumbersLemma DEF Typed
<1>6. \A i \in Jobs \ {j} : acquired[i] > 0 => Signer(i) # s
  BY <1>1, <1>2, NumbersLemma DEF NonceInv, RowInv, Typed, MaxBlock
<1>7. \A i \in Jobs \ {j} : Signer(i) = s => pend[i] = {}
  BY <1>6, NothingLemma DEF NonceInv
<1>8. RowInv'
  BY <1>3, <1>4 DEF NonceInv, RowInv
<1>9. ASSUME NEW i \in Jobs PROVE PendInv(i)'
  <2>1. CASE i = j
    BY <1>4, <2>1 DEF PendInv
  <2>2. CASE i # j
    <3>1. PendInv(i)
      BY DEF NonceInv
    <3>2. \A p \in pend[i] : nextNonce'[Signer(i)] = nextNonce[Signer(i)]
      BY <1>5, <1>7, <2>2, <3>1, NumbersLemma DEF PendInv, PendOTX, Typed
    <3>3. \A p \in pend[i] : PendOTX(i, p)'
      BY <1>3, <1>4, <2>2, <3>1, <3>2 DEF PendInv, PendOTX
    <3> QED BY <1>4, <2>2, <3>1, <3>3 DEF PendInv
  <2> QED BY <2>1, <2>2
<1>10. FreshInv'
  <2> SUFFICES ASSUME NEW i \in Jobs, NEW p \in pend'[i], NEW o \in otx',
                      o.signer = p.signer
               PROVE  o.id < p.id
    BY DEF FreshInv
  <2>1. i # j /\ p \in pend[i]
    BY <1>4
  <2>2. p.signer # s
    BY <1>7, <2>1 DEF NonceInv, PendInv, PendOTX
  <2>3. o \in otx
    BY <1>2, <2>2
  <2> QED BY <2>1, <2>3 DEF NonceInv, FreshInv
<1>11. BooksInv'
  <2>1. ASSUME NEW o \in otx'
        PROVE  /\ FirstNonce[o.signer] <= o.nonce
               /\ o.nonce < nextNonce'[o.signer]
               /\ o.id < nextID'
    <3>1. CASE o \in otx
      BY <1>2, <1>4, <1>5, <3>1, NumbersLemma DEF NonceInv, BooksInv, Typed
    <3>2. CASE o \in pend[j]
      <4>1. FirstNonce[s] <= nextNonce[s]
        BY <1>2 DEF NonceInv, BooksInv
      <4> QED BY <1>2, <1>4, <1>5, <3>2, <4>1, NumbersLemma DEF Typed
    <3> QED BY <1>2, <3>1, <3>2
  <2>2. ASSUME NEW t \in Signers
        PROVE  /\ FirstNonce[t] <= nextNonce'[t]
               /\ \A n \in FirstNonce[t] .. nextNonce'[t] - 1 :
                     \E o \in otx' : o.signer = t /\ o.nonce = n
    <3>1. /\ FirstNonce[t] <= nextNonce[t]
          /\ \A n \in FirstNonce[t] .. nextNonce[t] - 1 :
                \E o \in otx : o.signer = t /\ o.nonce = n
      BY DEF NonceInv, BooksInv
    <3>2. CASE t = s
      <4>1. FirstNonce[s] \in Nat /\ nextNonce[s] \in Nat /\ acquired[j] \in Nat
        BY <1>2, NumbersLemma DEF Typed
      <4>2. FirstNonce[s] <= nextNonce'[s]
        BY <1>5, <3>1, <3>2, <4>1
      <4>3. ASSUME NEW n \in FirstNonce[s] .. nextNonce'[s] - 1
            PROVE  \E o \in otx' : o.signer = s /\ o.nonce = n
        <5>1. CASE n < nextNonce[s]
          <6>1. n \in FirstNonce[s] .. nextNonce[s] - 1
            BY <4>1, <5>1
          <6> QED BY <1>2, <3>1, <3>2, <6>1
        <5>2. CASE ~(n < nextNonce[s])
          <6>1. n \in nextNonce[s] .. nextNonce[s] + acquired[j] - 1
            BY <1>5, <4>1, <5>2
          <6> QED BY <1>2, <6>1
        <5> QED BY <5>1, <5>2
      <4> QED BY <3>2, <4>2, <4>3
    <3>3. CASE t # s
      BY <1>2, <1>5, <3>1, <3>3
    <3> QED BY <3>2, <3>3
  <2>3. ASSUME NEW o1 \in otx', NEW o2 \in otx', o1.signer = o2.signer
        PROVE  /\ o1.nonce = o2.nonce => o1 = o2
               /\ o1.nonce < o2.nonce => o1.id < o2.id
    <3>1. CASE o1 \in otx /\ o2 \in otx
      BY <2>3, <3>1 DEF NonceInv, BooksInv
    <3>2. CASE o1 \in pend[j] /\ o2 \in pend[j]
      <4>1. /\ o1.nonce = nextNonce[s] + o1.idx - 1
            /\ o2.nonce = nextNonce[s] + o2.idx - 1
            /\ nextNonce[s] \in Nat /\ o1.idx \in Nat /\ o2.idx \in Nat
        BY <1>2, <3>2, NumbersLemma DEF Typed
      <4>2. /\ o1.idx = o2.idx => o1 = o2
            /\ o1.idx < o2.idx => o1.id < o2.id
        BY <3>2 DEF NonceInv, PendInv
      <4> QED BY <4>1, <4>2
    <3>3. \A o \in otx, p \in pend[j] : o.signer = p.signer =>
              o.nonce < p.nonce /\ o.id < p.id
      <4> SUFFICES ASSUME NEW o \in otx, NEW p \in pend[j], o.signer = p.signer
                   PROVE  o.nonce < p.nonce /\ o.id < p.id
        OBVIOUS
      <4>1. o.id < p.id
        BY DEF NonceInv, FreshInv
      <4>2. o.nonce < nextNonce[s] /\ o.nonce \in Nat /\ nextNonce[s] \in Nat
        BY <1>2, NumbersLemma DEF NonceInv, BooksInv, Typed
      <4>3. p.nonce = nextNonce[s] + p.idx - 1 /\ p.idx \in Nat \ {0}
        BY <1>2, NumbersLemma DEF Typed
      <4> QED BY <4>1, <4>2, <4>3
    <3>4. \A o \in otx' : o.nonce \in Nat /\ o.id \in Nat
      BY <1>2, NumbersLemma DEF Typed
    <3> QED BY <1>2, <2>3, <3>1, <3>2, <3>3, <3>4
  <2> QED BY <2>1, <2>2, <2>3 DEF BooksInv
<1> QED BY <1>8, <1>9, <1>10, <1>11 DEF NonceInv

(* The activation of a key touches no nonce.                               *)
LEMMA NonceActivateKeyPair ==
    ASSUME Typed, NonceInv, NEW a \in Accounts, ActivateKeyPair(a)
    PROVE  NonceInv'
BY ArgsLemma, NonceQuiet DEF ActivateKeyPair, jobVars

(* Every step of the signing side keeps the books of nonces.               *)
THEOREM NonceNext == Typed /\ NonceInv /\ [Next]_vars => NonceInv'
<1> SUFFICES ASSUME Typed, NonceInv, [Next]_vars PROVE NonceInv'
  OBVIOUS
<1>1. CASE \E r \in Requests : API(r)
  BY <1>1, NonceAPI
<1>2. ASSUME NEW j \in Jobs, JobStep(j) PROVE NonceInv'
  <2>1. CASE Start(j) \/ FaucetDeclines(j) \/ Report(j) \/ Rescue(j)
    BY <2>1, NonceOutside
  <2>2. CASE AcquireNonce(j)
    BY <2>2, NonceAcquire
  <2>3. CASE InsertOTX(j)
    BY <2>3, NonceInsert
  <2>4. CASE Commit(j) \/ CommitReplyLost(j)
    BY <2>4, NonceCommitted DEF Commit, CommitReplyLost
  <2>5. CASE Fail(j) \/ KeyError(j) \/ Crash(j)
    BY <2>5, NonceRolledBack DEF Fail, KeyError, Rollback, Crash
  <2> QED BY <1>2, <2>1, <2>2, <2>3, <2>4, <2>5 DEF JobStep
<1>3. CASE \E a \in Accounts : ActivateKeyPair(a)
  BY <1>3, NonceActivateKeyPair
<1>4. CASE UNCHANGED vars
  BY <1>4, ArgsLemma, NonceQuiet DEF vars, txVars
<1> QED BY <1>1, <1>2, <1>3, <1>4 DEF Next

(* The books of nonces are right throughout.                               *)
THEOREM NonceInvariant == Spec => [](Typed /\ NonceInv)
BY TypedInit, TypedNext, NonceInit, NonceNext, PTL DEF Spec

(* No nonce of a signer is ever signed twice.                              *)
THEOREM NoNonceTwice == Spec => []NoncesUnique
<1>1. NonceInv => NoncesUnique
  BY DEF NonceInv, BooksInv, NoncesUnique
<1> QED BY <1>1, NonceInvariant, PTL

(* The committed OTXs of a signer use exactly the nonces below next_nonce. *)
THEOREM NoNonceSkipped == Spec => []NoncesWithoutGap
<1>1. Typed /\ NonceInv => NoncesWithoutGap
  <2> SUFFICES ASSUME Typed, NonceInv, NEW s \in Signers
               PROVE  {o.nonce : o \in {q \in otx : q.signer = s}}
                          = FirstNonce[s] .. nextNonce[s] - 1
    BY DEF NoncesWithoutGap
  <2>1. \A n \in FirstNonce[s] .. nextNonce[s] - 1 :
            \E o \in otx : o.signer = s /\ o.nonce = n
    BY DEF NonceInv, BooksInv
  <2>2. \A o \in otx : o.signer = s => o.nonce \in FirstNonce[s] .. nextNonce[s] - 1
    BY NumbersLemma DEF Typed, NonceInv, BooksInv
  <2> QED BY <2>1, <2>2
<1> QED BY <1>1, NonceInvariant, PTL

(* Listing a signer's OTXs by id lists them by nonce.                      *)
THEOREM IdOrderIsNonceOrder == Spec => []IdsFollowNonces
<1>1. Typed /\ NonceInv => IdsFollowNonces
  BY NumbersLemma DEF Typed, NonceInv, BooksInv, IdsFollowNonces
<1> QED BY <1>1, NonceInvariant, PTL

(* otx grows by the uncommitted OTXs of one run, or not at all.            *)
LEMMA GrowthLemma ==
    ASSUME [Next]_vars
    PROVE  \/ UNCHANGED <<otx, nextNonce>>
           \/ \E j \in Jobs : Committed(j)
BY DEF Next, API, transferHandler, sweepHandler, poolSwapHandler, poolDepositHandler,
   accountCreateHandler, methodEthSendTransaction, contractsERC20Handler,
   contractsDemurrageERC20Handler, contractsPoolHandler, Enqueue, JobStep, Start,
   AcquireNonce, InsertOTX, FaucetDeclines, Commit, CommitReplyLost, Fail, KeyError,
   Rollback, Report, Crash, Rescue, ActivateKeyPair, dbVars, vars

(* An OTX that becomes visible follows all visible ones of its signer.     *)
THEOREM NewestIdIsLargest == Spec => VisibleInIdOrder
<1>1. Typed /\ NonceInv /\ [Next]_vars =>
          [\A o \in otx' \ otx, p \in otx : o.signer = p.signer => p.id < o.id]_vars
  <2> SUFFICES ASSUME Typed, NonceInv, [Next]_vars, NEW o \in otx' \ otx, NEW p \in otx,
                      o.signer = p.signer
               PROVE  p.id < o.id
    OBVIOUS
  <2>1. PICK j \in Jobs : Committed(j)
    BY GrowthLemma
  <2>2. o \in pend[j]
    BY <2>1 DEF Committed
  <2> QED BY <2>2 DEF NonceInv, FreshInv
<1> QED BY <1>1, NonceInvariant, PTL DEF Spec, VisibleInIdOrder

(* Signing implements the nonce ledger: every commit hands out one block.  *)
THEOREM SigningImplementsLedger == Spec => LedgerSpec
<1> DEFINE signed == {[signer |-> o.signer, nonce |-> o.nonce] : o \in otx}
<1>1. Init => Ledger!Init
  BY DEF Init, Ledger!Init
<1>2. Typed /\ NonceInv /\ [Next]_vars => [Ledger!Next]_(Ledger!ledgerVars)
  <2> SUFFICES ASSUME Typed, NonceInv, [Next]_vars
               PROVE  [Ledger!Next]_(Ledger!ledgerVars)
    OBVIOUS
  <2>1. CASE UNCHANGED <<otx, nextNonce>>
    BY <2>1 DEF Ledger!ledgerVars
  <2>2. ASSUME NEW j \in Jobs, Committed(j)
        PROVE  Ledger!Next
    <3>1. PICK s : s = Signer(j)
      OBVIOUS
    <3>2. PICK k : k = acquired[j]
      OBVIOUS
    <3>3. /\ s \in Signers /\ k \in 1 .. MaxBlock
          /\ otx' = otx \cup pend[j]
          /\ nextNonce' = [nextNonce EXCEPT ![s] = @ + k]
          /\ \A p \in pend[j] : /\ p.signer = s
                                /\ p.nonce = nextNonce[s] + p.idx - 1
                                /\ p.idx \in 1 .. k
          /\ \A n \in nextNonce[s] .. nextNonce[s] + k - 1 :
                \E p \in pend[j] : p.nonce = n
      BY <2>2, <3>1, <3>2, CommittedLemma
    <3>4. \A p \in pend[j] : p.nonce \in nextNonce[s] .. nextNonce[s] + k - 1
      BY <3>3, NumbersLemma DEF Typed, MaxBlock
    <3>5. signed' = signed \cup {[signer |-> o.signer, nonce |-> o.nonce] : o \in pend[j]}
      BY <3>3
    <3>6. {[signer |-> o.signer, nonce |-> o.nonce] : o \in pend[j]}
              = {[signer |-> s, nonce |-> n] : n \in nextNonce[s] .. nextNonce[s] + k - 1}
      BY <3>3, <3>4
    <3>7. Ledger!Sign(s, k)
      BY <3>3, <3>5, <3>6 DEF Ledger!Sign, Ledger!Block
    <3> QED BY <3>3, <3>7 DEF Ledger!Next
  <2> QED BY <2>1, <2>2, GrowthLemma
<1> QED BY <1>1, <1>2, NonceInvariant, PTL DEF Spec, LedgerSpec, Ledger!Spec
============================================================================
