-------------------------- MODULE NonceLineProofs --------------------------
(***************************************************************************)
(* Proofs about the nonce line for every number of callbacks and wallets,  *)
(* from what LeaseLock promises of the nonce lock.                         *)
(***************************************************************************)
EXTENDS NonceLine, TLAPS

\* The callbacks under the lock, live or zombie, are those that run; a live
\* one has not lapsed and is alone on its wallet.
LockInv ==
    /\ \A t \in Txs : t \in live \cup zombies <=> pc[t] \in InFn
    /\ live \cap lapsed = {}
    /\ zombies \subseteq lapsed
    /\ \A t \in lapsed : pc[t] # "lock"
    /\ \A t, u \in live : t # u => WalletOf[t] # WalletOf[u]

\* A transaction the node took has its slot filled, by itself or by one that
\* replaced it, and a slot holds a transaction signed for it.
PlaceInv ==
    /\ \A t \in admitted :
          /\ pc[t] \in {"wait"} \cup Ended
          /\ slot[WalletOf[t]][nonce[t]] # NoTx
    /\ \A t \in Txs : pc[t] \in {"wait", "ok"} => t \in admitted
    /\ \A w \in Wallets, n \in Nonces :
          LET t == slot[w][n] IN
          t # NoTx => t \in admitted /\ WalletOf[t] = w /\ nonce[t] = n

\* Below the number of mined transactions, and below a nonce that was read,
\* every slot is filled.
FilledInv ==
    /\ NoHole
    /\ \A w \in Wallets, n \in Nonces : n < mined[w] => slot[w][n] # NoTx
    /\ \A t \in Txs : pc[t] = "send" =>
          \A i \in 0 .. nonce[t] - 1 : slot[WalletOf[t]][i] # NoTx

\* The nonce a callback has read stays its own until it broadcasts, except
\* for what lapsed callbacks do.
FreshInv ==
    \A t \in Txs : pc[t] = "send" /\ t \notin lapsed =>
        \A u \in admitted : SameSlot(t, u) => u \in lapsed

\* WaitMined answers with a receipt, and blocks are final.
ReceiptInv ==
    \A t \in Waits : pc[t] = "ok" => IsMined(WalletOf[t], nonce[t], t)

IndInv ==
    /\ TypeOK
    /\ LockInv
    /\ PlaceInv
    /\ FilledInv
    /\ FreshInv
    /\ UniqueNonce
    /\ ReceiptInv

USE TxsAssumption, NonceAssumption, CallersAssumption

\* The steps of callback t, by what they change.
Admission(t) == Broadcast(t) \/ BroadcastLostReply(t)

Ending(t) ==
    \/ FailsBeforeBroadcast(t) \/ BroadcastRefused(t)
    \/ WaitMined(t) \/ WaitTimeout(t) \/ Crash(t)

-----------------------------------------------------------------------------
LEMMA InitIndInv == Init => IndInv
<1> SUFFICES ASSUME Init
             PROVE  IndInv
  OBVIOUS
<1> USE DEF Init, ChainInit, Lock!Init
<1>1. TypeOK
  BY DEF TypeOK, ChainTypeOK, PCs, Nonces
<1>2. LockInv /\ PlaceInv
  BY DEF LockInv, PlaceInv, InFn
<1>3. FilledInv
  BY DEF FilledInv, NoHole, Nonces
<1>4. FreshInv /\ UniqueNonce /\ ReceiptInv
  BY DEF FreshInv, UniqueNonce, ReceiptInv
<1> QED
  BY <1>1, <1>2, <1>3, <1>4 DEF IndInv

\* Every step is of one of these shapes.
LEMMA StepCases ==
  ASSUME Next
  PROVE  \/ \E t \in Txs : \/ Enter(t) \/ LockFails(t) \/ ReadNonce(t)
                           \/ Admission(t) \/ Ending(t) \/ Lapse(t)
         \/ \E w \in Wallets : Block(w)
  BY DEF Next, Proceed, Admission, Ending

\* The nonce that was read ends the filled slots; nothing else changes.
LEMMA ReadFacts ==
  ASSUME TypeOK, NEW t \in Txs, ReadNonce(t)
  PROVE  /\ UNCHANGED <<slot, mined, reverted, live, zombies, admitted, lapsed>>
         /\ pc[t] = "read" /\ pc' = [pc EXCEPT ![t] = "send"]
         /\ \E n \in Nonces :
               /\ nonce' = [nonce EXCEPT ![t] = n]
               /\ slot[WalletOf[t]][n] = NoTx
               /\ \A i \in 0 .. n - 1 : slot[WalletOf[t]][i] # NoTx
  BY DEF ReadNonce, Goto, IsPendingNonce, chainVars, lockVars

\* A callback that ends gives the lock back and changes nothing else.
LEMMA EndingFacts ==
  ASSUME TypeOK, NEW t \in Txs, Ending(t)
  PROVE  /\ UNCHANGED <<slot, mined, reverted, nonce, admitted, lapsed>>
         /\ live' = live \ {t} /\ zombies' = zombies \ {t}
         /\ pc[t] \in InFn
         /\ \E e \in Ended :
               /\ pc' = [pc EXCEPT ![t] = e]
               /\ e = "ok" => /\ pc[t] = "wait"
                              /\ IsMined(WalletOf[t], nonce[t], t)
  BY DEF Ending, FailsBeforeBroadcast, BroadcastRefused, WaitMined,
         WaitTimeout, Crash, Return, Goto, Refuse, Lock!Leave, chainVars,
         Ended, InFn

\* The transaction gets the slot whose nonce it was signed with, which is not
\* mined yet, and the callback either waits or ends.
LEMMA AdmissionFacts ==
  ASSUME TypeOK, NEW t \in Txs, Admission(t)
  PROVE  /\ UNCHANGED <<mined, reverted, nonce, lapsed>>
         /\ pc[t] = "send"
         /\ nonce[t] >= mined[WalletOf[t]]
         /\ admitted' = admitted \cup {t}
         /\ slot' \in [Wallets -> [Nonces -> Txs \cup {NoTx}]]
         /\ \A w \in Wallets, n \in Nonces :
               slot'[w][n] = IF w = WalletOf[t] /\ n = nonce[t]
                             THEN t ELSE slot[w][n]
         /\ \/ /\ pc' = [pc EXCEPT ![t] = "wait"]
               /\ UNCHANGED <<live, zombies>>
            \/ /\ \E e \in {"ok", "failed"} :
                     /\ pc' = [pc EXCEPT ![t] = e]
                     /\ e = "ok" => t \notin Waits
               /\ live' = live \ {t} /\ zombies' = zombies \ {t}
<1> DEFINE w0 == WalletOf[t]
           n0 == nonce[t]
           row == [slot[w0] EXCEPT ![n0] = t]
<1>1. Admit(w0, n0, t)
  BY DEF Admission, Broadcast, BroadcastLostReply
<1>2. slot' = [slot EXCEPT ![w0] = row]
  BY <1>1 DEF Admit
<1>3. w0 \in Wallets /\ n0 \in Nonces /\ slot[w0] \in [Nonces -> Txs \cup {NoTx}]
  BY DEF TypeOK, ChainTypeOK
<1>4. row \in [Nonces -> Txs \cup {NoTx}]
        /\ \A n \in Nonces : row[n] = IF n = n0 THEN t ELSE slot[w0][n]
  BY <1>3
<1>5. slot' \in [Wallets -> [Nonces -> Txs \cup {NoTx}]]
  BY <1>2, <1>3, <1>4 DEF TypeOK, ChainTypeOK
<1>6. \A w \in Wallets, n \in Nonces :
         slot'[w][n] = IF w = w0 /\ n = n0 THEN t ELSE slot[w][n]
  BY <1>2, <1>3, <1>4 DEF TypeOK, ChainTypeOK
<1> HIDE DEF w0, n0, row
<1>7. /\ UNCHANGED <<mined, reverted, nonce, lapsed>>
      /\ pc[t] = "send"
      /\ nonce[t] >= mined[WalletOf[t]]
      /\ admitted' = admitted \cup {t}
  BY DEF Admission, Broadcast, BroadcastLostReply, Admit, Return, Goto, lockVars
<1>8. \/ /\ pc' = [pc EXCEPT ![t] = "wait"]
         /\ UNCHANGED <<live, zombies>>
      \/ /\ \E e \in {"ok", "failed"} :
               /\ pc' = [pc EXCEPT ![t] = e]
               /\ e = "ok" => t \notin Waits
         /\ live' = live \ {t} /\ zombies' = zombies \ {t}
  BY DEF Admission, Broadcast, BroadcastLostReply, Return, Goto, lockVars,
         Lock!Leave
<1> QED
  BY <1>5, <1>6, <1>7, <1>8 DEF w0, n0

-----------------------------------------------------------------------------
LEMMA TypeStep ==
  ASSUME IndInv, [Next]_vars
  PROVE  TypeOK'
<1> USE DEF IndInv, TypeOK, ChainTypeOK, PCs, InFn, Ended
<1>1. ASSUME NEW t \in Txs, Enter(t) \/ LockFails(t) \/ Lapse(t)
      PROVE  TypeOK'
  BY <1>1 DEF Enter, LockFails, Lapse, Goto, Lock!Acquire, Lock!Lapse,
              chainVars, lockVars
<1>2. ASSUME NEW t \in Txs, ReadNonce(t)
      PROVE  TypeOK'
  <2>1. PICK n \in Nonces :
           /\ nonce' = [nonce EXCEPT ![t] = n]
           /\ slot[WalletOf[t]][n] = NoTx
           /\ \A i \in 0 .. n - 1 : slot[WalletOf[t]][i] # NoTx
    BY <1>2, ReadFacts
  <2>2. nonce' \in [Txs -> Nonces] /\ pc' \in [Txs -> PCs]
    BY <1>2, <2>1, ReadFacts
  <2> QED
    BY <1>2, <2>2, ReadFacts
<1>3. ASSUME NEW t \in Txs, Admission(t)
      PROVE  TypeOK'
  BY <1>3, AdmissionFacts
<1>4. ASSUME NEW t \in Txs, Ending(t)
      PROVE  TypeOK'
  BY <1>4, EndingFacts
<1>5. ASSUME NEW w \in Wallets, Block(w)
      PROVE  TypeOK'
  <2>1. mined[w] \in Nonces
    BY <1>5 DEF Block, Mine, Nonces
  <2>2. slot[w][mined[w]] \in Txs
    BY <1>5, <2>1 DEF Block, Mine
  <2>3. mined' \in [Wallets -> 0 .. MaxNonce + 1]
    BY <1>5 DEF Block, Mine
  <2> QED
    BY <1>5, <2>2, <2>3 DEF Block, Mine, lockVars
<1>6. CASE UNCHANGED vars
  BY <1>6 DEF vars
<1> QED
  BY <1>1, <1>2, <1>3, <1>4, <1>5, <1>6, StepCases

\* The promise of the lock: at most one live callback on a wallet.
LEMMA LockStep ==
  ASSUME IndInv, [Next]_vars
  PROVE  LockInv'
<1> USE DEF IndInv, TypeOK, LockInv, PCs, InFn, Ended
<1>1. ASSUME NEW t \in Txs, Enter(t) \/ LockFails(t)
      PROVE  LockInv'
  BY <1>1 DEF Enter, LockFails, Goto, Lock!Acquire, lockVars
<1>2. ASSUME NEW t \in Txs, Lapse(t)
      PROVE  LockInv'
  BY <1>2 DEF Lapse, Lock!Lapse
<1>3. ASSUME NEW t \in Txs, ReadNonce(t)
      PROVE  LockInv'
  BY <1>3, ReadFacts
<1>4. ASSUME NEW t \in Txs, Admission(t)
      PROVE  LockInv'
  <2>1. lapsed' = lapsed /\ pc[t] = "send"
    BY <1>4, AdmissionFacts
  <2>2. \A u \in Txs : u # t => pc'[u] = pc[u]
    BY <1>4, AdmissionFacts
  <2>3. \/ /\ pc'[t] = "wait"
           /\ UNCHANGED <<live, zombies>>
        \/ /\ pc'[t] \in {"ok", "failed"}
           /\ live' = live \ {t} /\ zombies' = zombies \ {t}
    BY <1>4, AdmissionFacts
  <2> QED
    BY <2>1, <2>2, <2>3
<1>5. ASSUME NEW t \in Txs, Ending(t)
      PROVE  LockInv'
  BY <1>5, EndingFacts
<1>6. ASSUME NEW w \in Wallets, Block(w)
      PROVE  LockInv'
  BY <1>6 DEF Block, lockVars
<1>7. CASE UNCHANGED vars
  BY <1>7 DEF vars
<1> QED
  BY <1>1, <1>2, <1>3, <1>4, <1>5, <1>6, <1>7, StepCases

\* Slots are filled once and for all, with transactions signed for them.
LEMMA PlaceStep ==
  ASSUME IndInv, [Next]_vars
  PROVE  PlaceInv'
<1> USE DEF IndInv, TypeOK, ChainTypeOK, PlaceInv, PCs, InFn, Ended
<1>1. ASSUME NEW t \in Txs, Enter(t) \/ LockFails(t) \/ Lapse(t)
      PROVE  PlaceInv'
  BY <1>1 DEF Enter, LockFails, Lapse, Goto, chainVars
<1>2. ASSUME NEW t \in Txs, ReadNonce(t)
      PROVE  PlaceInv'
  <2>1. t \notin admitted /\ pc[t] = "read" /\ pc' = [pc EXCEPT ![t] = "send"]
    BY <1>2, ReadFacts
  <2>2. \A u \in Txs : u # t => nonce'[u] = nonce[u] /\ pc'[u] = pc[u]
    BY <1>2, <2>1, ReadFacts
  <2>3. UNCHANGED <<slot, admitted>>
    BY <1>2, ReadFacts
  <2> QED
    BY <2>1, <2>2, <2>3
<1>3. ASSUME NEW t \in Txs, Admission(t)
      PROVE  PlaceInv'
  BY <1>3, AdmissionFacts
<1>4. ASSUME NEW t \in Txs, Ending(t)
      PROVE  PlaceInv'
  <2>1. UNCHANGED <<slot, nonce, admitted>>
    BY <1>4, EndingFacts
  <2>2. \A u \in Txs : u # t => pc'[u] = pc[u]
    BY <1>4, EndingFacts
  <2>3. pc'[t] \in Ended /\ (pc'[t] = "ok" => t \in admitted)
    BY <1>4, EndingFacts
  <2> QED
    BY <2>1, <2>2, <2>3
<1>5. ASSUME NEW w \in Wallets, Block(w)
      PROVE  PlaceInv'
  BY <1>5 DEF Block, Mine
<1>6. CASE UNCHANGED vars
  BY <1>6 DEF vars
<1> QED
  BY <1>1, <1>2, <1>3, <1>4, <1>5, <1>6, StepCases

\* A slot is filled only directly after a filled one.
LEMMA FilledStep ==
  ASSUME IndInv, [Next]_vars
  PROVE  FilledInv'
<1> USE DEF IndInv, TypeOK, ChainTypeOK, FilledInv, NoHole, PCs, InFn, Ended
<1>1. ASSUME NEW t \in Txs, Enter(t) \/ LockFails(t) \/ Lapse(t)
      PROVE  FilledInv'
  BY <1>1 DEF Enter, LockFails, Lapse, Goto, chainVars
<1>2. ASSUME NEW t \in Txs, ReadNonce(t)
      PROVE  FilledInv'
  BY <1>2, ReadFacts
<1>3. ASSUME NEW t \in Txs, Admission(t)
      PROVE  FilledInv'
  <2> DEFINE w0 == WalletOf[t]
             n0 == nonce[t]
  <2>1. /\ w0 \in Wallets /\ n0 \in Nonces
        /\ \A i \in 0 .. n0 - 1 : slot[w0][i] # NoTx
    BY <1>3, AdmissionFacts
  <2>2. \A w \in Wallets, n \in Nonces :
           /\ slot[w][n] # NoTx => slot'[w][n] # NoTx
           /\ slot'[w][n] # NoTx => slot[w][n] # NoTx \/ (w = w0 /\ n = n0)
    BY <1>3, AdmissionFacts
  <2>3. slot'[w0][n0] # NoTx
    BY <1>3, <2>1, AdmissionFacts
  <2> HIDE DEF w0, n0
  <2>4. NoHole'
    <3> SUFFICES ASSUME NEW w \in Wallets, NEW n \in Nonces, slot'[w][n] # NoTx,
                        NEW i \in 0 .. n
                 PROVE  slot'[w][i] # NoTx
      OBVIOUS
    <3>1. i \in Nonces
      BY DEF Nonces
    <3> QED
      BY <2>1, <2>2, <2>3, <3>1 DEF Nonces
  <2>5. (\A w \in Wallets, n \in Nonces : n < mined[w] => slot[w][n] # NoTx)'
    BY <1>3, <2>2, AdmissionFacts
  <2>6. (\A u \in Txs : pc[u] = "send" =>
            \A i \in 0 .. nonce[u] - 1 : slot[WalletOf[u]][i] # NoTx)'
    <3> SUFFICES ASSUME NEW u \in Txs, pc'[u] = "send",
                        NEW i \in 0 .. nonce'[u] - 1
                 PROVE  slot'[WalletOf[u]][i] # NoTx
      OBVIOUS
    <3>1. nonce' = nonce /\ pc[u] = "send"
      <4>1. /\ nonce' = nonce
            /\ \E e \in {"wait", "ok", "failed"} : pc' = [pc EXCEPT ![t] = e]
        <5> HIDE DEF FilledInv, NoHole
        <5> QED BY <1>3, AdmissionFacts
      <4> QED BY <4>1 DEF TypeOK
    <3>2. i \in Nonces
      BY <3>1 DEF Nonces
    <3> QED
      BY <2>2, <3>1, <3>2
  <2> QED
    BY <2>4, <2>5, <2>6
<1>4. ASSUME NEW t \in Txs, Ending(t)
      PROVE  FilledInv'
  BY <1>4, EndingFacts
<1>5. ASSUME NEW w \in Wallets, Block(w)
      PROVE  FilledInv'
  BY <1>5 DEF Block, Mine, Nonces
<1>6. CASE UNCHANGED vars
  BY <1>6 DEF vars
<1> QED
  BY <1>1, <1>2, <1>3, <1>4, <1>5, <1>6, StepCases

\* Another transaction can get the nonce a callback has read only from a
\* callback that lapsed, because the live one is alone on its wallet.
LEMMA FreshStep ==
  ASSUME IndInv, [Next]_vars
  PROVE  FreshInv'
<1> USE DEF IndInv, TypeOK, FreshInv, SameSlot, PCs, InFn, Ended
<1>1. ASSUME NEW t \in Txs, Enter(t) \/ LockFails(t) \/ Lapse(t)
      PROVE  FreshInv'
  BY <1>1 DEF Enter, LockFails, Lapse, Goto
<1>2. ASSUME NEW t \in Txs, ReadNonce(t)
      PROVE  FreshInv'
  BY <1>2, ReadFacts DEF PlaceInv
<1>3. ASSUME NEW t \in Txs, Admission(t)
      PROVE  FreshInv'
  <2>1. ASSUME NEW u \in Txs, u # t, pc[u] = "send", u \notin lapsed,
               SameSlot(u, t)
        PROVE  t \in lapsed
    <3>1. u \in live /\ t \in live \cup zombies
      BY <1>3, <2>1, AdmissionFacts DEF LockInv
    <3> QED
      BY <2>1, <3>1 DEF LockInv
  <2> QED
    BY <1>3, <2>1, AdmissionFacts
<1>4. ASSUME NEW t \in Txs, Ending(t)
      PROVE  FreshInv'
  BY <1>4, EndingFacts
<1>5. ASSUME NEW w \in Wallets, Block(w)
      PROVE  FreshInv'
  BY <1>5 DEF Block
<1>6. CASE UNCHANGED vars
  BY <1>6 DEF vars
<1> QED
  BY <1>1, <1>2, <1>3, <1>4, <1>5, <1>6, StepCases

LEMMA UniqueStep ==
  ASSUME IndInv, [Next]_vars
  PROVE  UniqueNonce'
<1> USE DEF IndInv, TypeOK, UniqueNonce, SameSlot
<1>1. ASSUME NEW t \in Txs, Enter(t) \/ LockFails(t) \/ Lapse(t)
      PROVE  UniqueNonce'
  BY <1>1 DEF Enter, LockFails, Lapse
<1>2. ASSUME NEW t \in Txs, ReadNonce(t)
      PROVE  UniqueNonce'
  BY <1>2, ReadFacts DEF PlaceInv, Ended
<1>3. ASSUME NEW t \in Txs, Admission(t)
      PROVE  UniqueNonce'
  <2>1. UNCHANGED <<nonce, lapsed>> /\ admitted' = admitted \cup {t}
    BY <1>3, AdmissionFacts
  <2>2. ASSUME NEW u \in admitted, SameSlot(t, u)
        PROVE  {t, u} \cap lapsed # {}
    BY <1>3, <2>2, AdmissionFacts DEF FreshInv
  <2> QED
    BY <2>1, <2>2
<1>4. ASSUME NEW t \in Txs, Ending(t)
      PROVE  UniqueNonce'
  BY <1>4, EndingFacts
<1>5. ASSUME NEW w \in Wallets, Block(w)
      PROVE  UniqueNonce'
  BY <1>5 DEF Block
<1>6. CASE UNCHANGED vars
  BY <1>6 DEF vars
<1> QED
  BY <1>1, <1>2, <1>3, <1>4, <1>5, <1>6, StepCases

\* A mined slot is never given to another transaction.
LEMMA ReceiptStep ==
  ASSUME IndInv, [Next]_vars
  PROVE  ReceiptInv'
<1> USE DEF IndInv, TypeOK, ChainTypeOK, ReceiptInv, IsMined, PCs, InFn, Ended
<1>1. ASSUME NEW t \in Txs, Enter(t) \/ LockFails(t) \/ Lapse(t)
      PROVE  ReceiptInv'
  BY <1>1 DEF Enter, LockFails, Lapse, Goto, chainVars
<1>2. ASSUME NEW t \in Txs, ReadNonce(t)
      PROVE  ReceiptInv'
  BY <1>2, ReadFacts
<1>3. ASSUME NEW t \in Txs, Admission(t)
      PROVE  ReceiptInv'
  <2> SUFFICES ASSUME NEW u \in Waits, pc'[u] = "ok"
               PROVE  IsMined(WalletOf[u], nonce[u], u)'
    OBVIOUS
  <2>1. pc[u] = "ok"
    BY <1>3, AdmissionFacts
  <2>2. IsMined(WalletOf[u], nonce[u], u)
    BY <2>1
  <2>3. ~(WalletOf[u] = WalletOf[t] /\ nonce[u] = nonce[t])
    BY <1>3, <2>2, AdmissionFacts DEF Nonces
  <2> QED
    BY <1>3, <2>2, <2>3, AdmissionFacts
<1>4. ASSUME NEW t \in Txs, Ending(t)
      PROVE  ReceiptInv'
  BY <1>4, EndingFacts
<1>5. ASSUME NEW w \in Wallets, Block(w)
      PROVE  ReceiptInv'
  BY <1>5 DEF Block, Mine, Nonces
<1>6. CASE UNCHANGED vars
  BY <1>6 DEF vars
<1> QED
  BY <1>1, <1>2, <1>3, <1>4, <1>5, <1>6, StepCases

THEOREM IndInvHolds == Spec => []IndInv
<1>1. IndInv /\ [Next]_vars => IndInv'
  BY TypeStep, LockStep, PlaceStep, FilledStep, FreshStep, UniqueStep,
     ReceiptStep DEF IndInv
<1> QED
  BY InitIndInv, <1>1, PTL DEF Spec

-----------------------------------------------------------------------------
\* The state of the callbacks, the lock and the chain is of its type.
THEOREM TypeCorrect == Spec => []TypeOK
<1>1. IndInv => TypeOK
  BY DEF IndInv
<1> QED
  BY IndInvHolds, <1>1, PTL

\* Reading the pending nonce under the lock gives each transaction of a
\* wallet its own nonce, unless a lease lapsed.
THEOREM UniqueNonceHolds == Spec => []UniqueNonce
<1>1. IndInv => UniqueNonce
  BY DEF IndInv
<1> QED
  BY IndInvHolds, <1>1, PTL

\* No nonce of a wallet is skipped, lapsed leases or not.
THEOREM NoHoleHolds == Spec => []NoHole
<1>1. IndInv => NoHole
  BY DEF IndInv, FilledInv
<1> QED
  BY IndInvHolds, <1>1, PTL

\* An answered transaction is on its wallet's line.
THEOREM AnsweredTxStandsHolds == Spec => []AnsweredTxStands
<1>1. IndInv => AnsweredTxStands
  <2> SUFFICES ASSUME IndInv, NEW t \in Txs, pc[t] = "ok", t \notin Waits
               PROVE  LET u == slot[WalletOf[t]][nonce[t]]
                      IN  u = t \/ {t, u} \cap lapsed # {}
    BY DEF IndInv, ReceiptInv, AnsweredTxStands
  <2> DEFINE u == slot[WalletOf[t]][nonce[t]]
  <2>1. t \in admitted /\ u # NoTx
    BY DEF IndInv, PlaceInv
  <2>2. u \in admitted /\ SameSlot(u, t)
    BY <2>1 DEF IndInv, TypeOK, PlaceInv, SameSlot
  <2> QED
    BY <2>1, <2>2 DEF IndInv, UniqueNonce, SameSlot
<1> QED
  BY IndInvHolds, <1>1, PTL
=============================================================================
