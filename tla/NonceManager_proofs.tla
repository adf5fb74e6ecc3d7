------------------------- MODULE NonceManager_proofs -------------------------
(***************************************************************************)
(* Proofs about the nonces of Ethereum transfers, for any number of calls: *)
(* the lock, as long as it does not expire under its holder, does what it  *)
(* is there for.                                                           *)
(***************************************************************************)
EXTENDS NonceManager, TLAPS

(* Who is past acquireLock holds the lock.                                 *)
HolderInv == \A s \in Senders : pc[s] \in Locked => holder = s

(* Redis is ahead of the chain, and a nonce that was just taken is free.   *)
StoredInv ==
    /\ mined <= stored
    /\ \A n \in Nonces : pool[n] # Nobody => n < stored
    /\ \A s \in Senders :
         /\ pc[s] = "set" => stored <= nonce[s]
         /\ pc[s] = "send" => nonce[s] = stored - 1

LockedInv == TypeOK /\ HolderInv /\ StoredInv /\ NonceIsFree

(* Once a lock has expired under its holder nothing but the types is left. *)
NonceInv == TypeOK /\ (expiries = 0 => LockedInv)

(* Every step leaves every variable in its type, locks expiring or not.    *)
LEMMA NonceTypeStep ==
    ASSUME TypeOK, [Next]_vars
    PROVE  TypeOK'
<1> USE NonceAssumption DEF TypeOK, Nonces, Pc, Locked, Goto, Throws
<1>1. ASSUME NEW s \in Senders, AcquireLock(s) PROVE TypeOK'
  BY <1>1 DEF AcquireLock, chain
<1>2. ASSUME NEW s \in Senders, GetTransactionCount(s) PROVE TypeOK'
  <2>1. PICK n \in mined .. MaxNonce : seen' = [seen EXCEPT ![s] = n]
    BY <1>2 DEF GetTransactionCount
  <2> QED BY <1>2, <2>1 DEF GetTransactionCount, redis, chain
<1>3. ASSUME NEW s \in Senders, GetNonce(s) PROVE TypeOK'
  BY <1>3 DEF GetNonce, redis, chain
<1>4. ASSUME NEW s \in Senders, SetNonce(s) PROVE TypeOK'
  BY <1>4 DEF SetNonce, chain
<1>5. ASSUME NEW s \in Senders, Send(s) PROVE TypeOK'
  <2>1. pool' \in [Nonces -> Senders \cup {Nobody}]
    BY <1>5 DEF Send
  <2>2. pc' \in [Senders -> Pc] /\ UNCHANGED <<seen, nonce, redis, mined, expiries, faults>>
    BY <1>5 DEF Send
  <2> QED BY <2>1, <2>2 DEF redis
<1>6. ASSUME NEW s \in Senders, WaitEnds(s) PROVE TypeOK'
  BY <1>6 DEF WaitEnds, redis, chain
<1>7. ASSUME NEW s \in Senders, ReleaseLock(s) PROVE TypeOK'
  BY <1>7 DEF ReleaseLock, chain
<1>8. ASSUME NEW s \in Senders, CallThrows(s) \/ SenderCrashes(s) PROVE TypeOK'
  BY <1>8 DEF CallThrows, SenderCrashes, redis, chain
<1>9. CASE LockExpires
  BY <1>9 DEF LockExpires, chain
<1>10. CASE Mine
  BY <1>10 DEF Mine, redis
<1>11. CASE UNCHANGED vars
  BY <1>11 DEF vars, redis, chain
<1> QED
  BY <1>1, <1>2, <1>3, <1>4, <1>5, <1>6, <1>7, <1>8, <1>9, <1>10, <1>11
     DEF Next, SenderStep

(* An expiry is counted and stays counted.                                 *)
LEMMA ExpiryStep ==
    ASSUME TypeOK, [Next]_vars, expiries' = 0
    PROVE  expiries = 0 /\ ~ LockExpires
<1>1. expiries \in Nat
  BY NonceAssumption DEF TypeOK
<1>2. ~ LockExpires
  BY <1>1 DEF LockExpires
<1>3. UNCHANGED expiries
  BY <1>2 DEF Next, vars, SenderStep, AcquireLock, GetTransactionCount,
     GetNonce, SetNonce, Send, WaitEnds, ReleaseLock, CallThrows,
     SenderCrashes, Mine
<1> QED BY <1>2, <1>3

(* Without expiry the lock passes from one call to the next only through   *)
(* its release.                                                            *)
LEMMA HolderStep ==
    ASSUME LockedInv, [Next]_vars, expiries' = 0
    PROVE  HolderInv'
<1> USE NonceAssumption DEF LockedInv, TypeOK, HolderInv, Pc, Locked, Goto
<1>1. ASSUME NEW s \in Senders, AcquireLock(s) PROVE HolderInv'
  BY <1>1 DEF AcquireLock
<1>2. ASSUME NEW s \in Senders,
             \/ GetTransactionCount(s) \/ GetNonce(s) \/ SetNonce(s) \/ Send(s)
             \/ WaitEnds(s) \/ CallThrows(s) \/ SenderCrashes(s)
      PROVE  HolderInv'
  <2>1. UNCHANGED holder /\ pc[s] \in Locked
    BY <1>2 DEF GetTransactionCount, GetNonce, SetNonce, Send, WaitEnds,
                CallThrows, SenderCrashes, redis
  <2>2. \A t \in Senders : t # s => pc'[t] = pc[t]
    BY <1>2 DEF GetTransactionCount, GetNonce, SetNonce, Send, WaitEnds,
                CallThrows, SenderCrashes
  <2> QED BY <2>1, <2>2
<1>3. ASSUME NEW s \in Senders, ReleaseLock(s) PROVE HolderInv'
  BY <1>3 DEF ReleaseLock
<1>4. ~ LockExpires
  BY ExpiryStep
<1>5. CASE Mine \/ UNCHANGED vars
  BY <1>5 DEF Mine, vars, redis
<1> QED BY <1>1, <1>2, <1>3, <1>4, <1>5 DEF Next, SenderStep

(* Only the holder of the lock moves the stored nonce, and nothing that is *)
(* sent meanwhile has a nonce as high.                                     *)
LEMMA StoredStep ==
    ASSUME LockedInv, [Next]_vars, expiries' = 0
    PROVE  StoredInv' /\ NonceIsFree'
<1> USE NonceAssumption
    DEF LockedInv, TypeOK, HolderInv, StoredInv, NonceIsFree, Nonces, Pc, Locked, Goto
<1>1. ASSUME NEW s \in Senders,
             \/ AcquireLock(s) \/ GetTransactionCount(s) \/ WaitEnds(s)
             \/ ReleaseLock(s) \/ CallThrows(s) \/ SenderCrashes(s)
      PROVE  StoredInv' /\ NonceIsFree'
  <2>1. UNCHANGED <<stored, nonce, pool, mined>>
    BY <1>1 DEF AcquireLock, GetTransactionCount, WaitEnds, ReleaseLock,
                CallThrows, SenderCrashes, redis, chain
  <2>2. /\ pc'[s] \notin {"set", "send"}
        /\ \A t \in Senders : t # s => pc'[t] = pc[t]
    BY <1>1 DEF AcquireLock, GetTransactionCount, WaitEnds, ReleaseLock,
                CallThrows, SenderCrashes
  <2> QED BY <2>1, <2>2
<1>2. ASSUME NEW s \in Senders, GetNonce(s) PROVE StoredInv' /\ NonceIsFree'
  BY <1>2 DEF GetNonce, redis, chain
<1>3. ASSUME NEW s \in Senders, SetNonce(s) PROVE StoredInv' /\ NonceIsFree'
  <2>1. /\ stored <= nonce[s] /\ stored' = nonce[s] + 1 /\ pool[nonce[s]] = Nobody
        /\ UNCHANGED <<nonce, pool, mined>>
    BY <1>3 DEF SetNonce, chain
  <2>2. \A t \in Senders : t # s => pc'[t] = pc[t] /\ pc[t] \notin Locked
    BY <1>3 DEF SetNonce
  <2>3. pc'[s] \in {"send", "release"}
    BY <1>3 DEF SetNonce
  <2>4. \A t \in Senders : pc'[t] \in {"set", "send"} => t = s
    BY <2>2
  <2>5. mined' <= stored'
    BY <2>1
  <2>6. ASSUME NEW n \in Nonces, pool'[n] # Nobody PROVE n < stored'
    BY <2>1, <2>6
  <2>7. \A t \in Senders :
          /\ pc'[t] = "set" => stored' <= nonce'[t]
          /\ pc'[t] = "send" => nonce'[t] = stored' - 1
    <3>1. nonce'[s] = stored' - 1
      <4>1. nonce[s] \in Int
        OBVIOUS
      <4> QED BY <2>1, <4>1
    <3> QED BY <2>3, <2>4, <3>1
  <2>8. \A t \in Senders :
          pc'[t] = "send" => mined' <= nonce'[t] /\ pool'[nonce'[t]] = Nobody
    BY <2>1, <2>3, <2>4
  <2> QED BY <2>5, <2>6, <2>7, <2>8
<1>4. ASSUME NEW s \in Senders, Send(s) PROVE StoredInv' /\ NonceIsFree'
  <2>1. /\ nonce[s] < stored
        /\ pool' = [pool EXCEPT ![nonce[s]] = s] \/ UNCHANGED pool
        /\ UNCHANGED <<stored, nonce, mined>>
    BY <1>4 DEF Send, redis
  <2>2. \A t \in Senders : t # s => pc'[t] = pc[t] /\ pc[t] \notin Locked
    BY <1>4 DEF Send
  <2>3. pc'[s] \in {"wait", "release"}
    BY <1>4 DEF Send
  <2> QED BY <2>1, <2>2, <2>3
<1>5. CASE Mine
  <2>1. /\ mined' = mined + 1 /\ mined < stored /\ pool[mined] # Nobody
        /\ UNCHANGED <<pc, stored, nonce, pool>>
    BY <1>5 DEF Mine, redis
  <2>2. \A s \in Senders : pc[s] = "send" => mined # nonce[s]
    BY <2>1
  <2> QED BY <2>1, <2>2
<1>6. ~ LockExpires
  BY ExpiryStep
<1>7. CASE UNCHANGED vars
  BY <1>7 DEF vars, redis, chain
<1> QED BY <1>1, <1>2, <1>3, <1>4, <1>5, <1>6, <1>7 DEF Next, SenderStep

(* Types hold whatever expires.                                            *)
THEOREM NonceTypes == Spec => []TypeOK
<1>1. Init => TypeOK
  BY NonceAssumption DEF Init, TypeOK, Nonces, Pc
<1> QED BY <1>1, NonceTypeStep, PTL DEF Spec

(* As long as no call has outlived its lock, no two transactions of the    *)
(* wallet are sent with the same nonce, whatever fails or dies             *)
(* (nonce-manager.ts under buildAndSendTransfer of ethereum/adapter.ts).   *)
THEOREM NoncesDoNotConflict == Spec => []LockedNonceIsFree
<1>1. Init => NonceInv
  BY NonceAssumption DEF Init, NonceInv, LockedInv, TypeOK, HolderInv,
     StoredInv, NonceIsFree, Nonces, Pc, Locked
<1>2. ASSUME NonceInv, [Next]_vars PROVE NonceInv'
  <2>1. TypeOK'
    BY <1>2, NonceTypeStep DEF NonceInv
  <2>2. ASSUME expiries' = 0 PROVE LockedInv'
    <3>1. expiries = 0
      BY <1>2, <2>2, ExpiryStep DEF NonceInv
    <3>2. LockedInv
      BY <1>2, <3>1 DEF NonceInv
    <3> QED BY <1>2, <2>1, <2>2, <3>2, HolderStep, StoredStep DEF LockedInv
  <2> QED BY <2>1, <2>2 DEF NonceInv
<1>3. NonceInv => LockedNonceIsFree
  BY DEF NonceInv, LockedInv, LockedNonceIsFree
<1> QED BY <1>1, <1>2, <1>3, PTL DEF Spec
=============================================================================
