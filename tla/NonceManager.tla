---------------------------- MODULE NonceManager ----------------------------
(***************************************************************************)
(* packages/chain-adapters/src/ethereum: buildAndSendTransfer of           *)
(* adapter.ts with the Redis lock and the stored nonce of                  *)
(* nonce-manager.ts, one step per awaited call, for calls that run         *)
(* concurrently in one worker process or several; and the chain that       *)
(* mines the transactions of the treasury wallet in the order of nonces.   *)
(***************************************************************************)
EXTENDS Integers

CONSTANTS
    Senders,        \* calls of buildAndSendTransfer
    MaxNonce,       \* bound: nonces handed out
    MaxExpiries,    \* bound: times the lock outlives its 10 seconds
    MaxFaults,      \* bound: failing calls and crashes
    Nobody          \* no sender

ASSUME NonceAssumption ==
    /\ MaxNonce \in Nat
    /\ MaxExpiries \in Nat
    /\ MaxFaults \in Nat
    /\ Nobody \notin Senders

Nonces == 0 .. MaxNonce

VARIABLES
    pc,        \* sender -> the call it makes next
    seen,      \* sender -> onChainNonce
    nonce,     \* sender -> currentNonce, once it has computed it
    holder,    \* who set the key nonce:lock, or Nobody; Redis holds just '1'
    stored,    \* the key nonce:current, 0 while it is absent
    pool,      \* nonce -> sender of the transaction nodes hold for it
    mined,     \* transactions of the wallet in blocks: the next nonce due
    expiries,
    faults

redis == <<holder, stored>>
chain == <<pool, mined>>
vars == <<pc, seen, nonce, redis, chain, expiries, faults>>

Locked == {"count", "get", "set", "send", "wait", "release"}
Pc == {"lock", "ended"} \cup Locked

TypeOK ==
    /\ pc \in [Senders -> Pc]
    /\ seen \in [Senders -> Nonces]
    /\ nonce \in [Senders -> Nonces]
    /\ holder \in Senders \cup {Nobody}
    /\ stored \in Nonces
    /\ pool \in [Nonces -> Senders \cup {Nobody}]
    /\ mined \in Nonces
    /\ expiries \in 0 .. MaxExpiries
    /\ faults \in 0 .. MaxFaults

Init ==
    /\ pc = [s \in Senders |-> "lock"]
    /\ seen = [s \in Senders |-> 0]
    /\ nonce = [s \in Senders |-> 0]
    /\ holder = Nobody
    /\ stored = 0
    /\ pool = [n \in Nonces |-> Nobody]
    /\ mined = 0
    /\ expiries = 0
    /\ faults = 0

Goto(s, l) == pc' = [pc EXCEPT ![s] = l]
Throws == faults < MaxFaults /\ faults' = faults + 1

(* Mutant: SET without NX.                                                 *)
AcquireTaken(s) ==
    /\ pc[s] = "lock"
    /\ holder' = s
    /\ Goto(s, "count")
    /\ UNCHANGED <<seen, nonce, stored, chain, expiries, faults>>

(* SET NX: the call throws when another one has the lock.  When the answer *)
(* of Redis is lost, it throws with the lock taken or not.                 *)
AcquireLock(s) ==
    /\ pc[s] = "lock"
    /\ UNCHANGED <<seen, nonce, stored, chain, expiries>>
    /\ \/ /\ holder = Nobody
          /\ holder' = s
          /\ \/ Goto(s, "count") /\ UNCHANGED faults
             \/ Goto(s, "ended") /\ Throws
       \/ /\ holder # Nobody
          /\ Goto(s, "ended")
          /\ UNCHANGED <<holder, faults>>

(* eth_getTransactionCount 'pending': what is mined and what follows it in *)
(* the pool without a gap.                                                 *)
GetTransactionCount(s) ==
    /\ pc[s] = "count"
    /\ \E n \in mined .. MaxNonce :
         /\ pool[n] = Nobody
         /\ \A m \in mined .. (n - 1) : pool[m] # Nobody
         /\ seen' = [seen EXCEPT ![s] = n]
    /\ Goto(s, "get")
    /\ UNCHANGED <<nonce, redis, chain, expiries, faults>>

(* Mutant: the stored nonce is taken for the last one used.                *)
GetNonceAfter(s) ==
    /\ pc[s] = "get"
    /\ nonce' = [nonce EXCEPT ![s] =
                   IF stored > seen[s] THEN stored + 1 ELSE seen[s]]
    /\ Goto(s, "set")
    /\ UNCHANGED <<seen, redis, chain, expiries, faults>>

(* getAndIncrementNonce is a GET and a SET.                                *)
GetNonce(s) ==
    /\ pc[s] = "get"
    /\ nonce' = [nonce EXCEPT ![s] = IF stored > seen[s] THEN stored ELSE seen[s]]
    /\ Goto(s, "set")
    /\ UNCHANGED <<seen, redis, chain, expiries, faults>>

(* Mutant: a nonce is left out.                                            *)
SetNonceBeyond(s) ==
    /\ pc[s] = "set"
    /\ nonce[s] < MaxNonce
    /\ stored' = nonce[s] + 2
    /\ Goto(s, "send")
    /\ UNCHANGED <<seen, nonce, holder, chain, expiries, faults>>

SetNonce(s) ==
    /\ pc[s] = "set"
    /\ nonce[s] < MaxNonce
    /\ stored' = nonce[s] + 1
    /\ \/ Goto(s, "send") /\ UNCHANGED faults
       \/ Goto(s, "release") /\ Throws
    /\ UNCHANGED <<seen, nonce, holder, chain, expiries>>

(* The node takes the transaction if its nonce is free.  If it is mined    *)
(* the call throws; if it is pending, the call throws or, with a higher    *)
(* fee, the transaction replaces the one in the pool.                      *)
Send(s) ==
    LET n == nonce[s]
    IN  /\ pc[s] = "send"
        /\ \/ n >= mined /\ pool' = [pool EXCEPT ![n] = s] /\ Goto(s, "wait")
           \/ pool[n] # Nobody /\ UNCHANGED pool /\ Goto(s, "release")
        /\ UNCHANGED <<seen, nonce, redis, mined, expiries, faults>>

(* tx.wait() ends once the nonce is mined, with the receipt or, if another *)
(* transaction took its place, by throwing.  It has no timeout.            *)
WaitEnds(s) ==
    /\ pc[s] = "wait"
    /\ nonce[s] < mined
    /\ Goto(s, "release")
    /\ UNCHANGED <<seen, nonce, redis, chain, expiries, faults>>

(* A call throws (Redis, RPC endpoint, not enough gas money) and the       *)
(* finally block comes next; a nonce that is stored by then stays used.    *)
CallThrows(s) ==
    /\ pc[s] \in {"count", "get", "set", "send", "wait"}
    /\ Throws
    /\ Goto(s, "release")
    /\ UNCHANGED <<seen, nonce, redis, chain, expiries>>

(* DEL, whoever has set the key.  It may throw, too.                       *)
ReleaseLock(s) ==
    /\ pc[s] = "release"
    /\ Goto(s, "ended")
    /\ \/ holder' = Nobody /\ UNCHANGED faults
       \/ UNCHANGED holder /\ Throws
    /\ UNCHANGED <<seen, nonce, stored, chain, expiries>>

SenderCrashes(s) ==
    /\ pc[s] \in Locked
    /\ Throws
    /\ Goto(s, "ended")
    /\ UNCHANGED <<seen, nonce, redis, chain, expiries>>

(* Mutant: the key is set without PX.                                      *)
LockStays == FALSE /\ UNCHANGED vars

(* PX 10000.                                                               *)
LockExpires ==
    /\ holder # Nobody
    /\ expiries < MaxExpiries
    /\ expiries' = expiries + 1
    /\ holder' = Nobody
    /\ UNCHANGED <<pc, seen, nonce, stored, chain, faults>>

(* External: the next transaction in the order of nonces gets into a block.*)
Mine ==
    /\ mined < MaxNonce
    /\ pool[mined] # Nobody
    /\ mined' = mined + 1
    /\ UNCHANGED <<pc, seen, nonce, redis, pool, expiries, faults>>

SenderStep(s) ==
    \/ AcquireLock(s) \/ GetTransactionCount(s) \/ GetNonce(s) \/ SetNonce(s)
    \/ Send(s) \/ WaitEnds(s) \/ ReleaseLock(s)

Next ==
    \/ \E s \in Senders : SenderStep(s) \/ CallThrows(s) \/ SenderCrashes(s)
    \/ LockExpires
    \/ Mine

Spec == Init /\ [][Next]_vars

(* Node runs what can go on, Redis expires keys, and a transaction that is *)
(* next in line is mined.                                                  *)
FairSpec ==
    /\ Spec
    /\ \A s \in Senders : WF_vars(SenderStep(s))
    /\ WF_vars(LockExpires)
    /\ WF_vars(Mine)

-----------------------------------------------------------------------------
(* docs/chain-adapters.md: what a transaction is sent with is a nonce      *)
(* nobody has sent with.                                                   *)
NonceIsFree ==
    \A s \in Senders :
        pc[s] = "send" => mined <= nonce[s] /\ pool[nonce[s]] = Nobody

(* It holds as long as no call has had the lock for longer than its 10     *)
(* seconds, whatever fails.  One that does, as most that wait for a block  *)
(* do, finds its lock gone and then deletes the lock of another.           *)
LockedNonceIsFree == expiries = 0 => NonceIsFree

(* docs/chain-adapters.md: transfers go out with sequential nonces, so     *)
(* that every wait for a receipt comes to an end.                          *)
SentIsMined == \A s \in Senders : pc[s] = "wait" ~> pc[s] # "wait"

(* It holds while no call fails, even when locks expire.  One that fails   *)
(* between storing its nonce and sending leaves a gap nothing closes, and  *)
(* all later calls wait for ever.                                          *)
SentIsMinedUnlessFault ==
    \A s \in Senders : pc[s] = "wait" ~> pc[s] # "wait" \/ faults > 0

(* Neither a call that died nor one that waits keeps the others out.       *)
LockComesFree == holder # Nobody ~> holder = Nobody
=============================================================================
