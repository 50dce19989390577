------------------------------ MODULE UserLock ------------------------------
(***************************************************************************)
(* The per-user serialization lock of the assistant (user-lock.store.ts):  *)
(* one Redis key of one user, SET NX PX with a random token, renewed by a  *)
(* watchdog interval and released by a token-checked script.  Users do not *)
(* share keys, so the module follows the key of one user.                  *)
(*                                                                         *)
(* Time passes in ticks.  A caller is anything that may call runExclusive  *)
(* for the user: the webhook worker and the debounce worker of every       *)
(* process connected to the same Redis.                                    *)
(***************************************************************************)
EXTENDS Naturals, FiniteSets

CONSTANTS
    Callers,     (* the concurrent callers of runExclusive for this user         *)
    Tokens,      (* the values randomUUID may return; each is returned once      *)
    NoToken,     (* the Redis key does not exist, or a caller has no handle      *)
    Ttl,         (* userLockTtlMs, in ticks                                      *)
    RenewEvery   (* userLockRenewMs, in ticks                                    *)

\* env.config.ts refuses to boot when the renew interval is not below the TTL.
ASSUME LockConfig ==
    /\ Ttl \in Nat /\ RenewEvery \in Nat
    /\ 0 < RenewEvery /\ RenewEvery < Ttl
    /\ NoToken \notin Tokens

VARIABLES
    key,       (* the token stored under assistant:lock:{userId}, or NoToken *)
    expiry,    (* ticks before Redis expires the key (its PX)                *)
    issued,    (* the tokens handed out so far                               *)
    at,        (* where each caller stands in runExclusive                   *)
    held,      (* the token in each caller's handle                          *)
    watching,  (* the callers whose watchdog interval is running             *)
    timer,     (* ticks before that interval fires; 0: it is due             *)
    timely     (* never changes. TRUE: a due renewal reaches Redis before    *)
               (* the next tick; FALSE: the event loop may stall and a       *)
               (* renewal may be refused                                     *)

lockVars == <<key, expiry, issued, at, held, watching, timer, timely>>

LockTypeOK ==
    /\ key \in Tokens \cup {NoToken}
    /\ expiry \in 0..Ttl
    /\ (key = NoToken) <=> (expiry = 0)
    /\ issued \subseteq Tokens
    /\ at \in [Callers -> {"idle", "working", "releasing"}]
    /\ held \in [Callers -> Tokens \cup {NoToken}]
    /\ watching \subseteq Callers
    /\ timer \in [Callers -> 0..RenewEvery]
    /\ timely \in BOOLEAN

LockInit ==
    /\ key = NoToken /\ expiry = 0 /\ issued = {}
    /\ at = [c \in Callers |-> "idle"]
    /\ held = [c \in Callers |-> NoToken]
    /\ watching = {}
    /\ timer = [c \in Callers |-> RenewEvery]
    /\ timely \in BOOLEAN
-----------------------------------------------------------------------------
\* Mutant of AcquireWithWatchdog: SET without NX takes a key that is held.
AcquireWithoutNX(c) ==
    /\ at[c] = "idle"
    /\ \E t \in Tokens \ issued :
        /\ key' = t /\ expiry' = Ttl
        /\ issued' = issued \cup {t}
        /\ held' = [held EXCEPT ![c] = t]
    /\ at' = [at EXCEPT ![c] = "working"]
    /\ watching' = watching \cup {c}
    /\ timer' = [timer EXCEPT ![c] = RenewEvery]
    /\ UNCHANGED timely

\* SET key token PX ttl NX answered OK: the caller runs work() and its watchdog
\* starts.  When the key exists, runExclusive returns onBusy() and changes nothing.
AcquireWithWatchdog(c) ==
    /\ at[c] = "idle"
    /\ key = NoToken
    /\ \E t \in Tokens \ issued :
        /\ key' = t /\ expiry' = Ttl
        /\ issued' = issued \cup {t}
        /\ held' = [held EXCEPT ![c] = t]
    /\ at' = [at EXCEPT ![c] = "working"]
    /\ watching' = watching \cup {c}
    /\ timer' = [timer EXCEPT ![c] = RenewEvery]
    /\ UNCHANGED timely

\* The interval fires and RENEW_IF_HOLDER runs: PEXPIRE when the key still holds
\* this caller's token, otherwise the watchdog clears itself.
Renew(c) ==
    /\ c \in watching /\ timer[c] = 0
    /\ \/ /\ key = held[c]
          /\ expiry' = Ttl
          /\ UNCHANGED watching
       \/ /\ key # held[c]
          /\ watching' = watching \ {c}
          /\ UNCHANGED expiry
    /\ timer' = [timer EXCEPT ![c] = RenewEvery]
    /\ UNCHANGED <<key, issued, at, held, timely>>

\* The renewal is rejected (Redis unreachable): the catch logs it and the
\* interval goes on.
RenewFault(c) ==
    /\ ~timely
    /\ c \in watching /\ timer[c] = 0
    /\ timer' = [timer EXCEPT ![c] = RenewEvery]
    /\ UNCHANGED <<key, expiry, issued, at, held, watching, timely>>

\* work() returned or threw; the finally block clears the interval first.
FinishWork(c) ==
    /\ at[c] = "working"
    /\ at' = [at EXCEPT ![c] = "releasing"]
    /\ watching' = watching \ {c}
    /\ UNCHANGED <<key, expiry, issued, held, timer, timely>>

\* Mutant of Release: a plain DEL.
ReleaseUnchecked(c) ==
    /\ at[c] = "releasing"
    /\ key' = NoToken /\ expiry' = 0
    /\ at' = [at EXCEPT ![c] = "idle"]
    /\ held' = [held EXCEPT ![c] = NoToken]
    /\ UNCHANGED <<issued, watching, timer, timely>>

\* RELEASE_IF_HOLDER: delete the key only if it still holds this caller's token.
Release(c) ==
    /\ at[c] = "releasing"
    /\ IF key = held[c] THEN key' = NoToken /\ expiry' = 0
                        ELSE UNCHANGED <<key, expiry>>
    /\ at' = [at EXCEPT ![c] = "idle"]
    /\ held' = [held EXCEPT ![c] = NoToken]
    /\ UNCHANGED <<issued, watching, timer, timely>>

\* The release is rejected: runExclusive throws and the key is left to its TTL.
ReleaseFault(c) ==
    /\ at[c] = "releasing"
    /\ at' = [at EXCEPT ![c] = "idle"]
    /\ held' = [held EXCEPT ![c] = NoToken]
    /\ UNCHANGED <<key, expiry, issued, watching, timer, timely>>

\* The process of the caller dies; its interval dies with it, the key does not.
ProcessDies(c) ==
    /\ at[c] # "idle"
    /\ at' = [at EXCEPT ![c] = "idle"]
    /\ held' = [held EXCEPT ![c] = NoToken]
    /\ watching' = watching \ {c}
    /\ UNCHANGED <<key, expiry, issued, timer, timely>>

\* Mutant of Tick: SET without PX, so the key outlives its lease.
TickWithoutExpiry ==
    /\ timely => \A c \in watching : timer[c] > 0
    /\ expiry' = IF expiry > 0 THEN expiry - 1 ELSE 0
    /\ timer' = [c \in Callers |->
                    IF c \in watching /\ timer[c] > 0 THEN timer[c] - 1 ELSE timer[c]]
    /\ UNCHANGED <<key, issued, at, held, watching, timely>>

\* A tick of the clock: Redis expires the key whose PX has run out.
Tick ==
    /\ timely => \A c \in watching : timer[c] > 0
    /\ \/ /\ expiry > 1
          /\ expiry' = expiry - 1
          /\ UNCHANGED key
       \/ /\ expiry <= 1
          /\ expiry' = 0 /\ key' = NoToken
    /\ timer' = [c \in Callers |->
                    IF c \in watching /\ timer[c] > 0 THEN timer[c] - 1 ELSE timer[c]]
    /\ UNCHANGED <<issued, at, held, watching, timely>>

LockNext ==
    \/ Tick
    \/ \E c \in Callers :
        \/ AcquireWithWatchdog(c) \/ Renew(c) \/ RenewFault(c)
        \/ FinishWork(c) \/ Release(c) \/ ReleaseFault(c) \/ ProcessDies(c)

LockSpec == LockInit /\ [][LockNext]_lockVars

\* Time passes, and a script sent to Redis is answered.
LeaseFairness == WF_lockVars(Tick) /\ \A c \in Callers : WF_lockVars(Renew(c))

LeaseSpec == LockSpec /\ LeaseFairness

\* Besides, every turn settles: the model call and the tools have timeouts.
TurnsSettle == \A c \in Callers : WF_lockVars(FinishWork(c)) /\ WF_lockVars(Release(c))
-----------------------------------------------------------------------------
\* Two turns of one user never run at the same time (user-lock.store.ts:50-53).
\* Needs timely renewals: without them a lapsed holder is not told to stop.
MutualExclusion ==
    timely => \A c, d \in Callers : at[c] = "working" /\ at[d] = "working" => c = d

\* Why it holds: a working caller owns the key, and its next renewal is due
\* strictly before the key expires (user-lock.store.ts:141-149).
LeaseOutlivesRenewal ==
    timely => \A c \in Callers : at[c] = "working" =>
        key = held[c] /\ c \in watching /\ timer[c] < expiry

\* However late the renewals, no two callers own the key: tokens are unique.
OneOwner ==
    \A c, d \in Callers : held[c] = held[d] /\ held[c] # NoToken => c = d

\* A key that has not run out of PX disappears only when the caller whose token
\* it holds gives its handle up: nobody unlocks the turn of another caller, also
\* after an expiry and a re-acquisition (RELEASE_IF_HOLDER).
OnlyHolderUnlocks ==
    [][ key # NoToken /\ key' # key /\ expiry > 1
        => \E c \in Callers : held[c] = key /\ held'[c] = NoToken ]_lockVars

\* The user is never locked out for ever: a key left by a dead caller disappears even if
\* other callers, whose leases lapsed, go on working for ever, and when turns settle the key
\* becomes free, whatever crashes and whichever releases and renewals fail
\* (user-lock.store.ts:57-58, 202).
LockFreed ==
    /\ \A t \in Tokens : (key = t /\ \A c \in Callers : held[c] # t) ~> key # t
    /\ TurnsSettle => (key # NoToken ~> key = NoToken)

\* The lock with timely renewals implements the mutex its callers rely on.
Mutex == INSTANCE TurnMutex
            WITH running <- {c \in Callers : timely /\ at[c] = "working"}

ImplementsTurnMutex == Mutex!Spec
=============================================================================
