----------------------------- MODULE SessionLife -----------------------------
(***************************************************************************)
(* What a login session promises, without tokens, versions or requests: it *)
(* begins once, gives access until its limit, gets at most one more        *)
(* lifetime if its client comes back in time, and is over for good once it *)
(* has ended.  Nobody ends a session before its limit unless it has been   *)
(* extended.                                                               *)
(***************************************************************************)
EXTENDS Naturals

CONSTANTS SessionIds, AccessTTL,
          Lifetimes   \* that a session may get when it begins or is extended

VARIABLES now,
          life,    \* life[s]: "unborn", "fresh", "extended" or "ended"
          limit,   \* limit[s]: when a session that has not ended expires
          access   \* access[s]: until when access was granted

lifeVars == <<now, life, limit, access>>

LifeInit ==
  /\ now \in Nat
  /\ life = [s \in SessionIds |-> "unborn"]
  /\ limit = [s \in SessionIds |-> 0]
  /\ access = [s \in SessionIds |-> 0]

TimePasses == now' = now + 1 /\ UNCHANGED <<life, limit, access>>

Grant(s)    == access' = [access EXCEPT ![s] = now + AccessTTL]
Become(s, l) == life' = [life EXCEPT ![s] = l]
Prolong(s)  == \E ttl \in Lifetimes : limit' = [limit EXCEPT ![s] = now + ttl]

Begin(s) ==
  /\ life[s] = "unborn" /\ Become(s, "fresh")
  /\ Prolong(s) /\ Grant(s) /\ UNCHANGED now

Refresh(s) ==
  /\ life[s] = "fresh" /\ now <= limit[s]
  /\ Grant(s) /\ UNCHANGED <<now, life, limit>>

\* A request that came within the limit may be served one period later, and
\* its answer may get lost.
Extend(s) ==
  /\ life[s] = "fresh" /\ now <= limit[s] + 1
  /\ Become(s, "extended") /\ Prolong(s)
  /\ Grant(s) \/ UNCHANGED access
  /\ UNCHANGED now

End(s) ==
  /\ \/ life[s] = "extended"
     \/ life[s] = "fresh" /\ now > limit[s]
  /\ Become(s, "ended") /\ limit' = [limit EXCEPT ![s] = 0]
  /\ UNCHANGED <<now, access>>

LifeNext ==
  \/ TimePasses
  \/ \E s \in SessionIds : Begin(s) \/ Refresh(s) \/ Extend(s) \/ End(s)

LifeSpec == LifeInit /\ [][LifeNext]_lifeVars
=============================================================================
