----------------------------- MODULE TokenStore -----------------------------
(***************************************************************************)
(* The tokens of one scope and one user in Redis (RedisTokenModel).        *)
(*                                                                         *)
(* Each token is a key with an expiry, and the user has a set of the       *)
(* tokens' hashes, with an expiry of its own, that DeleteAllForUser walks. *)
(* Insert and DeleteAllForUser are sequences of Redis commands; each       *)
(* command is an operator here, and the handlers that use the store string *)
(* them together and may stop between any two.                             *)
(*                                                                         *)
(* A key is there as long as now is before its expiry.  Time is a counter  *)
(* of periods that are long compared with a handler.                       *)
(***************************************************************************)
EXTENDS Naturals, FiniteSets

CONSTANTS Tokens,
          TTL,        \* lifetime a token is created with
          Horizon,    \* bound: the clock stops here
          NoKey,      \* the key was never set, or was deleted
          Forever     \* the expiry of a set that has been given none

ASSUME TokenStoreAssumptions ==
  TTL \in Nat \ {0} /\ Horizon \in Nat /\ Forever \notin Nat /\ NoKey \notin Nat

VARIABLES
  now,
  expiry,     \* expiry[t]: the Expiry field of token t, or NoKey before New
  keys,       \* keys[t]: [data, until] under the token's hash, or NoKey
  userSet     \* [members, until]: the user's set of token hashes

storeVars == <<now, expiry, keys, userSet>>

StoreInit ==
  /\ now = 0
  /\ expiry = [t \in Tokens |-> NoKey]
  /\ keys = [t \in Tokens |-> NoKey]
  /\ userSet = [members |-> {}, until |-> Forever]

Live(t) == keys[t] # NoKey /\ now < keys[t].until

Data(t) == keys[t].data

\* SMEMBERS: an expired set has no members.
Members == IF userSet.until = Forever \/ now < userSet.until THEN userSet.members ELSE {}

\* time.Until(token.Expiry).Abs(): the distance to the expiry, on either side.
Remaining(t) == IF now <= expiry[t] THEN expiry[t] - now ELSE now - expiry[t]

New(t) ==
  /\ expiry[t] = NoKey
  /\ expiry' = [expiry EXCEPT ![t] = now + TTL]

SetKey(t, data) == keys' = [keys EXCEPT ![t] = [data |-> data, until |-> now + Remaining(t)]]

\* SADD creates the set, without an expiry, when there is none.
AddToSet(t) ==
  userSet' = [members |-> Members \cup {t},
              until   |-> IF Members = {} THEN Forever ELSE userSet.until]

\* EXPIRE applies to the whole set, and to no set at all when there is none.
ExpireSet(t) ==
  userSet' = IF Members = {} THEN userSet ELSE [userSet EXCEPT !.until = now + Remaining(t)]

DeleteKey(t) == keys' = [keys EXCEPT ![t] = NoKey]

DeleteSet == userSet' = [members |-> {}, until |-> Forever]

StoreTypeOK(DataType) ==
  /\ now \in 0..Horizon
  /\ expiry \in [Tokens -> Nat \cup {NoKey}]
  /\ keys \in [Tokens -> [data : DataType, until : Nat] \cup {NoKey}]
  /\ userSet \in [members : SUBSET Tokens, until : Nat \cup {Forever}]
=============================================================================
