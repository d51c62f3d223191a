----------------------------- MODULE TokenLedger -----------------------------
(***************************************************************************)
(* What the token contract records of the holders of its tokens, twice:    *)
(* _tokenOwners maps a token to its holder, _holderTokens maps a holder to *)
(* its set of tokens.  Here they are a partial function and sets; module   *)
(* EnumerableLedger has the arrays and indexes they are stored in.         *)
(***************************************************************************)
EXTENDS Addresses

CONSTANT TokenIds   \* uint256, as far as it is used

VARIABLES
  tokenOwners,  \* _tokenOwners: token -> holder
  holderTokens  \* _holderTokens: holder -> tokens

ledgerVars == <<tokenOwners, holderTokens>>

LedgerInit ==
  /\ tokenOwners = [t \in {} |-> ZERO]
  /\ holderTokens = [a \in Address |-> {}]

Exists(token) == token \in DOMAIN tokenOwners

SetTokenOwner(token, to) ==
  tokenOwners' = [t \in DOMAIN tokenOwners \cup {token} |->
                    IF t = token THEN to ELSE tokenOwners[t]]

(* Mutant: a token that exists is added again, for whoever is named. *)
AddTokenAgain(to, token) ==
  /\ to # ZERO
  /\ holderTokens' = [holderTokens EXCEPT ![to] = @ \cup {token}]
  /\ SetTokenOwner(token, to)

(* What a mint records. *)
AddToken(to, token) ==
  /\ to # ZERO
  /\ ~Exists(token)
  /\ holderTokens' = [holderTokens EXCEPT ![to] = @ \cup {token}]
  /\ SetTokenOwner(token, to)

(* Mutant: added before it is removed, a token sent to its holder is lost. *)
MoveHoldingAddFirst(from, to, token) ==
  holderTokens' = [[holderTokens EXCEPT ![to] = @ \cup {token}] EXCEPT ![from] = @ \ {token}]

(* from and to may be the same: first remove, then add. *)
MoveHolding(from, to, token) ==
  holderTokens' = [[holderTokens EXCEPT ![from] = @ \ {token}] EXCEPT ![to] = @ \cup {token}]

(* What a transfer records. *)
MoveToken(from, to, token) ==
  /\ Exists(token)
  /\ tokenOwners[token] = from
  /\ to # ZERO
  /\ MoveHolding(from, to, token)
  /\ SetTokenOwner(token, to)

LedgerNext ==
  \E token \in TokenIds, to \in Address :
    \/ AddToken(to, token)
    \/ \E from \in Address : MoveToken(from, to, token)

LedgerSpec == LedgerInit /\ [][LedgerNext]_ledgerVars
==============================================================================
