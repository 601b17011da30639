---------------------------- MODULE ExecutorToken ----------------------------
(***************************************************************************)
(* The tokens of the calls to the gcp-http executor: signed by the Worker  *)
(* for one call (src/fetch/executorToken.ts) and accepted once by an       *)
(* instance of the executor (executors/gcp-http/src/jwt.ts), whose memory  *)
(* of what it has accepted is bounded and lost when it restarts.           *)
(*                                                                         *)
(* The executor's clock is seconds, and the Worker's is at most ClockSkew  *)
(* ahead or behind.  A call can arrive late, several times or never.       *)
(* Signatures, the body hash and the other claims always fit here: the     *)
(* Worker is the only one that signs.                                      *)
(***************************************************************************)
EXTENDS Integers, FiniteSets

CONSTANTS Jti,            \* the identifiers of the tokens, one a token
          TokenLifetime,  \* EXECUTOR_TOKEN_LIFETIME_SECONDS
          MaxLifetime,    \* MAX_TOKEN_LIFETIME_SECONDS
          ClockSkew,      \* CLOCK_SKEW_SECONDS
          MaxJtiEntries,  \* MAX_JTI_ENTRIES
          MaxSeconds      \* bound: seconds of the run

ASSUME TokenAssumption ==
  /\ TokenLifetime \in Nat \ {0}
  /\ MaxLifetime \in Nat /\ TokenLifetime <= MaxLifetime
  /\ {ClockSkew, MaxJtiEntries, MaxSeconds} \subseteq Nat

VARIABLES
  seconds,  \* the executor's clock
  issued,   \* the claim exp of each token signed
  entries,  \* JtiCache: exp of each token it holds
  uses      \* history: how often this instance has accepted each token

tokenVars == <<seconds, issued, entries, uses>>

NoTokens == [j \in {} |-> 0]

\* f with j |-> exp
With(f, j, exp) == [k \in DOMAIN f \cup {j} |-> IF k = j THEN exp ELSE f[k]]

TokenTypeOK ==
  /\ seconds \in 0 .. MaxSeconds
  /\ issued \in [DOMAIN issued -> Int] /\ DOMAIN issued \subseteq Jti
  /\ entries \in [DOMAIN entries -> Int] /\ DOMAIN entries \subseteq DOMAIN issued
  /\ uses \in [Jti -> Nat]

TokenInit ==
  /\ seconds = 0
  /\ issued = NoTokens
  /\ entries = NoTokens
  /\ uses = [j \in Jti |-> 0]

\* signExecutorToken: the Worker reads its own clock.
SignToken(j) ==
  /\ j \notin DOMAIN issued
  /\ \E iat \in seconds - ClockSkew .. seconds + ClockSkew :
       issued' = With(issued, j, iat + TokenLifetime)
  /\ UNCHANGED <<seconds, entries, uses>>

\* verifyRequestToken, the claims of time
TimesFit(exp) ==
  LET iat == exp - TokenLifetime IN
  /\ exp - iat <= MaxLifetime /\ exp > iat
  /\ seconds <= exp + ClockSkew
  /\ iat <= seconds + ClockSkew

\* Mutant of Outlived: the skew granted to a token is not granted to its
\* entry.
OutlivedAtExp(exp) == exp < seconds

\* JtiCache.purge: a token whose entry goes can no longer be accepted.
Outlived(exp) == exp + ClockSkew < seconds

Purged == [j \in {k \in DOMAIN entries : ~Outlived(entries[k])} |-> entries[j]]

\* A call with the token j reaches the executor: verifyRequestToken with
\* JtiCache.claim.  The cache is purged first; a token it holds is refused,
\* and so is every token when it is full.
ReceiveToken(j) ==
  /\ j \in DOMAIN issued
  /\ TimesFit(issued[j])
  /\ LET claimed == j \notin DOMAIN Purged /\ Cardinality(DOMAIN Purged) < MaxJtiEntries IN
     /\ entries' = IF claimed THEN With(Purged, j, issued[j]) ELSE Purged
     /\ uses' = IF claimed THEN [uses EXCEPT ![j] = @ + 1] ELSE uses
  /\ UNCHANGED <<seconds, issued>>

\* The container is replaced; another instance is the same as one restarted.
RestartExecutor ==
  /\ entries' = NoTokens
  /\ uses' = [j \in Jti |-> 0]
  /\ UNCHANGED <<seconds, issued>>

TokenTick ==
  /\ seconds < MaxSeconds
  /\ seconds' = seconds + 1
  /\ UNCHANGED <<issued, entries, uses>>

TokenNext ==
  \/ \E j \in Jti : SignToken(j) \/ ReceiveToken(j)
  \/ RestartExecutor
  \/ TokenTick

TokenSpec == TokenInit /\ [][TokenNext]_tokenVars

(***************************************************************************)
(* Properties.                                                             *)
(***************************************************************************)
\* An instance accepts a token once, however often and however late the
\* call arrives, and whatever has been purged from its bounded memory
\* meanwhile (verifyRequestToken and JtiCache).
TokenAcceptedOnce == \A j \in Jti : uses[j] <= 1
=============================================================================
