---------------------------- MODULE PeopleProofs ----------------------------
(***************************************************************************)
(* Proofs about MCPeople, part by part: for each an inductive invariant,   *)
(* that it holds at first and is kept by every step of the part, and that  *)
(* it says what the run checks.  The theorems about the whole are at the   *)
(* end.                                                                    *)
(***************************************************************************)
EXTENDS MCPeople, FiniteSetTheorems, SequenceTheorems, TLAPS

-----------------------------------------------------------------------------
(* Accounts: what a session is stamped with.                               *)

Begun == {"create", "verify", "verifyBlocked"}
Rotating == {"find", "revoke", "resume", "resumeWait", "revokeFamily"}
CallStates == Begun \cup Rotating \cup
    {"idle", "save", "link", "setPassword", "burnLinks", "bump", "revokeAll"}
AccountCalls == [pc : CallStates, jti : Nat, family : Nat, ver : Nat, era : Nat]
Tokens == [family : Nat, ver : Nat, era : Nat, revoked : BOOLEAN]

AuthTypes ==
    /\ acct \in [state : {"none", "active", "banned"} \cup States, ver : Nat]
    /\ tok \in Seq(Tokens)
    /\ calls \in [Calls -> AccountCalls]
    /\ era \in Nat /\ ended \in Nat /\ ended <= era

\* What carries the version of now began after the last end of all sessions.
Current(ver, at) == ver <= acct.ver /\ (ver = acct.ver => at >= ended)

VersionsTell ==
    /\ acct.ver = 0 => ended = 0
    /\ \A k \in 1..Len(tok) : Current(tok[k].ver, tok[k].era) /\ tok[k].era <= era
    /\ \A c \in Calls : Current(calls[c].ver, calls[c].era) /\ calls[c].era <= era

\* The row that a rotation is about, and the family that a login does not have yet.
CallsKnowTheirRow ==
    \A c \in Calls :
      /\ calls[c].pc \in Begun => calls[c].family = 0
      /\ calls[c].pc \in Rotating => /\ calls[c].jti \in 1..Len(tok)
                                     /\ calls[c].family = tok[calls[c].jti].family

\* A family begins with its first row.
FamiliesBegin == \A k \in 1..Len(tok) : tok[k].family \in 1..k

\* Whoever is about to save the next row of a family is alone, and no row is live.
Succeeds(c, f) == calls[c].pc = "save" /\ calls[c].family = f
SuccessorIsAwaited ==
    \A c \in Calls, f \in Nat \ {0} : Succeeds(c, f) =>
      /\ f <= Len(tok)
      /\ \A k \in 1..Len(tok) : tok[k].family = f => tok[k].revoked
      /\ \A d \in Calls : Succeeds(d, f) => d = c

AuthInv ==
    AuthTypes /\ VersionsTell /\ CallsKnowTheirRow /\ FamiliesBegin /\ SuccessorIsAwaited
      /\ Auth!OneLiveToken

\* Rows stay and are at most revoked.
RowsKeep ==
    /\ tok' \in Seq(Tokens) /\ Len(tok') = Len(tok)
    /\ \A k \in 1..Len(tok) : /\ tok'[k].family = tok[k].family /\ tok'[k].ver = tok[k].ver
                              /\ tok'[k].era = tok[k].era /\ (tok[k].revoked => tok'[k].revoked)

LEMMA RowsAre ==
  AuthTypes => /\ Len(tok) \in Nat
               /\ \A k \in 1..Len(tok) : tok[k] \in Tokens
               /\ Auth!Rows = 1..Len(tok)
BY DEF AuthTypes, Auth!Rows

\* Revoking some rows keeps the rows.
LEMMA RevokingKeeps ==
  ASSUME AuthTypes
  PROVE  /\ tok' = tok => RowsKeep
         /\ \A j \in 1..Len(tok) : tok' = [tok EXCEPT ![j].revoked = TRUE] =>
              RowsKeep /\ tok'[j].revoked
         /\ tok' = [k \in Auth!Rows |-> [tok[k] EXCEPT !.revoked = TRUE]] => RowsKeep
         /\ \A f \in Nat : tok' = [k \in Auth!Rows |-> [tok[k] EXCEPT !.revoked = @ \/ tok[k].family = f]]
              => RowsKeep
<1>1. tok' = tok => RowsKeep
  BY DEF AuthTypes, RowsKeep
<1>2. ASSUME NEW j \in 1..Len(tok), tok' = [tok EXCEPT ![j].revoked = TRUE]
      PROVE  RowsKeep /\ tok'[j].revoked
  <2> DEFINE x == [tok[j] EXCEPT !.revoked = TRUE]
  <2>1. x \in Tokens /\ x.family = tok[j].family /\ x.ver = tok[j].ver /\ x.era = tok[j].era /\ x.revoked
    BY RowsAre DEF Tokens
  <2>2. tok' = [tok EXCEPT ![j] = x]
    BY <1>2
  <2> HIDE DEF x
  <2> QED BY <2>1, <2>2 DEF AuthTypes, RowsKeep
<1>3. ASSUME NEW R, tok' = [k \in 1..Len(tok) |-> R[k]],
             \A k \in 1..Len(tok) : /\ R[k] \in Tokens /\ R[k].family = tok[k].family /\ R[k].ver = tok[k].ver
                                    /\ R[k].era = tok[k].era /\ (tok[k].revoked => R[k].revoked)
      PROVE  RowsKeep
  <2>1. Len(tok) \in Nat
    BY RowsAre
  <2>2. tok' \in Seq(Tokens) /\ Len(tok') = Len(tok)
    BY <1>3, <2>1
  <2>3. \A k \in 1..Len(tok) : tok'[k] = R[k]
    BY <1>3
  <2> QED BY <1>3, <2>2, <2>3 DEF RowsKeep
<1>4. ASSUME tok' = [k \in Auth!Rows |-> [tok[k] EXCEPT !.revoked = TRUE]] PROVE RowsKeep
  <2> DEFINE R == [k \in 1..Len(tok) |-> [tok[k] EXCEPT !.revoked = TRUE]]
  <2>1. \A k \in 1..Len(tok) : /\ R[k] \in Tokens /\ R[k].family = tok[k].family /\ R[k].ver = tok[k].ver
                               /\ R[k].era = tok[k].era /\ (tok[k].revoked => R[k].revoked)
    BY RowsAre DEF Tokens
  <2>2. tok' = [k \in 1..Len(tok) |-> R[k]]
    BY <1>4, RowsAre
  <2> HIDE DEF R
  <2> QED BY <1>3, <2>1, <2>2
<1>5. ASSUME NEW f \in Nat,
             tok' = [k \in Auth!Rows |-> [tok[k] EXCEPT !.revoked = @ \/ tok[k].family = f]]
      PROVE  RowsKeep
  <2> DEFINE R == [k \in 1..Len(tok) |-> [tok[k] EXCEPT !.revoked = @ \/ tok[k].family = f]]
  <2>1. \A k \in 1..Len(tok) : /\ R[k] \in Tokens /\ R[k].family = tok[k].family /\ R[k].ver = tok[k].ver
                               /\ R[k].era = tok[k].era /\ (tok[k].revoked => R[k].revoked)
    BY RowsAre DEF Tokens
  <2>2. tok' = [k \in 1..Len(tok) |-> R[k]]
    BY <1>5, RowsAre
  <2> HIDE DEF R
  <2> QED BY <1>3, <2>1, <2>2
<1> QED BY <1>1, <1>2, <1>4, <1>5

\* A step in which the version stays: rows are at most revoked, and at most the call c
\* goes on.
LEMMA StepKeeps ==
  ASSUME AuthInv, AuthTypes', RowsKeep, acct'.ver = acct.ver, ended' = ended, era' >= era,
         NEW c \in Calls, \A d \in Calls \ {c} : calls'[d] = calls[d],
         Current(calls'[c].ver, calls'[c].era), calls'[c].era <= era',
         calls'[c].pc \in Begun => calls'[c].family = 0,
         calls'[c].pc \in Rotating => /\ calls'[c].jti \in 1..Len(tok)
                                      /\ calls'[c].family = tok[calls'[c].jti].family,
         \A f \in Nat \ {0} : Succeeds(c, f)' =>
           \/ Succeeds(c, f)
           \/ /\ f <= Len(tok)
              /\ \A k \in 1..Len(tok) : tok[k].family = f => tok'[k].revoked
              /\ \A d \in Calls \ {c} : ~Succeeds(d, f)
  PROVE  AuthInv'
<1>1. VersionsTell'
  <2>1. \A k \in 1..Len(tok) : tok'[k].ver = tok[k].ver /\ tok'[k].era = tok[k].era
    BY DEF RowsKeep
  <2>2. \A d \in Calls \ {c} : calls'[d].era <= era'
    <3> SUFFICES ASSUME NEW d \in Calls \ {c} PROVE calls'[d].era <= era'
      OBVIOUS
    <3>1. calls'[d].era <= era /\ calls'[d].era \in Nat /\ era \in Nat /\ era' \in Nat
      BY DEF AuthInv, VersionsTell, AuthTypes, AccountCalls
    <3> QED BY <3>1
  <2>3. \A k \in 1..Len(tok) : tok[k].era <= era'
    <3> SUFFICES ASSUME NEW k \in 1..Len(tok) PROVE tok[k].era <= era'
      OBVIOUS
    <3>1. tok[k].era <= era /\ tok[k].era \in Nat /\ era \in Nat /\ era' \in Nat
      BY RowsAre DEF AuthInv, VersionsTell, AuthTypes, Tokens
    <3> QED BY <3>1
  <2> QED BY <2>1, <2>2, <2>3 DEF AuthInv, VersionsTell, Current, RowsKeep
<1>2. CallsKnowTheirRow'
  <2>1. \A k \in 1..Len(tok) : tok'[k].family = tok[k].family
    BY DEF RowsKeep
  <2> QED BY <2>1 DEF AuthInv, CallsKnowTheirRow, RowsKeep
<1>3. FamiliesBegin'
  BY DEF AuthInv, FamiliesBegin, RowsKeep
<1>4. SuccessorIsAwaited'
  <2> SUFFICES ASSUME NEW d \in Calls, NEW f \in Nat \ {0}, Succeeds(d, f)'
               PROVE  /\ f <= Len(tok)
                      /\ \A k \in 1..Len(tok) : tok[k].family = f => tok'[k].revoked
                      /\ \A b \in Calls : Succeeds(b, f)' => b = d
    BY DEF SuccessorIsAwaited, RowsKeep
  <2>1. \A b \in Calls \ {c} : Succeeds(b, f)' <=> Succeeds(b, f)
    BY DEF Succeeds
  <2>2. \A b \in Calls : Succeeds(b, f) => /\ f <= Len(tok)
                                           /\ \A k \in 1..Len(tok) : tok[k].family = f => tok[k].revoked
                                           /\ \A e \in Calls : Succeeds(e, f) => e = b
    BY DEF AuthInv, SuccessorIsAwaited
  <2>3. \A k \in 1..Len(tok) : tok[k].revoked => tok'[k].revoked
    BY DEF RowsKeep
  <2>4. CASE Succeeds(c, f)' /\ ~Succeeds(c, f)
    BY <2>1, <2>4
  <2>5. CASE Succeeds(c, f)' => Succeeds(c, f)
    BY <2>1, <2>2, <2>3, <2>5
  <2> QED BY <2>4, <2>5
<1>5. Auth!OneLiveToken'
  BY RowsAre DEF AuthInv, Auth!OneLiveToken, Auth!Rows, RowsKeep
<1> QED BY <1>1, <1>2, <1>3, <1>4, <1>5 DEF AuthInv

\* A step in which no call goes on.
LEMMA RestKeeps ==
  ASSUME AuthInv, AuthTypes', RowsKeep, acct'.ver = acct.ver, UNCHANGED <<calls, era, ended>>
  PROVE  AuthInv'
<1>1. ASSUME NEW c \in Calls PROVE AuthInv'
  <2>1. /\ calls[c].era \in Nat /\ era \in Nat
        /\ Current(calls[c].ver, calls[c].era) /\ calls[c].era <= era
        /\ calls[c].pc \in Begun => calls[c].family = 0
        /\ calls[c].pc \in Rotating => /\ calls[c].jti \in 1..Len(tok)
                                       /\ calls[c].family = tok[calls[c].jti].family
    BY DEF AuthInv, AuthTypes, AccountCalls, VersionsTell, CallsKnowTheirRow
  <2>2. \A f \in Nat \ {0} : Succeeds(c, f)' => Succeeds(c, f)
    BY DEF Succeeds
  <2>3. era' >= era
    BY <2>1
  <2> QED BY <2>1, <2>2, <2>3, StepKeeps
<1>2. CASE Calls = {}
  <2>1. VersionsTell' /\ CallsKnowTheirRow' /\ FamiliesBegin' /\ SuccessorIsAwaited'
    BY <1>2 DEF AuthInv, VersionsTell, CallsKnowTheirRow, FamiliesBegin, SuccessorIsAwaited, RowsKeep, Current
  <2>2. Auth!OneLiveToken'
    BY RowsAre DEF AuthInv, Auth!OneLiveToken, Auth!Rows, RowsKeep
  <2> QED BY <2>1, <2>2 DEF AuthInv
<1> QED BY <1>1, <1>2

\* A call that begins, goes on or ends, as the record x, with no row changed.
LEMMA CallKeeps ==
  ASSUME AuthInv, NEW c \in Calls, NEW x \in AccountCalls, calls' = [calls EXCEPT ![c] = x],
         RowsKeep, acct' \in [state : {"none", "active", "banned"} \cup States, ver : Nat],
         acct'.ver = acct.ver, ended' = ended, era' \in {era, era + 1},
         Current(x.ver, x.era), x.era <= era',
         x.pc \in Begun => x.family = 0,
         x.pc \in Rotating => x.jti \in 1..Len(tok) /\ x.family = tok[x.jti].family,
         \A f \in Nat \ {0} : (x.pc = "save" /\ x.family = f) =>
           \/ Succeeds(c, f)
           \/ /\ f <= Len(tok)
              /\ \A k \in 1..Len(tok) : tok[k].family = f => tok'[k].revoked
              /\ \A d \in Calls \ {c} : ~Succeeds(d, f)
  PROVE  AuthInv'
<1>1. /\ calls \in [Calls -> AccountCalls] /\ era \in Nat /\ ended \in Nat /\ ended <= era
  BY DEF AuthInv, AuthTypes
<1>2. calls' \in [Calls -> AccountCalls] /\ calls'[c] = x /\ \A d \in Calls \ {c} : calls'[d] = calls[d]
  BY <1>1
<1>3. AuthTypes' /\ era' >= era
  BY <1>1, <1>2 DEF AuthTypes, RowsKeep
<1>4. \A f \in Nat \ {0} : Succeeds(c, f)' =>
           \/ Succeeds(c, f)
           \/ /\ f <= Len(tok)
              /\ \A k \in 1..Len(tok) : tok[k].family = f => tok'[k].revoked
              /\ \A d \in Calls \ {c} : ~Succeeds(d, f)
  BY <1>2 DEF Succeeds
<1> QED BY <1>2, <1>3, <1>4, StepKeeps

\* What a call knows, at whichever step.
LEMMA AuthCallIs ==
  ASSUME AuthInv, NEW c \in Calls
  PROVE  /\ calls[c] \in AccountCalls
         /\ calls[c].ver \in Nat /\ calls[c].era \in Nat /\ calls[c].family \in Nat
         /\ Current(calls[c].ver, calls[c].era) /\ calls[c].era <= era
         /\ calls[c].pc \in Begun => calls[c].family = 0
         /\ calls[c].pc \in Rotating => /\ calls[c].jti \in 1..Len(tok)
                                        /\ calls[c].family = tok[calls[c].jti].family
         /\ \A q \in CallStates : LET x == [calls[c] EXCEPT !.pc = q]
                                  IN  /\ x \in AccountCalls /\ x.pc = q
                                      /\ x.jti = calls[c].jti /\ x.family = calls[c].family
                                      /\ x.ver = calls[c].ver /\ x.era = calls[c].era
BY DEF AuthInv, AuthTypes, AccountCalls, VersionsTell, CallsKnowTheirRow

LEMMA AuthFacts ==
  AuthInv => /\ era \in Nat /\ ended \in Nat /\ ended <= era /\ acct.ver \in Nat
             /\ acct \in [state : {"none", "active", "banned"} \cup States, ver : Nat]
             /\ Current(0, 0) /\ Current(0, era + 1) /\ Current(acct.ver, era)
<1> SUFFICES ASSUME AuthInv
    PROVE /\ era \in Nat /\ ended \in Nat /\ ended <= era /\ acct.ver \in Nat
          /\ acct \in [state : {"none", "active", "banned"} \cup States, ver : Nat]
          /\ Current(0, 0) /\ Current(0, era + 1) /\ Current(acct.ver, era)
  OBVIOUS
<1>1. /\ era \in Nat /\ ended \in Nat /\ ended <= era /\ acct.ver \in Nat
      /\ acct \in [state : {"none", "active", "banned"} \cup States, ver : Nat]
      /\ acct.ver = 0 => ended = 0
  BY DEF AuthInv, AuthTypes, VersionsTell
<1> QED BY <1>1 DEF Current

LEMMA NoCallIs ==
  /\ Auth!NoCall \in AccountCalls /\ Auth!NoCall.pc = "idle"
  /\ Auth!NoCall.family = 0 /\ Auth!NoCall.ver = 0 /\ Auth!NoCall.era = 0
BY DEF Auth!NoCall, AccountCalls, CallStates

\* A call goes on to its next step and nothing but rows and the account's state changes.
LEMMA GoesKeeps ==
  ASSUME AuthInv, NEW c \in Calls, NEW q \in CallStates, Auth!Goes(c, q),
         RowsKeep, acct' \in [state : {"none", "active", "banned"} \cup States, ver : Nat],
         acct'.ver = acct.ver, UNCHANGED <<era, ended>>,
         q \notin Begun,
         q \in Rotating => calls[c].pc \in Rotating,
         q = "save" => calls[c].pc \in Begun
  PROVE  AuthInv'
<1> DEFINE x == [calls[c] EXCEPT !.pc = q]
<1>1. /\ x \in AccountCalls /\ x.pc = q
      /\ x.jti = calls[c].jti /\ x.family = calls[c].family
      /\ x.ver = calls[c].ver /\ x.era = calls[c].era
  BY AuthCallIs
<1>2. calls' = [calls EXCEPT ![c] = x]
  BY DEF Auth!Goes
<1> HIDE DEF x
<1>3. /\ Current(x.ver, x.era) /\ x.era <= era' /\ era' \in {era, era + 1}
      /\ x.pc \in Begun => x.family = 0
      /\ x.pc \in Rotating => x.jti \in 1..Len(tok) /\ x.family = tok[x.jti].family
      /\ x.pc = "save" => x.family = 0
  BY <1>1, AuthCallIs
<1>4. \A f \in Nat \ {0} : (x.pc = "save" /\ x.family = f) =>
           \/ Succeeds(c, f)
           \/ /\ f <= Len(tok)
              /\ \A k \in 1..Len(tok) : tok[k].family = f => tok'[k].revoked
              /\ \A d \in Calls \ {c} : ~Succeeds(d, f)
  BY <1>3
<1>5. x \in AccountCalls /\ ended' = ended
  BY <1>1
<1> HIDE <1>1
<1> QED BY <1>2, <1>3, <1>4, <1>5, CallKeeps

\* A call ends.
LEMMA DoneKeeps ==
  ASSUME AuthInv, NEW c \in Calls, Auth!Done(c), RowsKeep,
         acct' \in [state : {"none", "active", "banned"} \cup States, ver : Nat],
         acct'.ver = acct.ver, UNCHANGED <<era, ended>>
  PROVE  AuthInv'
<1>1. /\ Auth!NoCall \in AccountCalls /\ Auth!NoCall.pc = "idle"
      /\ Auth!NoCall.ver = 0 /\ Auth!NoCall.era = 0
  BY DEF Auth!NoCall, AccountCalls, CallStates
<1>2. "idle" \notin Begun /\ "idle" \notin Rotating
  BY DEF Begun, Rotating
<1>3. calls' = [calls EXCEPT ![c] = Auth!NoCall] /\ era' \in {era, era + 1} /\ 0 <= era'
  BY AuthFacts DEF Auth!Done
<1> QED BY <1>1, <1>2, <1>3, AuthFacts, CallKeeps

\* A call begins.
LEMMA BeginsKeeps ==
  ASSUME AuthInv, NEW c \in Calls,
         NEW q \in Begun \cup {"link", "setPassword"}, Auth!Begins(c, q),
         UNCHANGED <<acct, tok, era, ended>>
  PROVE  AuthInv'
<1> DEFINE x == [Auth!NoCall EXCEPT !.pc = q, !.ver = acct.ver, !.era = era]
<1>1. /\ x \in AccountCalls /\ x.pc = q /\ x.family = 0 /\ x.ver = acct.ver /\ x.era = era
  <2>1. q \in CallStates /\ acct.ver \in Nat /\ era \in Nat
    BY AuthFacts DEF CallStates
  <2> QED BY <2>1, NoCallIs DEF AccountCalls
<1>2. calls' = [calls EXCEPT ![c] = x]
  BY DEF Auth!Begins
<1> HIDE DEF x
<1>3. q \notin Rotating /\ q # "save"
  BY DEF Begun, Rotating
<1>4. RowsKeep
  BY RevokingKeeps DEF AuthInv
<1>5. era' \in {era, era + 1} /\ x.era <= era'
  BY <1>1, AuthFacts
<1> QED BY <1>1, <1>2, <1>3, <1>4, <1>5, AuthFacts, CallKeeps

\* Sessions are ordered to end.
LEMMA OrderedKeeps ==
  ASSUME AuthInv, NEW c \in Calls,
         NEW q \in {"burnLinks", "bump"}, Auth!Ordered(c, q), UNCHANGED <<tok, ended>>,
         acct' \in [state : {"none", "active", "banned"} \cup States, ver : Nat],
         acct'.ver = acct.ver
  PROVE  AuthInv'
<1> DEFINE x == [Auth!NoCall EXCEPT !.pc = q, !.era = era + 1]
<1>1. /\ x \in AccountCalls /\ x.pc = q /\ x.family = 0 /\ x.ver = 0 /\ x.era = era + 1
  <2>1. q \in CallStates /\ era + 1 \in Nat
    BY AuthFacts DEF CallStates
  <2> QED BY <2>1, NoCallIs DEF AccountCalls
<1>2. calls' = [calls EXCEPT ![c] = x] /\ era' = era + 1
  BY DEF Auth!Ordered
<1> HIDE DEF x
<1>3. q \notin Rotating /\ q # "save" /\ q \notin Begun
  BY DEF Begun, Rotating
<1>4. RowsKeep
  BY RevokingKeeps DEF AuthInv
<1>5. era' \in {era, era + 1} /\ x.era <= era'
  BY <1>1, <1>2, AuthFacts
<1> QED BY <1>1, <1>2, <1>3, <1>4, <1>5, AuthFacts, CallKeeps

\* A row is added, stamped with what the call knows.
LEMMA issueSessionKeeps ==
  ASSUME AuthInv, NEW c \in Calls, Auth!issueSession(c)
  PROVE  AuthInv'
<1> DEFINE n == Len(tok)
           f == IF calls[c].family = 0 THEN n + 1 ELSE calls[c].family
           x == [family |-> f, ver |-> calls[c].ver, era |-> calls[c].era, revoked |-> FALSE]
<1>1. /\ calls[c].pc = "save" /\ tok' = Append(tok, x) /\ Auth!Done(c)
      /\ UNCHANGED <<acct, links, failures, lockedOut, era, ended, faultsA>>
  BY DEF Auth!issueSession
<1>2. /\ n \in Nat /\ f \in 1..n + 1 /\ calls[c].family \in Nat
      /\ f # n + 1 => Succeeds(c, f)
  <2>1. n \in Nat /\ calls[c].family \in Nat
    BY RowsAre, AuthCallIs DEF AuthInv
  <2>2. CASE calls[c].family = 0
    BY <2>1, <2>2
  <2>3. CASE calls[c].family # 0
    <3>1. Succeeds(c, f) /\ f \in Nat \ {0}
      BY <1>1, <2>1, <2>3 DEF Succeeds
    <3>2. f <= n
      BY <3>1 DEF AuthInv, SuccessorIsAwaited
    <3> QED BY <2>1, <3>1, <3>2
  <2> QED BY <2>2, <2>3
<1>3. x \in Tokens /\ x.family = f /\ x.ver = calls[c].ver /\ x.era = calls[c].era /\ ~x.revoked
  BY <1>2, AuthCallIs DEF Tokens
<1> HIDE DEF x, f
<1>4. /\ tok' \in Seq(Tokens) /\ Len(tok') = n + 1
      /\ \A k \in 1..n : tok'[k] = tok[k]
      /\ tok'[n + 1] = x
  BY <1>1, <1>3 DEF AuthInv, AuthTypes
<1>5. /\ calls' \in [Calls -> AccountCalls] /\ calls'[c] = Auth!NoCall
      /\ \A d \in Calls \ {c} : calls'[d] = calls[d]
  BY <1>1, NoCallIs DEF Auth!Done, AuthInv, AuthTypes
<1>6. "idle" \notin Begun /\ "idle" \notin Rotating
  BY DEF Begun, Rotating
<1> HIDE DEF n
<1>7. AuthTypes'
  BY <1>1, <1>4, <1>5 DEF AuthInv, AuthTypes
<1>8. \A k \in 1..n + 1 : k \in 1..n \/ k = n + 1
  BY <1>2
<1>9. VersionsTell'
  <2>1. Current(x.ver, x.era) /\ x.era <= era
    BY <1>3, AuthCallIs
  <2>2. \A d \in Calls : Current(calls'[d].ver, calls'[d].era) /\ calls'[d].era <= era
    BY <1>5, NoCallIs, AuthFacts DEF AuthInv, VersionsTell
  <2>3. \A k \in 1..n : Current(tok[k].ver, tok[k].era) /\ tok[k].era <= era
    BY DEF AuthInv, VersionsTell, n
  <2>4. \A k \in 1..n + 1 : Current(tok'[k].ver, tok'[k].era) /\ tok'[k].era <= era
    BY <1>4, <1>8, <2>1, <2>3
  <2> QED BY <1>1, <1>4, <2>2, <2>4 DEF AuthInv, VersionsTell, Current
<1>10. CallsKnowTheirRow'
  <2>1. \A d \in Calls : /\ calls[d].pc \in Begun => calls[d].family = 0
                         /\ calls[d].pc \in Rotating => /\ calls[d].jti \in 1..n
                                                        /\ calls[d].family = tok[calls[d].jti].family
    BY DEF AuthInv, CallsKnowTheirRow, n
  <2>2. \A k \in 1..n : k \in 1..n + 1 /\ tok'[k].family = tok[k].family
    BY <1>2, <1>4
  <2> QED BY <1>4, <1>5, <1>6, <2>1, <2>2, NoCallIs DEF CallsKnowTheirRow
<1>11. FamiliesBegin'
  <2>1. \A k \in 1..n : tok[k].family \in 1..k
    BY DEF AuthInv, FamiliesBegin, n
  <2> QED BY <1>2, <1>3, <1>4, <1>8, <2>1 DEF FamiliesBegin
<1>12. \A k \in 1..n : tok[k].family = f => tok[k].revoked
  <2> SUFFICES ASSUME NEW k \in 1..n, tok[k].family = f PROVE tok[k].revoked
    OBVIOUS
  <2>1. f # n + 1
    BY <1>2 DEF AuthInv, FamiliesBegin, n
  <2> QED BY <1>2, <2>1 DEF AuthInv, SuccessorIsAwaited, n
<1>13. SuccessorIsAwaited'
  <2> SUFFICES ASSUME NEW d \in Calls, NEW g \in Nat \ {0}, Succeeds(d, g)'
               PROVE  /\ g <= n + 1
                      /\ \A k \in 1..n + 1 : tok'[k].family = g => tok'[k].revoked
                      /\ \A b \in Calls : Succeeds(b, g)' => b = d
    BY <1>4 DEF SuccessorIsAwaited
  <2>1. \A b \in Calls : Succeeds(b, g)' => b # c /\ Succeeds(b, g)
    BY <1>5, NoCallIs DEF Succeeds
  <2>2. /\ g <= n
        /\ \A k \in 1..n : tok[k].family = g => tok[k].revoked
        /\ \A b \in Calls : Succeeds(b, g) => b = d
    BY <2>1 DEF AuthInv, SuccessorIsAwaited, n
  <2>3. f # g
    <3>1. f = n + 1 \/ Succeeds(c, f)
      BY <1>2
    <3> QED BY <1>2, <2>1, <2>2, <3>1
  <2> QED BY <1>2, <1>3, <1>4, <1>8, <2>1, <2>2, <2>3
<1>14. Auth!OneLiveToken'
  <2>1. \A j, k \in 1..n : tok[j].family = tok[k].family /\ ~tok[j].revoked /\ ~tok[k].revoked => j = k
    BY DEF AuthInv, Auth!OneLiveToken, Auth!Rows, n
  <2>2. \A j, k \in 1..n + 1 : tok'[j].family = tok'[k].family /\ ~tok'[j].revoked /\ ~tok'[k].revoked => j = k
    BY <1>3, <1>4, <1>8, <1>12, <2>1
  <2> QED BY <1>4, <2>2 DEF Auth!OneLiveToken, Auth!Rows
<1> QED BY <1>7, <1>9, <1>10, <1>11, <1>13, <1>14 DEF AuthInv

\* One call takes the row, the others that lost it look for its successor.
LEMMA revokeIfActiveKeeps ==
  ASSUME AuthInv, NEW c \in Calls, Auth!revokeIfActive(c)
  PROVE  AuthInv'
<1> DEFINE j == calls[c].jti
<1>1. /\ calls[c].pc = "revoke" /\ tok' = [tok EXCEPT ![j].revoked = TRUE]
      /\ Auth!Goes(c, IF tok[j].revoked THEN "resumeWait" ELSE "save")
      /\ UNCHANGED <<acct, links, failures, lockedOut, era, ended, faultsA>>
  BY DEF Auth!revokeIfActive
<1>2. j \in 1..Len(tok) /\ calls[c].family = tok[j].family /\ "revoke" \in Rotating
  BY <1>1, AuthCallIs DEF Rotating
<1>3. RowsKeep /\ tok'[j].revoked
  BY <1>1, <1>2, RevokingKeeps DEF AuthInv
<1>4. CASE tok[j].revoked
  <2>1. "resumeWait" \in CallStates /\ "resumeWait" \notin Begun /\ "resumeWait" # "save"
    BY DEF CallStates, Rotating, Begun
  <2>2. Auth!Goes(c, "resumeWait")
    BY <1>1, <1>4
  <2> QED BY <1>1, <1>2, <1>3, <2>1, <2>2, GoesKeeps, AuthFacts
<1>5. CASE ~tok[j].revoked
  <2> DEFINE x == [calls[c] EXCEPT !.pc = "save"]
  <2>1. /\ x \in AccountCalls /\ x.pc = "save"
        /\ x.jti = calls[c].jti /\ x.family = calls[c].family
        /\ x.ver = calls[c].ver /\ x.era = calls[c].era
    <3>1. "save" \in CallStates
      BY DEF CallStates
    <3> QED BY <3>1, AuthCallIs
  <2>2. calls' = [calls EXCEPT ![c] = x]
    BY <1>1, <1>5 DEF Auth!Goes
  <2> HIDE DEF x
  <2>3. x.pc \notin Begun /\ x.pc \notin Rotating
    BY <2>1 DEF Begun, Rotating
  <2>4. ASSUME NEW f \in Nat \ {0}, x.family = f
        PROVE  /\ f <= Len(tok)
               /\ \A k \in 1..Len(tok) : tok[k].family = f => tok'[k].revoked
               /\ \A d \in Calls \ {c} : ~Succeeds(d, f)
    <3>1. tok[j].family = f /\ Len(tok) \in Nat /\ f <= j
      <4>1. tok[j].family = f /\ Len(tok) \in Nat
        BY <1>2, <2>1, <2>4, RowsAre DEF AuthInv
      <4>2. tok[j].family \in 1..j
        BY <1>2 DEF AuthInv, FamiliesBegin
      <4> QED BY <4>1, <4>2
    <3>2. \A k \in 1..Len(tok) : tok[k].family = f /\ k # j => tok[k].revoked
      BY <1>2, <1>5, <3>1 DEF AuthInv, Auth!OneLiveToken, Auth!Rows
    <3>3. \A k \in 1..Len(tok) : tok[k].revoked => tok'[k].revoked
      BY <1>3 DEF RowsKeep
    <3>4. \A d \in Calls : ~Succeeds(d, f)
      BY <1>2, <1>5, <3>1 DEF AuthInv, SuccessorIsAwaited
    <3> QED BY <1>2, <1>3, <3>1, <3>2, <3>3, <3>4
  <2>5. x.era <= era' /\ era' \in {era, era + 1} /\ ended' = ended /\ Current(x.ver, x.era)
    BY <1>1, <2>1, AuthCallIs
  <2>6. /\ acct' \in [state : {"none", "active", "banned"} \cup States, ver : Nat]
        /\ acct'.ver = acct.ver
    BY <1>1, AuthFacts
  <2>7. \A f \in Nat \ {0} : (x.pc = "save" /\ x.family = f) =>
           \/ Succeeds(c, f)
           \/ /\ f <= Len(tok)
              /\ \A k \in 1..Len(tok) : tok[k].family = f => tok'[k].revoked
              /\ \A d \in Calls \ {c} : ~Succeeds(d, f)
    BY <2>4
  <2>8. x \in AccountCalls
    BY <2>1
  <2> HIDE <2>1
  <2> QED BY <1>3, <2>2, <2>3, <2>5, <2>6, <2>7, <2>8, CallKeeps
<1> QED BY <1>4, <1>5

\* The version is bumped: nothing carries it yet.
LEMMA BumpKeeps ==
  ASSUME AuthInv, AuthTypes', tok' = tok, acct'.ver = acct.ver + 1, era' >= era,
         \A c \in Calls : /\ calls'[c].era = calls[c].era /\ calls'[c].ver = calls[c].ver
                          /\ calls'[c].jti = calls[c].jti /\ calls'[c].family = calls[c].family
                          /\ calls'[c].pc = calls[c].pc \/ calls'[c].pc = "revokeAll"
  PROVE  AuthInv'
<1>1. /\ acct.ver \in Nat /\ acct'.ver = acct.ver + 1 /\ era \in Nat /\ era' \in Nat
      /\ \A k \in 1..Len(tok) : tok[k].ver \in Nat
      /\ \A c \in Calls : calls[c].ver \in Nat /\ calls[c].era \in Nat
  BY AuthFacts, RowsAre DEF AuthInv, AuthTypes, Tokens, AccountCalls
<1>2. VersionsTell'
  <2>1. \A k \in 1..Len(tok) : tok[k].ver <= acct.ver
    BY DEF AuthInv, VersionsTell, Current
  <2>2. \A c \in Calls : calls[c].ver <= acct.ver /\ calls[c].era <= era
    BY DEF AuthInv, VersionsTell, Current
  <2>3. \A k \in 1..Len(tok) : Current(tok[k].ver, tok[k].era)' /\ tok[k].era <= era'
    <3> SUFFICES ASSUME NEW k \in 1..Len(tok)
                 PROVE  Current(tok[k].ver, tok[k].era)' /\ tok[k].era <= era'
      OBVIOUS
    <3>1. tok[k].era <= era /\ tok[k].era \in Nat
      BY RowsAre DEF AuthInv, VersionsTell, AuthTypes, Tokens
    <3> QED BY <1>1, <2>1, <3>1 DEF Current
  <2>4. \A c \in Calls : Current(calls[c].ver, calls[c].era)' /\ calls'[c].era <= era'
    BY <1>1, <2>2 DEF Current
  <2>5. acct'.ver # 0
    BY <1>1
  <2> QED BY <2>3, <2>4, <2>5 DEF VersionsTell
<1>3. "revokeAll" \notin Begun \cup Rotating /\ "revokeAll" # "save"
  BY DEF Begun, Rotating
<1>4. CallsKnowTheirRow' /\ FamiliesBegin'
  BY <1>3 DEF AuthInv, CallsKnowTheirRow, FamiliesBegin
<1>5. SuccessorIsAwaited'
  BY <1>3 DEF AuthInv, SuccessorIsAwaited, Succeeds
<1>6. Auth!OneLiveToken'
  BY DEF AuthInv, Auth!OneLiveToken, Auth!Rows
<1> QED BY <1>2, <1>4, <1>5, <1>6 DEF AuthInv

LEMMA AuthInit == Auth!Init => AuthInv
<1> SUFFICES ASSUME Auth!Init PROVE AuthInv
  OBVIOUS
<1>1. /\ acct = [state |-> "none", ver |-> 0] /\ tok = <<>> /\ era = 0 /\ ended = 0
      /\ calls = [c \in Calls |-> Auth!NoCall]
  BY DEF Auth!Init
<1>2. Len(tok) = 0 /\ tok \in Seq(Tokens)
  BY <1>1
<1>3. AuthTypes
  BY <1>1, <1>2, NoCallIs DEF AuthTypes
<1>4. VersionsTell
  BY <1>1, <1>2, NoCallIs DEF VersionsTell, Current
<1>5. "idle" \notin Begun \cup Rotating /\ "idle" # "save"
  BY DEF Begun, Rotating
<1>6. CallsKnowTheirRow /\ SuccessorIsAwaited
  BY <1>1, <1>5, NoCallIs DEF CallsKnowTheirRow, SuccessorIsAwaited, Succeeds
<1>7. FamiliesBegin /\ Auth!OneLiveToken
  BY <1>2 DEF FamiliesBegin, Auth!OneLiveToken, Auth!Rows
<1> QED BY <1>3, <1>4, <1>6, <1>7 DEF AuthInv

\* Every step of one call keeps the invariant.
LEMMA AuthCallKeeps ==
  ASSUME AuthInv, NEW c \in Calls,
         \/ Auth!registerBegin(c) \/ Auth!registerCreate(c) \/ Auth!loginBegin(c) \/ Auth!loginRight(c)
         \/ Auth!loginWrong(c) \/ Auth!issueSession(c) \/ Auth!refreshFind(c)
         \/ Auth!revokeIfActive(c) \/ Auth!resumeUnusedSuccessor(c) \/ Auth!revokeFamily(c)
         \/ Auth!requestPasswordReset(c) \/ Auth!createLink(c) \/ Auth!resetPassword(c)
         \/ Auth!setPassword(c) \/ Auth!burnLinks(c) \/ Auth!logoutAll(c) \/ Auth!bumpTokenVersion(c)
         \/ Auth!revokeAllForUser(c) \/ Auth!callFails(c)
         \/ \E j \in Auth!Rows : Auth!refreshBegin(c, j)
         \/ \E s \in States : Auth!setAccountState(c, s)
  PROVE  AuthInv'
<1> DEFINE A == [state : {"none", "active", "banned"} \cup States, ver : Nat]
<1>1. acct \in A /\ AuthTypes
  BY AuthFacts DEF AuthInv
<1>2. \A q \in {"find", "revoke", "resume", "resumeWait", "revokeFamily"} : q \in Rotating
  BY DEF Rotating
<1>3. \A q \in {"create", "verify", "verifyBlocked"} : q \in Begun
  BY DEF Begun
<1>4. CallStates = Begun \cup Rotating \cup
        {"idle", "save", "link", "setPassword", "burnLinks", "bump", "revokeAll"}
  BY DEF CallStates
<1>5. \A q \in {"save", "burnLinks", "bump", "revokeAll"} : q \notin Begun \cup Rotating
  BY DEF Begun, Rotating
<1>6. \A q \in Rotating : q \notin Begun /\ q # "save"
  BY DEF Begun, Rotating
<1>7. tok' = tok => RowsKeep
  BY <1>1, RevokingKeeps
<1>8. \A x \in {"active", "suspended", "banned"} \cup States : x \in {"active", "banned"} \cup States =>
        LET b == [acct EXCEPT !.state = x] IN b \in A /\ b.ver = acct.ver
  BY <1>1
<1> HIDE DEF A
<1>10. CASE Auth!registerBegin(c)
  BY <1>3, <1>10, BeginsKeeps DEF Auth!registerBegin
<1>11. CASE Auth!registerCreate(c)
  <2>1. CASE acct.state = "none"
    <3>1. acct' \in A /\ acct'.ver = acct.ver /\ Auth!Goes(c, "save") /\ RowsKeep
      BY <1>7, <1>8, <1>11, <2>1 DEF Auth!registerCreate
    <3> QED BY <1>3, <1>4, <1>5, <1>11, <3>1, GoesKeeps DEF Auth!registerCreate, A
  <2>2. CASE acct.state # "none"
    BY <1>1, <1>7, <1>11, <2>2, DoneKeeps DEF Auth!registerCreate, A
  <2> QED BY <2>1, <2>2
<1>12. CASE Auth!loginBegin(c)
  <2> DEFINE q == IF Auth!checkLogin THEN "verify" ELSE "verifyBlocked"
  <2>1. q \in Begun /\ Auth!Begins(c, q) /\ UNCHANGED <<acct, tok, era, ended>>
    BY <1>3, <1>12 DEF Auth!loginBegin
  <2> HIDE DEF q
  <2> QED BY <2>1, BeginsKeeps
<1>13. CASE Auth!loginRight(c)
  <2>1. CASE calls[c].pc = "verify"
    <3>1. Auth!Goes(c, "save") /\ RowsKeep /\ UNCHANGED <<acct, tok, era, ended>>
      BY <1>7, <1>13, <2>1 DEF Auth!loginRight
    <3> QED BY <1>1, <1>3, <1>4, <1>5, <2>1, <3>1, GoesKeeps DEF A
  <2>2. CASE calls[c].pc # "verify"
    BY <1>1, <1>7, <1>13, <2>2, DoneKeeps DEF Auth!loginRight, A
  <2> QED BY <2>1, <2>2
<1>14. CASE Auth!loginWrong(c)
  BY <1>1, <1>7, <1>14, DoneKeeps DEF Auth!loginWrong, A
<1>15. CASE Auth!issueSession(c)
  BY <1>15, issueSessionKeeps
<1>16. CASE Auth!refreshFind(c)
  <2> DEFINE q == IF tok[calls[c].jti].revoked THEN "resume" ELSE "revoke"
  <2>1. /\ q \in Rotating /\ calls[c].pc \in Rotating /\ Auth!Goes(c, q) /\ RowsKeep
        /\ UNCHANGED <<acct, tok, era, ended>>
    BY <1>2, <1>7, <1>16 DEF Auth!refreshFind
  <2> HIDE DEF q
  <2>2. q \in CallStates /\ q \notin Begun /\ q # "save"
    BY <1>4, <1>6, <2>1
  <2> QED BY <1>1, <2>1, <2>2, GoesKeeps DEF A
<1>17. CASE Auth!revokeIfActive(c)
  BY <1>17, revokeIfActiveKeeps
<1>18. CASE Auth!resumeUnusedSuccessor(c)
  <2>1. /\ calls[c].pc \in Rotating /\ RowsKeep /\ UNCHANGED <<acct, tok, era, ended>>
        /\ Auth!Done(c) \/ Auth!Goes(c, "revokeFamily")
    BY <1>2, <1>7, <1>18 DEF Auth!resumeUnusedSuccessor
  <2>2. "revokeFamily" \in CallStates /\ "revokeFamily" \notin Begun /\ "revokeFamily" \in Rotating
    BY <1>2, <1>4, <1>6
  <2>3. CASE Auth!Done(c)
    BY <1>1, <2>1, <2>3, DoneKeeps DEF A
  <2>4. CASE Auth!Goes(c, "revokeFamily")
    BY <1>1, <2>1, <2>2, <2>4, GoesKeeps DEF A
  <2> QED BY <2>1, <2>3, <2>4
<1>19. CASE Auth!revokeFamily(c)
  <2>1. calls[c].family \in Nat
    BY AuthCallIs
  <2>2. RowsKeep
    BY <1>1, <1>19, <2>1, RevokingKeeps DEF Auth!revokeFamily
  <2> QED BY <1>1, <1>19, <2>2, DoneKeeps DEF Auth!revokeFamily, A
<1>20. CASE Auth!requestPasswordReset(c)
  BY <1>20, BeginsKeeps DEF Auth!requestPasswordReset
<1>21. CASE Auth!createLink(c)
  BY <1>1, <1>7, <1>21, DoneKeeps DEF Auth!createLink, A
<1>22. CASE Auth!resetPassword(c)
  BY <1>22, BeginsKeeps DEF Auth!resetPassword
<1>23. CASE Auth!setPassword(c)
  BY <1>1, <1>23, OrderedKeeps DEF Auth!setPassword, A
<1>24. CASE Auth!burnLinks(c)
  BY <1>1, <1>4, <1>5, <1>7, <1>24, GoesKeeps DEF Auth!burnLinks, A
<1>25. CASE Auth!logoutAll(c)
  BY <1>1, <1>25, OrderedKeeps DEF Auth!logoutAll, A
<1>26. CASE Auth!bumpTokenVersion(c)
  <2> DEFINE x == [calls[c] EXCEPT !.pc = "revokeAll"]
  <2>1. /\ calls' = [calls EXCEPT ![c] = x]
        /\ acct' = [acct EXCEPT !.ver = @ + 1] /\ tok' = tok /\ era' = era
        /\ ended' = IF calls[c].era > ended THEN calls[c].era ELSE ended
    BY <1>26 DEF Auth!bumpTokenVersion, Auth!Goes
  <2>2. /\ x \in AccountCalls /\ x.pc = "revokeAll"
        /\ x.jti = calls[c].jti /\ x.family = calls[c].family
        /\ x.ver = calls[c].ver /\ x.era = calls[c].era
    BY <1>4, AuthCallIs
  <2> HIDE DEF x
  <2>3. acct' \in A /\ acct'.ver = acct.ver + 1
    BY <1>1, <2>1 DEF A
  <2>4. /\ calls' \in [Calls -> AccountCalls] /\ calls'[c] = x
        /\ \A d \in Calls \ {c} : calls'[d] = calls[d]
    BY <2>1, <2>2 DEF AuthInv, AuthTypes
  <2>5. ended' \in Nat /\ ended' <= era /\ era' >= era /\ era' \in Nat
    BY <2>1, AuthFacts, AuthCallIs
  <2>6. AuthTypes'
    BY <2>1, <2>3, <2>4, <2>5 DEF AuthInv, AuthTypes, A
  <2>7. \A d \in Calls : /\ calls'[d].era = calls[d].era /\ calls'[d].ver = calls[d].ver
                         /\ calls'[d].jti = calls[d].jti /\ calls'[d].family = calls[d].family
                         /\ calls'[d].pc = calls[d].pc \/ calls'[d].pc = "revokeAll"
    BY <2>2, <2>4
  <2>8. tok' = tok
    BY <2>1
  <2> HIDE <2>1
  <2> QED BY <2>3, <2>5, <2>6, <2>7, <2>8, BumpKeeps
<1>27. CASE Auth!revokeAllForUser(c)
  <2>1. RowsKeep
    BY <1>1, <1>27, RevokingKeeps DEF Auth!revokeAllForUser
  <2> QED BY <1>1, <1>27, <2>1, DoneKeeps DEF Auth!revokeAllForUser, A
<1>28. CASE Auth!callFails(c)
  BY <1>1, <1>7, <1>28, DoneKeeps DEF Auth!callFails, A
<1>29. ASSUME NEW j \in Auth!Rows, Auth!refreshBegin(c, j) PROVE AuthInv'
  <2> DEFINE x == [pc |-> "find", jti |-> j, family |-> tok[j].family, ver |-> acct.ver, era |-> tok[j].era]
  <2>1. /\ tok[j].ver = acct.ver /\ calls' = [calls EXCEPT ![c] = x]
        /\ UNCHANGED <<acct, tok, links, failures, lockedOut, era, ended, faultsA>>
    BY <1>29 DEF Auth!refreshBegin
  <2>2. j \in 1..Len(tok) /\ j \in Nat /\ tok[j] \in Tokens /\ "find" \in CallStates
    BY <1>1, <1>2, <1>4, RowsAre
  <2>3. tok[j].family \in Nat /\ tok[j].ver \in Nat /\ tok[j].era \in Nat
    BY <2>2 DEF Tokens
  <2>4. /\ x \in AccountCalls /\ x.pc = "find" /\ x.jti = j /\ x.family = tok[j].family
        /\ x.ver = acct.ver /\ x.era = tok[j].era
    BY <1>1, <2>2, <2>3 DEF AccountCalls, A
  <2> HIDE DEF x
  <2>5. Current(tok[j].ver, tok[j].era)
    BY <2>2 DEF AuthInv, VersionsTell
  <2>6. tok[j].era <= era
    BY <2>2 DEF AuthInv, VersionsTell
  <2>7. x.pc \notin Begun /\ x.pc # "save" /\ x.pc \in Rotating
    BY <1>2, <1>6, <2>4
  <2>8. RowsKeep /\ ended' = ended /\ era' \in {era, era + 1} /\ acct' \in A /\ acct'.ver = acct.ver
    BY <1>1, <1>7, <2>1
  <2> QED BY <2>1, <2>2, <2>4, <2>5, <2>6, <2>7, <2>8, CallKeeps DEF A
<1>30. ASSUME NEW s \in States, Auth!setAccountState(c, s) PROVE AuthInv'
  <2>1. acct' \in A /\ acct'.ver = acct.ver /\ tok' = tok /\ ended' = ended
    BY <1>8, <1>30 DEF Auth!setAccountState
  <2>2. CASE s \in {"banned", "suspended"}
    BY <1>30, <2>1, <2>2, OrderedKeeps DEF Auth!setAccountState, A
  <2>3. CASE s \notin {"banned", "suspended"}
    <3>1. UNCHANGED <<calls, era, ended>> /\ RowsKeep
      BY <1>7, <1>30, <2>1, <2>3 DEF Auth!setAccountState
    <3>2. AuthTypes'
      BY <1>1, <2>1, <3>1 DEF AuthTypes, A
    <3> QED BY <2>1, <3>1, <3>2, RestKeeps
  <2> QED BY <2>2, <2>3
<1> QED BY <1>10, <1>11, <1>12, <1>13, <1>14, <1>15, <1>16, <1>17, <1>18, <1>19, <1>20, <1>21, <1>22,
           <1>23, <1>24, <1>25, <1>26, <1>27, <1>28, <1>29, <1>30

\* Every step of the accounts keeps the invariant.
LEMMA AuthStep == AuthInv /\ Auth!Next => AuthInv'
<1> SUFFICES ASSUME AuthInv, Auth!Next PROVE AuthInv'
  OBVIOUS
<1> DEFINE A == [state : {"none", "active", "banned"} \cup States, ver : Nat]
<1>1. acct \in A /\ AuthTypes /\ (tok' = tok => RowsKeep)
  BY AuthFacts, RevokingKeeps DEF AuthInv
<1>2. CASE Auth!lockLapses
  <2>1. AuthTypes' /\ RowsKeep /\ acct'.ver = acct.ver /\ UNCHANGED <<calls, era, ended>>
    BY <1>1, <1>2 DEF Auth!lockLapses, AuthTypes
  <2> QED BY <2>1, RestKeeps
<1>3. CASE Auth!suspensionLapses
  <2>1. AuthTypes' /\ RowsKeep /\ acct'.ver = acct.ver /\ UNCHANGED <<calls, era, ended>>
    BY <1>1, <1>3 DEF Auth!suspensionLapses, AuthTypes
  <2> QED BY <2>1, RestKeeps
<1>4. CASE Auth!deleteAccount
  <2>1. /\ acct'.ver = acct.ver + 1 /\ tok' = tok /\ calls' = calls
        /\ era' = era + 1 /\ ended' = era'
        /\ acct' \in A
    BY <1>1, <1>4 DEF Auth!deleteAccount
  <2>2. AuthTypes' /\ era' >= era
    BY <1>1, <2>1, AuthFacts DEF AuthTypes
  <2> QED BY <2>1, <2>2, BumpKeeps
<1>5. ASSUME NEW j \in Auth!Rows, Auth!logout(j) PROVE AuthInv'
  <2>1. RowsKeep
    BY <1>1, <1>5, RowsAre, RevokingKeeps DEF Auth!logout
  <2>2. AuthTypes' /\ acct'.ver = acct.ver /\ UNCHANGED <<calls, era, ended>>
    BY <1>1, <1>5, <2>1 DEF Auth!logout, AuthTypes, RowsKeep
  <2> QED BY <2>1, <2>2, RestKeeps
<1> QED BY <1>2, <1>3, <1>4, <1>5, AuthCallKeeps DEF Auth!Next

\* The invariant says what the run checks.
LEMMA SessionsEnd == AuthInv => Auth!EndedSessionsStayEnded /\ Auth!OneLiveToken
BY DEF AuthInv, VersionsTell, Current, Auth!EndedSessionsStayEnded, Auth!Usable, Auth!Rows

-----------------------------------------------------------------------------
(* Rewards: what a claim grants.                                           *)

Cosmetics == {"frame", "gem", "felt", "back"}
Errands == [pc : {"idle", "xp", "record", "frame", "gift", "pay", "payXp"},
            what : Prizes!Claims \cup {"felt", "back", Prizes!Nothing},
            owned : SUBSET Cosmetics]

\* The call c is at the step pc of the claim k.
At(c, pc, k) == errand[c].pc = pc /\ errand[c].what = k

\* The steps that only the call that holds the lock is at.
LockIsHeld == \A c \in Calls : errand[c].pc \notin {"idle", "payXp"} => holder = c

\* XP first and the record after: granted once more than the record was lost where it
\* stands recorded, or is about to be.
XpIsRecorded ==
    \A k \in XpClaims :
      /\ xpFor[k] <= unrecorded[k] + (IF k \in recorded \/ \E c \in Calls : At(c, "record", k) THEN 1 ELSE 0)
      /\ \A c \in Calls : At(c, "xp", k) => k \notin recorded

\* The record first, written or lost, and the XP after.
Due(k) == unrecorded[k] + (IF k \in recorded THEN 1 ELSE 0)
OnceRecorded ==
    \A k \in {"level", "vipGift"} :
      /\ xpFor[k] <= Due(k)
      /\ \A c \in Calls : /\ At(c, "xp", k) => xpFor[k] + 1 <= Due(k)
                          /\ At(c, "record", k) => k \notin recorded

\* What a claim that will write the whole column read of it holds the purchases.
GiftIsFresh ==
    \A c \in Calls : errand[c].pc = "gift" => ("felt" \in errand[c].owned <=> "felt" \in owned)

PrizesTypes ==
    /\ recorded \in SUBSET Prizes!Claims
    /\ xpFor \in [Prizes!Claims -> Nat]
    /\ owned \in SUBSET Cosmetics
    /\ errand \in [Calls -> Errands]
    /\ \A c \in Calls : errand[c].pc \in {"xp", "record"} => errand[c].what \in Prizes!Claims
    /\ unrecorded \in [Prizes!Claims -> Nat]
    /\ faultsR \in 0..MaxFaultsR

PrizesInv == PrizesTypes /\ LockIsHeld /\ XpIsRecorded /\ OnceRecorded /\ GiftIsFresh /\ Prizes!PaidIsOwned

\* The claims.
LEMMA ClaimsAre ==
  /\ Prizes!Claims = XpClaims \cup {"level", "vipGift"}
  /\ "level" \notin XpClaims /\ "vipGift" \notin XpClaims
BY RewardsAssumption DEF Prizes!Claims

\* A call that begins at the step pc.
LEMMA ReadsKeeps ==
  ASSUME PrizesInv, NEW c \in Calls,
         NEW pc \in {"xp", "record", "gift", "pay", "payXp"},
         NEW k \in Prizes!Claims \cup {"felt", "back"},
         Prizes!Reads(c, pc, k),
         pc # "payXp" => Prizes!withUserLock(c),
         pc = "payXp" => UNCHANGED holder,
         pc = "xp" => k \in XpClaims \ recorded,
         pc = "record" => k \in {"level", "vipGift"} \ recorded,
         UNCHANGED <<recorded, xpFor, owned, charged, unrecorded, faultsR>>
  PROVE  PrizesInv'
<1>1. /\ errand[c] = Prizes!NoErrand
      /\ errand' = [errand EXCEPT ![c] = [pc |-> pc, what |-> k, owned |-> owned]]
      /\ errand'[c] = [pc |-> pc, what |-> k, owned |-> owned]
      /\ \A d \in Calls \ {c} : errand'[d] = errand[d]
  BY DEF Prizes!Reads, PrizesInv, PrizesTypes
<1>2. errand' \in [Calls -> Errands]
  BY <1>1 DEF PrizesInv, PrizesTypes, Errands
<1>3. PrizesTypes'
  BY <1>1, <1>2, ClaimsAre DEF PrizesInv, PrizesTypes
<1>4. LockIsHeld' 
  <2>1. pc # "payXp" => \A d \in Calls : errand[d].pc \in {"idle", "payXp"}
    BY RewardsAssumption DEF Prizes!withUserLock, PrizesInv, LockIsHeld
  <2> QED BY <1>1, <2>1 DEF Prizes!withUserLock, PrizesInv, LockIsHeld
<1>5. \A d \in Calls : \A st, q : At(d, st, q)' <=> IF d = c THEN st = pc /\ q = k ELSE At(d, st, q)
  BY <1>1 DEF At
<1>6. \A st, q : At(c, st, q) => st = "idle"
  BY <1>1 DEF At, Prizes!NoErrand
<1>7. XpIsRecorded'
  <2> SUFFICES ASSUME NEW q \in XpClaims
      PROVE /\ xpFor[q] <= unrecorded[q]
                       + (IF q \in recorded \/ \E d \in Calls : At(d, "record", q)' THEN 1 ELSE 0)
            /\ \A d \in Calls : At(d, "xp", q)' => q \notin recorded
    BY DEF XpIsRecorded
  <2>1. (\E d \in Calls : At(d, "record", q)) => \E d \in Calls : At(d, "record", q)'
    BY <1>5, <1>6
  <2>2. /\ xpFor[q] <= unrecorded[q]
                       + (IF q \in recorded \/ \E d \in Calls : At(d, "record", q) THEN 1 ELSE 0)
        /\ \A d \in Calls : At(d, "xp", q) => q \notin recorded
    BY DEF PrizesInv, XpIsRecorded
  <2>3. xpFor[q] \in Nat /\ unrecorded[q] \in Nat
    BY ClaimsAre DEF PrizesInv, PrizesTypes
  <2> QED BY <1>5, <2>1, <2>2, <2>3
<1>8. OnceRecorded'
  BY <1>5, ClaimsAre DEF PrizesInv, OnceRecorded, Due
<1>9. GiftIsFresh' /\ Prizes!PaidIsOwned'
  BY <1>1 DEF PrizesInv, GiftIsFresh, Prizes!PaidIsOwned
<1> QED BY <1>3, <1>4, <1>7, <1>8, <1>9 DEF PrizesInv

\* While a call is past its read under the lock, every other call is at rest, or is a
\* purchase with XP.
LEMMA OthersRest ==
  ASSUME PrizesInv, NEW c \in Calls, errand[c].pc \notin {"idle", "payXp"}
  PROVE  /\ holder = c
         /\ \A d \in Calls \ {c} : errand[d].pc \in {"idle", "payXp"}
BY DEF PrizesInv, LockIsHeld

\* What is known of a call, its end and its next step.
LEMMA CallIs ==
  ASSUME PrizesInv, NEW c \in Calls
  PROVE  /\ errand[c].pc \in {"idle", "xp", "record", "frame", "gift", "pay", "payXp"}
         /\ errand[c].pc \in {"xp", "record"} => errand[c].what \in Prizes!Claims
         /\ errand[c].owned \in SUBSET Cosmetics
         /\ Prizes!Finish(c) => /\ errand' \in [Calls -> Errands]
                                /\ errand'[c].pc = "idle"
                                /\ \A d \in Calls \ {c} : errand'[d] = errand[d]
         /\ \A pc \in {"xp", "record", "frame"} : Prizes!Step(c, pc) =>
              /\ errand' \in [Calls -> Errands]
              /\ errand'[c].pc = pc /\ errand'[c].what = errand[c].what
              /\ \A d \in Calls \ {c} : errand'[d] = errand[d]
<1>1. errand[c] \in Errands /\ errand \in [Calls -> Errands]
  BY DEF PrizesInv, PrizesTypes
<1>2. Prizes!NoErrand \in Errands /\ Prizes!NoErrand.pc = "idle"
  BY DEF Prizes!NoErrand, Errands
<1>3. ASSUME NEW pc \in {"xp", "record", "frame"}, Prizes!Step(c, pc)
      PROVE  /\ errand' \in [Calls -> Errands]
             /\ errand'[c].pc = pc /\ errand'[c].what = errand[c].what
             /\ \A d \in Calls \ {c} : errand'[d] = errand[d]
  <2>1. errand' = [errand EXCEPT ![c] = [errand[c] EXCEPT !.pc = pc]]
    BY <1>1, <1>3 DEF Prizes!Step
  <2>2. [errand[c] EXCEPT !.pc = pc] \in Errands
    BY <1>1 DEF Errands
  <2>3. [errand[c] EXCEPT !.pc = pc].pc = pc /\ [errand[c] EXCEPT !.pc = pc].what = errand[c].what
    BY <1>1 DEF Errands
  <2> QED BY <1>1, <2>1, <2>2, <2>3
<1>4. Prizes!Finish(c) => /\ errand' \in [Calls -> Errands]
                          /\ errand'[c].pc = "idle"
                          /\ \A d \in Calls \ {c} : errand'[d] = errand[d]
  BY <1>1, <1>2 DEF Prizes!Finish
<1>5. errand[c].owned \in SUBSET Cosmetics
  BY <1>1 DEF Errands
<1>6. errand[c].pc \in {"idle", "xp", "record", "frame", "gift", "pay", "payXp"}
  BY <1>1 DEF Errands
<1> QED BY <1>3, <1>4, <1>5, <1>6 DEF PrizesInv, PrizesTypes

\* The lock is given back by the call that ends, and kept by the one that goes on.
LEMMA LockKeeps ==
  ASSUME PrizesInv, NEW c \in Calls, errand[c].pc # "idle",
         \A d \in Calls \ {c} : errand'[d] = errand[d],
         \/ errand'[c].pc = "idle" /\ Prizes!Unlock(c)
         \/ errand[c].pc # "payXp" /\ UNCHANGED holder
         \/ errand'[c].pc = "idle" /\ UNCHANGED holder
  PROVE  LockIsHeld'
<1> SUFFICES ASSUME NEW d \in Calls, errand'[d].pc \notin {"idle", "payXp"} PROVE holder' = d
  BY DEF LockIsHeld
<1>1. CASE d = c
  BY <1>1 DEF PrizesInv, LockIsHeld
<1>2. CASE d # c
  <2>1. holder = d
    BY <1>2 DEF PrizesInv, LockIsHeld
  <2> QED BY <1>2, <2>1 DEF Prizes!Unlock
<1> QED BY <1>1, <1>2

\* The XP is added.
LEMMA addXpKeeps ==
  ASSUME PrizesInv, NEW c \in Calls, Prizes!addXp(c)
  PROVE  PrizesInv'
<1> DEFINE k == errand[c].what
<1>1. /\ errand[c].pc = "xp" /\ k \in Prizes!Claims
      /\ xpFor' = [xpFor EXCEPT ![k] = @ + 1]
      /\ UNCHANGED <<recorded, owned, charged, spent, unrecorded, faultsR>>
  BY CallIs DEF Prizes!addXp
<1>2. /\ errand' \in [Calls -> Errands]
      /\ \A d \in Calls \ {c} : errand'[d] = errand[d]
      /\ IF k \in XpClaims THEN errand'[c].pc = "record" /\ errand'[c].what = k
         ELSE IF k = "level" THEN errand'[c].pc = "frame" ELSE errand'[c].pc = "idle"
      /\ errand'[c].pc = "idle" => Prizes!Unlock(c)
      /\ errand'[c].pc # "idle" => UNCHANGED holder
  BY CallIs, <1>1 DEF Prizes!addXp
<1>3. \A d \in Calls \ {c} : errand[d].pc \in {"idle", "payXp"}
  BY <1>1, OthersRest
<1>4. /\ xpFor \in [Prizes!Claims -> Nat] /\ xpFor' \in [Prizes!Claims -> Nat]
      /\ xpFor'[k] = xpFor[k] + 1 /\ \A q \in Prizes!Claims \ {k} : xpFor'[q] = xpFor[q]
  BY <1>1 DEF PrizesInv, PrizesTypes
<1>5. PrizesTypes'
  BY <1>1, <1>2, <1>4, ClaimsAre DEF PrizesInv, PrizesTypes
<1>6. LockIsHeld'
  BY <1>1, <1>2, LockKeeps
<1> HIDE DEF k
<1>7. ASSUME NEW q \in XpClaims
      PROVE  /\ xpFor'[q] <= unrecorded[q]
                       + (IF q \in recorded \/ \E d \in Calls : At(d, "record", q)' THEN 1 ELSE 0)
             /\ \A d \in Calls : At(d, "xp", q)' => q \notin recorded
  <2>1. ~\E d \in Calls : At(d, "record", q)
    BY <1>1, <1>3 DEF At
  <2>2. ~\E d \in Calls : At(d, "xp", q)'
    BY <1>2, <1>3 DEF At
  <2>3. /\ xpFor[q] <= unrecorded[q] + (IF q \in recorded THEN 1 ELSE 0)
        /\ xpFor[q] \in Nat /\ unrecorded[q] \in Nat
    BY <2>1, <1>4, ClaimsAre DEF PrizesInv, XpIsRecorded, PrizesTypes
  <2>4. CASE q = k
    <3>1. At(c, "xp", k)
      BY <1>1 DEF At, k
    <3>2. q \notin recorded
      BY <2>4, <3>1 DEF PrizesInv, XpIsRecorded
    <3>3. At(c, "record", q)'
      BY <1>2, <2>4 DEF At
    <3>4. xpFor'[q] = xpFor[q] + 1
      BY <1>4, <2>4
    <3> QED BY <2>2, <2>3, <3>2, <3>3, <3>4
  <2>5. CASE q # k
    <3>1. xpFor'[q] = xpFor[q]
      BY <1>4, <2>5, ClaimsAre
    <3> QED BY <2>2, <2>3, <3>1
  <2> QED BY <2>4, <2>5
<1>8. XpIsRecorded'
  BY <1>1, <1>7 DEF XpIsRecorded
<1>9. ASSUME NEW q \in {"level", "vipGift"}
      PROVE  /\ xpFor'[q] <= Due(q)
             /\ \A d \in Calls : ~At(d, "xp", q)' /\ ~At(d, "record", q)'
  <2>1. \A d \in Calls : ~At(d, "xp", q)' /\ ~At(d, "record", q)'
    BY <1>2, <1>3, ClaimsAre DEF At
  <2>2. CASE q = k
    <3>1. At(c, "xp", k)
      BY <1>1 DEF At, k
    <3>2. xpFor[q] + 1 <= Due(q)
      BY <2>2, <3>1 DEF PrizesInv, OnceRecorded
    <3> QED BY <1>4, <2>1, <2>2, <3>2
  <2>3. CASE q # k
    BY <1>4, <2>1, <2>3, ClaimsAre DEF PrizesInv, OnceRecorded
  <2> QED BY <2>2, <2>3
<1>10. OnceRecorded'
  BY <1>1, <1>9 DEF OnceRecorded, Due
<1>11. GiftIsFresh' /\ Prizes!PaidIsOwned'
  BY <1>1, <1>2, <1>3 DEF PrizesInv, GiftIsFresh, Prizes!PaidIsOwned
<1> QED BY <1>5, <1>6, <1>8, <1>10, <1>11 DEF PrizesInv

\* The claim is recorded.
LEMMA recordClaimKeeps ==
  ASSUME PrizesInv, NEW c \in Calls, Prizes!recordClaim(c)
  PROVE  PrizesInv'
<1> DEFINE k == errand[c].what
<1>1. /\ errand[c].pc = "record" /\ k \in Prizes!Claims
      /\ \/ recorded' = recorded \cup {k} /\ faultsR' = faultsR
         \/ recorded' = recorded /\ faultsR' = faultsR + 1 /\ faultsR < MaxFaultsR
      /\ unrecorded' = IF k \in recorded' THEN unrecorded ELSE Prizes!Missed(k)
      /\ UNCHANGED <<xpFor, owned, charged, spent>>
  BY CallIs DEF Prizes!recordClaim, Prizes!setRewards
<1>2. /\ errand' \in [Calls -> Errands]
      /\ \A d \in Calls \ {c} : errand'[d] = errand[d]
      /\ IF k \in XpClaims THEN errand'[c].pc = "idle"
         ELSE errand'[c].pc = "xp" /\ errand'[c].what = k
      /\ errand'[c].pc = "idle" => Prizes!Unlock(c)
      /\ errand'[c].pc # "idle" => UNCHANGED holder
  BY CallIs, <1>1 DEF Prizes!recordClaim
<1>3. \A d \in Calls \ {c} : errand[d].pc \in {"idle", "payXp"}
  BY <1>1, OthersRest
<1>11. /\ unrecorded \in [Prizes!Claims -> Nat] /\ unrecorded' \in [Prizes!Claims -> Nat]
       /\ unrecorded'[k] = (IF k \in recorded' THEN unrecorded[k] ELSE unrecorded[k] + 1)
       /\ \A q \in Prizes!Claims \ {k} : unrecorded'[q] = unrecorded[q]
  BY <1>1 DEF PrizesInv, PrizesTypes, Prizes!Missed
<1>4. PrizesTypes'
  BY <1>1, <1>2, <1>11, RewardsAssumption DEF PrizesInv, PrizesTypes
<1>5. LockIsHeld'
  BY <1>1, <1>2, LockKeeps
<1> HIDE DEF k
<1>6. ASSUME NEW q \in XpClaims
      PROVE  /\ xpFor[q] <= unrecorded'[q]
                       + (IF q \in recorded' \/ \E d \in Calls : At(d, "record", q)' THEN 1 ELSE 0)
             /\ \A d \in Calls : ~At(d, "xp", q)'
  <2>1. \A d \in Calls : At(d, "record", q) => q = k
    BY <1>3 DEF At, k
  <2>2. \A d \in Calls : ~At(d, "xp", q)'
    BY <1>2, <1>3, ClaimsAre DEF At
  <2>3. /\ xpFor[q] <= unrecorded[q] + (IF q \in recorded \/ q = k THEN 1 ELSE 0)
        /\ xpFor[q] \in Nat /\ unrecorded[q] \in Nat
    BY <2>1, ClaimsAre DEF PrizesInv, XpIsRecorded, PrizesTypes
  <2>4. CASE q = k
    BY <1>11, <2>2, <2>3, <2>4
  <2>5. CASE q # k
    <3>1. unrecorded'[q] = unrecorded[q] /\ (q \in recorded => q \in recorded')
      BY <1>1, <1>11, <2>5, ClaimsAre
    <3> QED BY <2>2, <2>3, <2>5, <3>1
  <2> QED BY <2>4, <2>5
<1>7. XpIsRecorded'
  BY <1>1, <1>6 DEF XpIsRecorded
<1>8. ASSUME NEW q \in {"level", "vipGift"}
      PROVE  /\ xpFor[q] <= Due(q)'
             /\ \A d \in Calls : (At(d, "xp", q)' => xpFor[q] + 1 <= Due(q)')
                                 /\ ~At(d, "record", q)'
  <2>1. \A d \in Calls : ~At(d, "record", q)' /\ (At(d, "xp", q)' => q = k)
    BY <1>2, <1>3 DEF At
  <2>2. q = k => q \notin recorded
    <3>1. At(c, "record", k)
      BY <1>1 DEF At, k
    <3> QED BY <1>1, <3>1 DEF PrizesInv, OnceRecorded
  <2>3. /\ xpFor[q] <= unrecorded[q] + (IF q \in recorded THEN 1 ELSE 0)
        /\ xpFor[q] \in Nat /\ unrecorded[q] \in Nat
    BY ClaimsAre DEF PrizesInv, OnceRecorded, PrizesTypes, Due
  <2>4. Due(q)' = unrecorded'[q] + (IF q \in recorded' THEN 1 ELSE 0)
    BY DEF Due
  <2>5. CASE q = k
    <3>1. xpFor[q] + 1 <= Due(q)'
      BY <1>11, <2>2, <2>3, <2>4, <2>5
    <3>2. Due(q)' \in Nat
      BY <1>11, <2>4, <2>5, ClaimsAre
    <3> QED BY <2>1, <2>3, <3>1, <3>2
  <2>6. CASE q # k
    <3>1. unrecorded'[q] = unrecorded[q] /\ (q \in recorded => q \in recorded')
      BY <1>1, <1>11, <2>6, ClaimsAre
    <3> QED BY <2>1, <2>3, <2>4, <2>6, <3>1
  <2> QED BY <2>5, <2>6
<1>9. OnceRecorded'
  BY <1>1, <1>8 DEF OnceRecorded
<1>10. GiftIsFresh' /\ Prizes!PaidIsOwned'
  BY <1>1, <1>2, <1>3 DEF PrizesInv, GiftIsFresh, Prizes!PaidIsOwned
<1> QED BY <1>4, <1>5, <1>7, <1>9, <1>10 DEF PrizesInv

\* A call that ends without an XP grant or a mark.
LEMMA EndKeeps ==
  ASSUME PrizesInv, NEW c \in Calls, errand[c].pc \in {"frame", "gift", "pay", "payXp"},
         Prizes!Finish(c),
         Prizes!Unlock(c) \/ (errand[c].pc = "payXp" /\ UNCHANGED holder),
         \/ recorded' = recorded
         \/ errand[c].pc = "gift" /\ recorded' = recorded \cup {"vipGift"},
         owned' \in SUBSET Cosmetics,
         errand[c].pc \in {"frame", "payXp"} => ("felt" \in owned' <=> "felt" \in owned),
         "felt" \in owned' <=> "felt" \in charged',
         faultsR' \in 0..MaxFaultsR,
         UNCHANGED <<xpFor, unrecorded>>
  PROVE  PrizesInv'
<1>1. /\ errand' \in [Calls -> Errands]
      /\ errand'[c].pc = "idle"
      /\ \A d \in Calls \ {c} : errand'[d] = errand[d]
  BY CallIs
<1>2. PrizesTypes'
  BY <1>1, ClaimsAre DEF PrizesInv, PrizesTypes
<1>3. LockIsHeld'
  BY <1>1, LockKeeps
<1>4. ASSUME NEW d \in Calls, NEW q
      PROVE  (At(d, "record", q)' <=> At(d, "record", q)) /\ (At(d, "xp", q)' <=> At(d, "xp", q))
  BY <1>1 DEF At
<1>5. recorded' # recorded => "vipGift" \in recorded' /\ \A q \in XpClaims : q \in recorded' <=> q \in recorded
  BY ClaimsAre
<1>6. XpIsRecorded'
  <2> SUFFICES ASSUME NEW q \in XpClaims
      PROVE  /\ xpFor[q] <= unrecorded[q]
                   + (IF q \in recorded' \/ \E d \in Calls : At(d, "record", q)' THEN 1 ELSE 0)
             /\ \A d \in Calls : At(d, "xp", q)' => q \notin recorded'
    BY DEF XpIsRecorded
  <2>1. /\ (\E d \in Calls : At(d, "record", q)') <=> (\E d \in Calls : At(d, "record", q))
        /\ \A d \in Calls : At(d, "xp", q)' <=> At(d, "xp", q)
    BY <1>4
  <2>2. q \in recorded' <=> q \in recorded
    BY <1>5
  <2> QED BY <2>1, <2>2 DEF PrizesInv, XpIsRecorded
<1>7. OnceRecorded'
  <2> SUFFICES ASSUME NEW q \in {"level", "vipGift"}
      PROVE  /\ xpFor[q] <= Due(q)'
             /\ \A d \in Calls : /\ At(d, "xp", q)' => xpFor[q] + 1 <= Due(q)'
                                 /\ At(d, "record", q)' => q \notin recorded'
    BY DEF OnceRecorded
  <2>1. recorded' # recorded => \A d \in Calls : errand[d].pc # "record"
    BY OthersRest
  <2>2. \A d \in Calls : (At(d, "record", q)' <=> At(d, "record", q)) /\ (At(d, "xp", q)' <=> At(d, "xp", q))
    BY <1>4
  <2>3. /\ xpFor[q] <= Due(q)
        /\ \A d \in Calls : /\ At(d, "xp", q) => xpFor[q] + 1 <= Due(q)
                            /\ At(d, "record", q) => q \notin recorded
        /\ xpFor[q] \in Nat /\ unrecorded[q] \in Nat
    BY ClaimsAre DEF PrizesInv, OnceRecorded, PrizesTypes
  <2>4. \A d \in Calls : At(d, "record", q) => recorded' = recorded
    BY <2>1 DEF At
  <2>5. Due(q) \in Nat /\ Due(q)' \in Nat /\ Due(q) <= Due(q)'
    BY <2>3 DEF Due
  <2> QED BY <2>2, <2>3, <2>4, <2>5
<1>8. GiftIsFresh'
  BY <1>1, OthersRest DEF PrizesInv, GiftIsFresh
<1> QED BY <1>2, <1>3, <1>6, <1>7, <1>8 DEF PrizesInv, Prizes!PaidIsOwned

\* A call ends because a step of the database failed.
LEMMA rewardFailsKeeps ==
  ASSUME PrizesInv, NEW c \in Calls, Prizes!rewardFails(c)
  PROVE  PrizesInv'
<1> DEFINE k == errand[c].what
<1>1. /\ errand[c] # Prizes!NoErrand /\ faultsR < MaxFaultsR /\ faultsR' = faultsR + 1
      /\ unrecorded' = IF errand[c].pc = "record" /\ k \in XpClaims THEN Prizes!Missed(k) ELSE unrecorded
      /\ UNCHANGED <<recorded, xpFor, owned, charged, spent>>
  BY DEF Prizes!rewardFails
<1>2. /\ errand' \in [Calls -> Errands]
      /\ errand'[c].pc = "idle"
      /\ \A d \in Calls \ {c} : errand'[d] = errand[d]
      /\ Prizes!Unlock(c)
  BY CallIs DEF Prizes!rewardFails
<1>9. /\ unrecorded \in [Prizes!Claims -> Nat] /\ unrecorded' \in [Prizes!Claims -> Nat]
      /\ \A q \in Prizes!Claims : unrecorded'[q] =
           IF errand[c].pc = "record" /\ q = k /\ k \in XpClaims THEN unrecorded[q] + 1 ELSE unrecorded[q]
  BY <1>1, ClaimsAre DEF PrizesInv, PrizesTypes, Prizes!Missed
<1>3. PrizesTypes'
  BY <1>1, <1>2, <1>9, RewardsAssumption DEF PrizesInv, PrizesTypes
<1>4. LockIsHeld'
  <2>1. \A d \in Calls \ {c} : errand[d].pc \notin {"idle", "payXp"} => holder = d
    BY DEF PrizesInv, LockIsHeld
  <2>2. \A d \in Calls \ {c} : errand[d].pc \notin {"idle", "payXp"} => holder' = d
    BY <1>2, <2>1 DEF Prizes!Unlock
  <2> QED BY <1>2, <2>2 DEF LockIsHeld
<1> HIDE DEF k
<1>5. ASSUME NEW q \in XpClaims
      PROVE  /\ xpFor[q] <= unrecorded'[q]
                       + (IF q \in recorded \/ \E d \in Calls : At(d, "record", q)' THEN 1 ELSE 0)
             /\ \A d \in Calls : At(d, "xp", q)' => q \notin recorded
  <2>1. \A d \in Calls : At(d, "xp", q)' => At(d, "xp", q)
    BY <1>2 DEF At
  <2>2. \A d \in Calls : At(d, "record", q) => \/ At(d, "record", q)'
                                               \/ d = c /\ errand[c].pc = "record" /\ q = k
    BY <1>1, <1>2 DEF At, k
  <2>3. /\ xpFor[q] <= unrecorded[q]
                       + (IF q \in recorded \/ \E d \in Calls : At(d, "record", q) THEN 1 ELSE 0)
        /\ xpFor[q] \in Nat /\ unrecorded[q] \in Nat
        /\ \A d \in Calls : At(d, "xp", q) => q \notin recorded
    BY <1>1, ClaimsAre DEF PrizesInv, XpIsRecorded, PrizesTypes
  <2>4. unrecorded'[q] = IF errand[c].pc = "record" /\ q = k THEN unrecorded[q] + 1 ELSE unrecorded[q]
    BY <1>9, ClaimsAre
  <2>5. CASE errand[c].pc = "record" /\ q = k
    BY <2>1, <2>3, <2>4, <2>5
  <2>6. CASE ~(errand[c].pc = "record" /\ q = k)
    <3>1. (\E d \in Calls : At(d, "record", q)) => \E d \in Calls : At(d, "record", q)'
      BY <2>2, <2>6
    <3> QED BY <2>1, <2>3, <2>4, <2>6, <3>1
  <2> QED BY <2>5, <2>6
<1>6. XpIsRecorded'
  BY <1>1, <1>5 DEF XpIsRecorded
<1>7. OnceRecorded'
  <2>1. \A q \in {"level", "vipGift"} : unrecorded'[q] = unrecorded[q]
    BY <1>9, ClaimsAre
  <2> QED BY <1>1, <1>2, <2>1 DEF PrizesInv, OnceRecorded, At, Due
<1>8. GiftIsFresh' /\ Prizes!PaidIsOwned'
  BY <1>1, <1>2 DEF PrizesInv, GiftIsFresh, Prizes!PaidIsOwned
<1> QED BY <1>3, <1>4, <1>6, <1>7, <1>8 DEF PrizesInv

LEMMA PrizesInit == Prizes!Init => PrizesInv
<1> SUFFICES ASSUME Prizes!Init PROVE PrizesInv
  OBVIOUS
<1>1. \A c \in Calls : errand[c] = Prizes!NoErrand
  BY DEF Prizes!Init
<1>2. Prizes!NoErrand \in Errands /\ Prizes!NoErrand.pc = "idle"
  BY DEF Prizes!NoErrand, Errands
<1>3. errand \in [Calls -> Errands]
  BY <1>2 DEF Prizes!Init
<1>4. PrizesTypes
  BY <1>1, <1>2, <1>3, RewardsAssumption DEF PrizesTypes, Prizes!Init
<1>5. \A q \in Prizes!Claims : xpFor[q] = 0 /\ unrecorded[q] = 0
  BY DEF Prizes!Init
<1>6. XpIsRecorded /\ OnceRecorded
  BY <1>1, <1>2, <1>5, ClaimsAre DEF XpIsRecorded, OnceRecorded, Due, At, Prizes!Init
<1> QED BY <1>1, <1>2, <1>4, <1>6 DEF PrizesInv, LockIsHeld, GiftIsFresh, Prizes!PaidIsOwned, Prizes!Init

\* Every step of the rewards keeps the invariant.
LEMMA PrizesStep == PrizesInv /\ Prizes!Next => PrizesInv'
<1> SUFFICES ASSUME PrizesInv, NEW c \in Calls,
                    \/ \E k \in XpClaims : Prizes!claim(c, k)
                    \/ Prizes!claimLevelReward(c) \/ Prizes!claimVipGift(c) \/ Prizes!addXp(c)
                    \/ Prizes!recordClaim(c) \/ Prizes!grantFrame(c) \/ Prizes!grantGift(c)
                    \/ Prizes!buy(c) \/ Prizes!pay(c) \/ Prizes!buyXp(c) \/ Prizes!payXp(c)
                    \/ Prizes!rewardFails(c)
             PROVE  PrizesInv'
  BY DEF Prizes!Next
<1>1. ASSUME NEW k \in XpClaims, Prizes!claim(c, k) PROVE PrizesInv'
  BY <1>1, ReadsKeeps, ClaimsAre DEF Prizes!claim
<1>2. ASSUME Prizes!claimLevelReward(c) PROVE PrizesInv'
  BY <1>2, ReadsKeeps, ClaimsAre DEF Prizes!claimLevelReward
<1>3. ASSUME Prizes!claimVipGift(c) PROVE PrizesInv'
  <2> DEFINE pc == IF Prizes!Prize["vipGift"] \in owned THEN "record" ELSE "gift"
  <2>1. /\ pc \in {"record", "gift"} /\ "vipGift" \notin recorded
        /\ Prizes!withUserLock(c) /\ Prizes!Reads(c, pc, "vipGift")
        /\ UNCHANGED <<recorded, xpFor, owned, charged, spent, unrecorded, faultsR>>
    BY <1>3 DEF Prizes!claimVipGift
  <2> HIDE DEF pc
  <2> QED BY <2>1, ReadsKeeps, ClaimsAre
<1>4. ASSUME Prizes!buy(c) PROVE PrizesInv'
  BY <1>4, ReadsKeeps DEF Prizes!buy
<1>5. ASSUME Prizes!buyXp(c) PROVE PrizesInv'
  BY <1>5, ReadsKeeps DEF Prizes!buyXp
<1>6. ASSUME Prizes!grantFrame(c) PROVE PrizesInv'
  <2>1. owned' \in SUBSET Cosmetics /\ ("felt" \in owned' <=> "felt" \in owned)
    BY <1>6 DEF Prizes!grantFrame, Prizes!Prize, PrizesInv, PrizesTypes, Cosmetics
  <2> QED BY <1>6, <2>1, EndKeeps DEF Prizes!grantFrame, PrizesInv, PrizesTypes, Prizes!PaidIsOwned
<1>7. ASSUME Prizes!grantGift(c) PROVE PrizesInv'
  <2>1. owned' \in SUBSET Cosmetics /\ ("felt" \in owned' <=> "felt" \in owned)
    BY <1>7, CallIs DEF Prizes!grantGift, Prizes!Prize, PrizesInv, PrizesTypes, GiftIsFresh, Cosmetics
  <2>2. /\ faultsR' \in 0..MaxFaultsR
        /\ recorded' = recorded \/ recorded' = recorded \cup {"vipGift"}
    BY <1>7, RewardsAssumption DEF Prizes!grantGift, Prizes!setRewards, PrizesInv, PrizesTypes
  <2> QED BY <1>7, <2>1, <2>2, EndKeeps DEF Prizes!grantGift, PrizesInv, Prizes!PaidIsOwned
<1>8. ASSUME Prizes!pay(c) PROVE PrizesInv'
  <2>1. owned' \in SUBSET Cosmetics /\ ("felt" \in owned' <=> "felt" \in charged')
    BY <1>8 DEF Prizes!pay, PrizesInv, PrizesTypes, Cosmetics, Prizes!PaidIsOwned
  <2> QED BY <1>8, <2>1, EndKeeps DEF Prizes!pay, PrizesInv, PrizesTypes
<1>9. ASSUME Prizes!payXp(c) PROVE PrizesInv'
  <2>1. /\ owned' \in SUBSET Cosmetics /\ ("felt" \in owned' <=> "felt" \in charged')
        /\ "felt" \in owned' <=> "felt" \in owned
    BY <1>9 DEF Prizes!payXp, PrizesInv, PrizesTypes, Cosmetics, Prizes!PaidIsOwned
  <2> QED BY <1>9, <2>1, EndKeeps DEF Prizes!payXp, PrizesInv, PrizesTypes
<1> QED BY <1>1, <1>2, <1>3, <1>4, <1>5, <1>6, <1>7, <1>8, <1>9, addXpKeeps, recordClaimKeeps, rewardFailsKeeps

\* The invariant says what the run checks.
LEMMA PrizesAreExact == PrizesInv => Prizes!GrantedOnce /\ Prizes!PaidIsOwned
<1> SUFFICES ASSUME PrizesInv, NEW k \in Prizes!Claims
             PROVE  /\ xpFor[k] <= unrecorded[k] + 1
                    /\ holder = Prizes!NoOne /\ k \notin recorded => xpFor[k] <= unrecorded[k]
  BY DEF PrizesInv, Prizes!GrantedOnce
<1>1. xpFor[k] \in Nat /\ unrecorded[k] \in Nat
  BY DEF PrizesInv, PrizesTypes
<1>2. CASE k \in XpClaims
  <2>1. holder = Prizes!NoOne => \A c \in Calls : ~At(c, "record", k)
    BY RewardsAssumption DEF PrizesInv, LockIsHeld, At
  <2> QED BY <1>1, <1>2, <2>1 DEF PrizesInv, XpIsRecorded
<1>3. CASE k \in {"level", "vipGift"}
  BY <1>1, <1>3 DEF PrizesInv, OnceRecorded, Due
<1> QED BY <1>2, <1>3, ClaimsAre

-----------------------------------------------------------------------------
(* AdminPanel: adjustments under their ceilings, powers under their owner. *)

Adjustments ==
    [pc : {"queued", "commit"}, admin : Panel!Accounts, self : BOOLEAN, cents : Int,
     tx : Deposits \cup {Panel!NoDeposit}]

PanelTypes ==
    /\ start \in Rosters
    /\ who \in [Panel!Accounts -> [role : {"user", "admin"}, perms : SUBSET Scopes]]
    /\ request = [d \in Calls |-> request[d]]
    /\ adjusted \in [Panel!Accounts -> Nat] /\ blind \in [Panel!Accounts -> Nat]
    /\ credits \in [Deposits -> 0..1]
    /\ staged \subseteq Staged /\ runs \in [Staged -> 0..1]
    /\ \A d \in Calls : request[d].pc \in {"queued", "commit"} => request[d] \in Adjustments

\* What a request is about to move still fits under the ceiling, which is a call's higher
\* for each move let through unread, and it is the only one of its administrator.
Ceiling(u) == DayCap + CallCap * blind[u]
Moves(d) == request[d].pc = "commit"
MovesFit ==
    /\ \A u \in Panel!Accounts : adjusted[u] <= Ceiling(u)
    /\ \A d \in Calls : Moves(d) =>
         /\ request[d].admin \in busy
         /\ adjusted[request[d].admin] + Panel!Abs(request[d].cents) <= Ceiling(request[d].admin)
         /\ \A e \in Calls : Moves(e) /\ request[e].admin = request[d].admin => e = d

\* What is still staged was not run.
StagedIsFresh == \A k \in staged : runs[k] = 0

\* What scoped administrators had at the start, and whether somebody beside the owner
\* had everything.
Powers == UNION {start[v].perms : v \in {u \in Panel!Accounts : start[u].role = "admin" /\ start[u].perms # {}}}
AnotherIsFull == \E u \in Panel!Accounts \ {Owner} : start[u].role = "admin" /\ start[u].perms = {}

\* The changes under way spare the owner, and without another full administrator they
\* promote nobody and grant some of the powers there were.
ChangesAreBounded ==
    \A d \in Calls :
      /\ request[d].pc = "setRole" =>
           /\ request[d].account \in Panel!Accounts /\ request[d].role \in {"user", "admin"}
           /\ request[d].role = "user" => request[d].account # Owner
           /\ ~AnotherIsFull => request[d].role = "user"
      /\ request[d].pc = "setPermissions" =>
           /\ request[d].account \in Panel!Accounts \ {Owner} /\ request[d].perms \in SUBSET Scopes
           /\ ~AnotherIsFull => request[d].perms # {} /\ request[d].perms \subseteq Powers

PowersHold ==
    /\ who[Owner].role = "admin" /\ who[Owner].perms = {}
    /\ ~AnotherIsFull => \A u \in Panel!Accounts \ {Owner} : who[u].role = "admin" =>
                           who[u].perms # {} /\ who[u].perms \subseteq Powers

PanelInv == PanelTypes /\ MovesFit /\ StagedIsFresh /\ ChangesAreBounded /\ PowersHold

\* A ceiling is a number, and higher by a call's after one more move let through unread.
LEMMA CeilingRises ==
  ASSUME PanelTypes, NEW u \in Panel!Accounts
  PROVE  /\ Ceiling(u) \in Nat /\ DayCap <= Ceiling(u)
         /\ DayCap + CallCap * (blind[u] + 1) = Ceiling(u) + CallCap
<1>1. CallCap \in Nat /\ DayCap \in Nat /\ blind[u] \in Nat
  BY PanelAssumption DEF PanelTypes
<1>2. \A n \in Nat : CallCap * n \in Nat /\ CallCap * (n + 1) = CallCap * n + CallCap
  BY <1>1
<1> QED BY <1>1, <1>2 DEF Ceiling

\* While nothing is let through unread, the ceilings stay.
LEMMA CeilingStays == UNCHANGED blind => \A u : Ceiling(u)' = Ceiling(u)
BY DEF Ceiling

LEMMA PanelInit == Panel!Init => PanelInv
<1> SUFFICES ASSUME Panel!Init PROVE PanelInv
  OBVIOUS
<1>1. /\ start \in Rosters /\ who = start /\ request = [d \in Calls |-> Panel!NoRequest]
      /\ adjusted = [u \in Panel!Accounts |-> 0] /\ blind = [u \in Panel!Accounts |-> 0]
      /\ credits = [t \in Deposits |-> 0]
      /\ staged = Staged /\ runs = [k \in Staged |-> 0]
  BY DEF Panel!Init
<1>2. \A d \in Calls : request[d].pc = "idle"
  BY <1>1 DEF Panel!NoRequest
<1>3. /\ Owner \in Panel!Accounts
      /\ start \in [Panel!Accounts -> [role : {"user", "admin"}, perms : SUBSET Scopes]]
      /\ start[Owner].role = "admin" /\ start[Owner].perms = {}
  BY <1>1, PanelAssumption DEF Panel!Accounts
<1>4. PanelTypes
  BY <1>1, <1>2, <1>3 DEF PanelTypes
<1>5. MovesFit /\ StagedIsFresh /\ ChangesAreBounded
  BY <1>1, <1>2, <1>4, CeilingRises, PanelAssumption DEF MovesFit, Moves, StagedIsFresh, ChangesAreBounded
<1>6. PowersHold
  <2>1. ASSUME NEW u \in Panel!Accounts \ {Owner}, who[u].role = "admin", ~AnotherIsFull
        PROVE  who[u].perms # {} /\ who[u].perms \subseteq Powers
    BY <1>1, <2>1 DEF AnotherIsFull, Powers
  <2> QED BY <1>1, <1>3, <2>1 DEF PowersHold
<1> QED BY <1>4, <1>5, <1>6 DEF PanelInv

\* A request begins, other than one that moves money.
LEMMA PanelBegins ==
  ASSUME PanelInv, NEW d \in Calls, NEW x, Panel!Begin(d, x), x.pc # "commit",
         UNCHANGED <<start, who, busy, adjusted, blind, credits>>,
         staged' \subseteq staged,
         runs' = runs \/ \E k \in staged \ staged' : runs' = [runs EXCEPT ![k] = @ + 1],
         x.pc = "queued" => x \in Adjustments,
         x.pc = "setRole" =>
           /\ x.account \in Panel!Accounts /\ x.role \in {"user", "admin"}
           /\ x.role = "user" => x.account # Owner
           /\ ~AnotherIsFull => x.role = "user",
         x.pc = "setPermissions" =>
           /\ x.account \in Panel!Accounts \ {Owner} /\ x.perms \in SUBSET Scopes
           /\ ~AnotherIsFull => x.perms # {} /\ x.perms \subseteq Powers
  PROVE  PanelInv'
<1>1. /\ request' = [e \in Calls |-> request'[e]] /\ request'[d] = x
      /\ \A e \in Calls \ {d} : request'[e] = request[e]
  BY DEF Panel!Begin, PanelInv, PanelTypes
<1>2. /\ Panel!Accounts' = Panel!Accounts /\ Adjustments' = Adjustments /\ Powers' = Powers
      /\ AnotherIsFull' <=> AnotherIsFull
  BY DEF Panel!Accounts, Adjustments, Powers, AnotherIsFull
<1>3. runs' \in [Staged -> 0..1] /\ \A k \in staged' : runs'[k] = 0
  <2>1. CASE runs' = runs
    BY <2>1 DEF PanelInv, PanelTypes, StagedIsFresh
  <2>2. ASSUME NEW k \in staged \ staged', runs' = [runs EXCEPT ![k] = @ + 1]
        PROVE  runs' \in [Staged -> 0..1] /\ \A j \in staged' : runs'[j] = 0
    <3>1. runs[k] = 0 /\ k \in Staged /\ runs \in [Staged -> 0..1]
      BY DEF PanelInv, PanelTypes, StagedIsFresh
    <3>2. runs' = [runs EXCEPT ![k] = 1]
      BY <2>2, <3>1
    <3> QED BY <3>1, <3>2 DEF PanelInv, StagedIsFresh
  <2> QED BY <2>1, <2>2
<1>4. PanelTypes'
  <2>1. \A e \in Calls : request'[e].pc \in {"queued", "commit"} => request'[e] \in Adjustments
    BY <1>1 DEF PanelInv, PanelTypes
  <2> QED BY <1>1, <1>2, <1>3, <2>1 DEF PanelInv, PanelTypes
<1>5. MovesFit'
  BY <1>1, <1>2, CeilingStays DEF PanelInv, MovesFit, Moves
<1>6. StagedIsFresh'
  BY <1>3 DEF StagedIsFresh
<1>7. ChangesAreBounded'
  <2> SUFFICES ASSUME NEW e \in Calls
      PROVE /\ request'[e].pc = "setRole" =>
              /\ request'[e].account \in Panel!Accounts /\ request'[e].role \in {"user", "admin"}
              /\ request'[e].role = "user" => request'[e].account # Owner
              /\ ~AnotherIsFull => request'[e].role = "user"
            /\ request'[e].pc = "setPermissions" =>
              /\ request'[e].account \in Panel!Accounts \ {Owner} /\ request'[e].perms \in SUBSET Scopes
              /\ ~AnotherIsFull => request'[e].perms # {} /\ request'[e].perms \subseteq Powers
    BY <1>2 DEF ChangesAreBounded
  <2>1. CASE e = d
    BY <1>1, <2>1
  <2>2. CASE e # d
    BY <1>1, <2>2 DEF PanelInv, ChangesAreBounded
  <2> QED BY <2>1, <2>2
<1>8. PowersHold'
  BY <1>2 DEF PanelInv, PowersHold
<1> QED BY <1>4, <1>5, <1>6, <1>7, <1>8 DEF PanelInv

\* A request ends: nothing of the others changes.
LEMMA PanelEnds ==
  ASSUME PanelInv, NEW d \in Calls, Panel!End(d), start' = start
  PROVE  /\ request' = [e \in Calls |-> request'[e]]
         /\ request'[d].pc = "idle"
         /\ \A e \in Calls \ {d} : request'[e] = request[e]
         /\ ChangesAreBounded'
         /\ \A e \in Calls : request'[e].pc \in {"queued", "commit"} => request'[e] \in Adjustments
         /\ Panel!Accounts' = Panel!Accounts /\ Adjustments' = Adjustments /\ Powers' = Powers
         /\ AnotherIsFull' <=> AnotherIsFull
<1>1. /\ request' = [e \in Calls |-> request'[e]] /\ request'[d] = Panel!NoRequest
      /\ \A e \in Calls \ {d} : request'[e] = request[e]
  BY DEF Panel!End, PanelInv, PanelTypes
<1>2. request'[d].pc = "idle"
  BY <1>1 DEF Panel!NoRequest
<1>3. /\ Panel!Accounts' = Panel!Accounts /\ Adjustments' = Adjustments /\ Powers' = Powers
      /\ AnotherIsFull' <=> AnotherIsFull
  BY DEF Panel!Accounts, Adjustments, Powers, AnotherIsFull
<1>4. \A e \in Calls : e = d \/ request'[e] = request[e]
  BY <1>1
<1>5. ChangesAreBounded'
  <2>1. ChangesAreBounded
    BY DEF PanelInv
  <2>2. \A e \in Calls : request'[e].pc \in {"setRole", "setPermissions"} => request'[e] = request[e]
    BY <1>2, <1>4
  <2> QED BY <1>3, <2>1, <2>2 DEF ChangesAreBounded
<1>6. \A e \in Calls : request'[e].pc \in {"queued", "commit"} => request'[e] \in Adjustments
  BY <1>2, <1>4 DEF PanelInv, PanelTypes
<1> QED BY <1>1, <1>2, <1>3, <1>5, <1>6

LEMMA AbsIsNat == \A n \in Int : Panel!Abs(n) \in Nat
BY DEF Panel!Abs

\* The ceilings are checked, in the administrator's turn.
LEMMA GovernanceKeeps ==
  ASSUME PanelInv, NEW d \in Calls, NEW unread \in BOOLEAN, Panel!checkAdjustGovernance(d, unread)
  PROVE  PanelInv'
<1> DEFINE r == request[d]
           used == Panel!sumAdjustmentsBy(r.admin, unread)
           top(u) == DayCap + CallCap * blind'[u]
<1>1. r.pc = "queued" /\ r \in Adjustments /\ UNCHANGED <<start, who, adjusted, credits, staged, runs>>
  BY DEF Panel!checkAdjustGovernance, PanelInv, PanelTypes
<1>2. CASE Panel!Governed(r, used)
  <2> DEFINE x == [r EXCEPT !.pc = "commit"]
  <2>1. /\ r.admin \notin busy /\ busy' = busy \cup {r.admin}
        /\ request' = [request EXCEPT ![d] = x]
        /\ blind' = IF unread THEN [blind EXCEPT ![r.admin] = @ + 1] ELSE blind
        /\ Panel!Abs(r.cents) <= CallCap
        /\ ~unread => adjusted[r.admin] + Panel!Abs(r.cents) <= DayCap
    BY <1>2 DEF Panel!checkAdjustGovernance, Panel!serializeAdjust, Panel!Governed, Panel!sumAdjustmentsBy
  <2>2. /\ x \in Adjustments /\ x.pc = "commit" /\ x.admin = r.admin /\ x.cents = r.cents
        /\ r.admin \in Panel!Accounts /\ Panel!Abs(r.cents) \in Nat
    BY <1>1, AbsIsNat DEF Adjustments
  <2> HIDE DEF x, r, used
  <2>10. /\ blind' \in [Panel!Accounts -> Nat]
         /\ \A u \in Panel!Accounts \ {r.admin} : top(u) = Ceiling(u)
         /\ Ceiling(r.admin) \in Nat /\ DayCap <= Ceiling(r.admin)
         /\ top(r.admin) = Ceiling(r.admin) + (IF unread THEN CallCap ELSE 0)
    <3>1. /\ Ceiling(r.admin) \in Nat /\ DayCap <= Ceiling(r.admin) /\ CallCap \in Nat
          /\ DayCap + CallCap * (blind[r.admin] + 1) = Ceiling(r.admin) + CallCap
      BY <2>2, CeilingRises, PanelAssumption DEF PanelInv
    <3>2. blind \in [Panel!Accounts -> Nat]
      BY DEF PanelInv, PanelTypes
    <3>3. CASE unread
      <4>1. /\ blind' \in [Panel!Accounts -> Nat] /\ blind'[r.admin] = blind[r.admin] + 1
            /\ \A u \in Panel!Accounts \ {r.admin} : blind'[u] = blind[u]
        BY <2>1, <2>2, <3>2, <3>3
      <4>2. top(r.admin) = DayCap + CallCap * (blind[r.admin] + 1)
        BY <4>1 DEF Ceiling
      <4>3. \A u \in Panel!Accounts \ {r.admin} : top(u) = Ceiling(u)
        BY <4>1 DEF Ceiling
      <4> QED BY <3>1, <3>3, <4>1, <4>2, <4>3
    <3>4. CASE ~unread
      BY <2>1, <3>1, <3>2, <3>4 DEF Ceiling
    <3> QED BY <3>3, <3>4
  <2>11. /\ adjusted[r.admin] + Panel!Abs(r.cents) <= top(r.admin)
         /\ adjusted[r.admin] <= top(r.admin)
    <3>1. /\ adjusted[r.admin] <= Ceiling(r.admin) /\ adjusted[r.admin] \in Nat
          /\ CallCap \in Nat /\ DayCap \in Nat
      BY <2>2, PanelAssumption DEF PanelInv, PanelTypes, MovesFit
    <3> QED BY <2>1, <2>2, <2>10, <3>1
  <2>3. /\ request' = [e \in Calls |-> request'[e]] /\ request'[d] = x
        /\ \A e \in Calls \ {d} : request'[e] = request[e]
    BY <2>1 DEF PanelInv, PanelTypes
  <2>4. /\ Panel!Accounts' = Panel!Accounts /\ Adjustments' = Adjustments /\ Powers' = Powers
        /\ AnotherIsFull' <=> AnotherIsFull
    BY <1>1 DEF Panel!Accounts, Adjustments, Powers, AnotherIsFull
  <2>5. \A e \in Calls : request'[e].pc \in {"queued", "commit"} => request'[e] \in Adjustments
    BY <2>2, <2>3 DEF PanelInv, PanelTypes
  <2>6. PanelTypes'
    BY <1>1, <2>3, <2>4, <2>5, <2>10 DEF PanelInv, PanelTypes
  <2>7. MovesFit'
    <3>1. \A e \in Calls \ {d} : Moves(e) => request[e].admin # r.admin
      BY <2>1 DEF PanelInv, MovesFit
    <3> HIDE DEF top
    <3>2. \A e \in Calls \ {d} : Moves(e)' <=> Moves(e)
      BY <2>3 DEF Moves
    <3>3. \A e \in Calls : Moves(e)' =>
         /\ request'[e].admin \in busy'
         /\ adjusted[request'[e].admin] + Panel!Abs(request'[e].cents) <= top(request'[e].admin)
      <4>1. \A e \in Calls : Moves(e) => request[e].admin \in Panel!Accounts
        BY DEF Moves, PanelInv, PanelTypes, Adjustments
      <4> QED BY <2>1, <2>2, <2>3, <2>10, <2>11, <3>1, <3>2, <4>1 DEF PanelInv, MovesFit
    <3>4. \A e, f \in Calls : Moves(e)' /\ Moves(f)' /\ request'[f].admin = request'[e].admin => f = e
      BY <2>2, <2>3, <3>1, <3>2 DEF PanelInv, MovesFit
    <3> USE DEF top
    <3>5. \A u \in Panel!Accounts : adjusted[u] <= top(u)
      <4> HIDE DEF top
      <4> QED BY <2>10, <2>11 DEF PanelInv, MovesFit
    <3> QED BY <1>1, <2>4, <3>3, <3>4, <3>5 DEF MovesFit, Ceiling, Panel!Abs
  <2>8. ChangesAreBounded'
    <3>1. \A e \in Calls : request'[e].pc \in {"setRole", "setPermissions"} => request'[e] = request[e]
      BY <2>2, <2>3
    <3> QED BY <2>4, <3>1 DEF PanelInv, ChangesAreBounded
  <2>9. StagedIsFresh' /\ PowersHold'
    BY <1>1, <2>4 DEF PanelInv, StagedIsFresh, PowersHold
  <2> QED BY <2>6, <2>7, <2>8, <2>9 DEF PanelInv
<1>3. CASE ~Panel!Governed(r, used)
  <2>1. Panel!End(d) /\ UNCHANGED <<busy, blind>> /\ start' = start
    BY <1>1, <1>3 DEF Panel!checkAdjustGovernance
  <2>2. PanelTypes'
    BY <1>1, <2>1, PanelEnds DEF PanelInv, PanelTypes
  <2>3. \A e \in Calls : Moves(e)' => Moves(e) /\ request'[e] = request[e]
    BY <2>1, PanelEnds DEF Moves
  <2>4. MovesFit'
    BY <1>1, <2>1, <2>3, PanelEnds, CeilingStays DEF PanelInv, MovesFit, Panel!Abs
  <2>5. StagedIsFresh' /\ PowersHold'
    BY <1>1, <2>1, PanelEnds DEF PanelInv, StagedIsFresh, PowersHold
  <2> QED BY <2>1, <2>2, <2>4, <2>5, PanelEnds DEF PanelInv
<1> QED BY <1>2, <1>3

\* The move and its audit row.
LEMMA AuditedKeeps ==
  ASSUME PanelInv, NEW d \in Calls, Panel!adminAdjustAudited(d)
  PROVE  PanelInv'
<1> DEFINE r == request[d]
<1>1. /\ r.pc = "commit" /\ r \in Adjustments /\ Panel!End(d) /\ busy' = busy \ {r.admin}
      /\ UNCHANGED <<start, who, blind, staged, runs>>
  BY DEF Panel!adminAdjustAudited, PanelInv, PanelTypes
<1>2. /\ r.admin \in Panel!Accounts /\ r.cents \in Int /\ Panel!Abs(r.cents) \in Nat
      /\ r.tx \in Deposits \cup {Panel!NoDeposit}
      /\ adjusted[r.admin] + Panel!Abs(r.cents) <= Ceiling(r.admin)
      /\ \A e \in Calls \ {d} : Moves(e) => request[e].admin # r.admin
  BY <1>1, AbsIsNat DEF Adjustments, PanelInv, MovesFit, Moves
<1>3. credits' \in [Deposits -> 0..1]
  <2>1. CASE r.tx # Panel!NoDeposit /\ ~(credits[r.tx] > 0) /\ credits' = [credits EXCEPT ![r.tx] = @ + 1]
    <3>1. r.tx \in Deposits /\ credits[r.tx] \in 0..1
      BY <1>2, <2>1 DEF PanelInv, PanelTypes
    <3>2. credits[r.tx] + 1 \in 0..1
      BY <2>1, <3>1
    <3> QED BY <2>1, <3>1, <3>2 DEF PanelInv, PanelTypes
  <2>2. CASE credits' = credits
    BY <2>2 DEF PanelInv, PanelTypes
  <2> QED BY <2>1, <2>2 DEF Panel!adminAdjustAudited
<1>4. /\ adjusted' \in [Panel!Accounts -> Nat]
      /\ \A u \in Panel!Accounts : adjusted'[u] <= Ceiling(u)
      /\ \A u \in Panel!Accounts \ {r.admin} : adjusted'[u] = adjusted[u]
  <2>1. CASE adjusted' = [adjusted EXCEPT ![r.admin] = @ + Panel!Abs(r.cents)]
    BY <1>2, <2>1 DEF PanelInv, PanelTypes, MovesFit
  <2>2. CASE adjusted' = adjusted
    BY <2>2 DEF PanelInv, PanelTypes, MovesFit
  <2> QED BY <2>1, <2>2 DEF Panel!adminAdjustAudited
<1> HIDE DEF r
<1>5. PanelTypes'
  BY <1>1, <1>3, <1>4, PanelEnds DEF PanelInv, PanelTypes
<1>6. MovesFit'
  <2>1. \A e \in Calls : Moves(e)' => e # d /\ Moves(e) /\ request'[e] = request[e]
    BY <1>1, PanelEnds DEF Moves
  <2>2. \A e \in Calls : Moves(e)' => /\ request[e].admin \in Panel!Accounts \ {r.admin}
                                      /\ request[e].cents \in Int
    BY <1>2, <2>1 DEF Moves, PanelInv, PanelTypes, Adjustments
  <2>3. \A e \in Calls : Moves(e)' =>
         /\ request'[e].admin \in busy'
         /\ adjusted'[request'[e].admin] + Panel!Abs(request'[e].cents) <= Ceiling(request'[e].admin)
    BY <1>1, <1>4, <2>1, <2>2 DEF PanelInv, MovesFit
  <2>4. \A e, f \in Calls : Moves(e)' /\ Moves(f)' /\ request'[f].admin = request'[e].admin => f = e
    BY <2>1 DEF PanelInv, MovesFit
  <2> QED BY <1>1, <1>4, <2>3, <2>4, PanelEnds, CeilingStays DEF MovesFit, Panel!Abs
<1>7. StagedIsFresh' /\ PowersHold'
  BY <1>1, PanelEnds DEF PanelInv, StagedIsFresh, PowersHold
<1> QED BY <1>1, <1>5, <1>6, <1>7, PanelEnds DEF PanelInv

\* A change of a role or of permissions is written.
LEMMA ChangeKeeps ==
  ASSUME PanelInv, NEW d \in Calls, Panel!End(d),
         UNCHANGED <<start, busy, adjusted, blind, credits, staged, runs>>,
         NEW u \in Panel!Accounts, \A v \in Panel!Accounts \ {u} : who'[v] = who[v],
         who' \in [Panel!Accounts -> [role : {"user", "admin"}, perms : SUBSET Scopes]],
         u = Owner => who'[u].role = "admin" /\ who'[u].perms = {},
         u # Owner /\ ~AnotherIsFull /\ who'[u].role = "admin" =>
           who'[u].perms # {} /\ who'[u].perms \subseteq Powers
  PROVE  PanelInv'
<1>1. PanelTypes'
  BY PanelEnds DEF PanelInv, PanelTypes
<1>2. \A e \in Calls : Moves(e)' => Moves(e) /\ request'[e] = request[e]
  BY PanelEnds DEF Moves
<1>3. MovesFit'
  BY <1>2, PanelEnds, CeilingStays DEF PanelInv, MovesFit, Panel!Abs
<1>4. StagedIsFresh'
  BY DEF PanelInv, StagedIsFresh
<1>5. Owner \in Panel!Accounts
  BY PanelAssumption DEF PanelInv, PanelTypes, Panel!Accounts
<1>6. PowersHold'
  <2>1. who'[Owner].role = "admin" /\ who'[Owner].perms = {}
    BY <1>5 DEF PanelInv, PowersHold
  <2>2. ASSUME ~AnotherIsFull, NEW v \in Panel!Accounts \ {Owner}, who'[v].role = "admin"
        PROVE  who'[v].perms # {} /\ who'[v].perms \subseteq Powers
    BY <2>2 DEF PanelInv, PowersHold
  <2> QED BY <2>1, <2>2, PanelEnds DEF PowersHold
<1> QED BY <1>1, <1>3, <1>4, <1>6, PanelEnds DEF PanelInv

\* Every step of the panel keeps the invariant.
LEMMA PanelStep == PanelInv /\ Panel!Next => PanelInv'
<1> SUFFICES ASSUME PanelInv, Panel!Next PROVE PanelInv'
  OBVIOUS
<1>1. /\ Owner \in Panel!Accounts /\ Panel!NoDeposit \notin Deposits /\ Amounts \subseteq Int
      /\ who \in [Panel!Accounts -> [role : {"user", "admin"}, perms : SUBSET Scopes]]
      /\ staged \subseteq Staged /\ runs \in [Staged -> 0..1]
  BY PanelAssumption DEF PanelInv, PanelTypes, Panel!Accounts
<1>2. ASSUME NEW k \in Staged, Panel!unstage(k) PROVE PanelInv'
  <2>1. /\ staged' \subseteq staged /\ staged' \subseteq Staged
        /\ UNCHANGED <<start, who, request, busy, adjusted, blind, credits, runs>>
    BY <1>1, <1>2 DEF Panel!unstage
  <2>2. PanelTypes' /\ MovesFit'
    BY <2>1, CeilingStays DEF PanelInv, PanelTypes, MovesFit, Moves, Panel!Accounts, Panel!Abs, Adjustments
  <2>3. StagedIsFresh' /\ ChangesAreBounded' /\ PowersHold'
    BY <2>1 DEF PanelInv, StagedIsFresh, ChangesAreBounded, PowersHold, Panel!Accounts, Powers, AnotherIsFull
  <2> QED BY <2>2, <2>3 DEF PanelInv
<1>3. ASSUME NEW d \in Calls, Panel!setRole(d) PROVE PanelInv'
  <2> DEFINE u == request[d].account
             role == request[d].role
  <2>1. /\ u \in Panel!Accounts /\ role \in {"user", "admin"}
        /\ role = "user" => u # Owner
        /\ ~AnotherIsFull => role = "user"
    BY <1>3 DEF Panel!setRole, PanelInv, ChangesAreBounded
  <2>2. /\ who' = [who EXCEPT ![u].role = role] /\ Panel!End(d)
        /\ UNCHANGED <<start, busy, adjusted, blind, credits, staged, runs>>
    BY <1>3 DEF Panel!setRole
  <2> HIDE DEF u, role
  <2>3. /\ \A v \in Panel!Accounts \ {u} : who'[v] = who[v]
        /\ who'[u].role = role /\ who'[u].perms = who[u].perms
        /\ who' \in [Panel!Accounts -> [role : {"user", "admin"}, perms : SUBSET Scopes]]
    <3> DEFINE x == [who[u] EXCEPT !.role = role]
    <3>1. /\ x \in [role : {"user", "admin"}, perms : SUBSET Scopes]
          /\ x.role = role /\ x.perms = who[u].perms
      BY <1>1, <2>1
    <3>2. who' = [who EXCEPT ![u] = x]
      BY <2>2
    <3> HIDE DEF x
    <3> QED BY <1>1, <2>1, <3>1, <3>2
  <2>4. u = Owner => who'[u].role = "admin" /\ who'[u].perms = {}
    BY <2>1, <2>3 DEF PanelInv, PowersHold
  <2>5. ~(u # Owner /\ ~AnotherIsFull /\ who'[u].role = "admin")
    BY <2>1, <2>3
  <2> QED BY <2>1, <2>2, <2>3, <2>4, <2>5, ChangeKeeps
<1>4. ASSUME NEW d \in Calls, Panel!setPermissions(d) PROVE PanelInv'
  <2> DEFINE u == request[d].account
             perms == request[d].perms
  <2>1. /\ u \in Panel!Accounts \ {Owner} /\ perms \in SUBSET Scopes
        /\ ~AnotherIsFull => perms # {} /\ perms \subseteq Powers
    BY <1>4 DEF Panel!setPermissions, PanelInv, ChangesAreBounded
  <2>2. /\ who' = [who EXCEPT ![u].perms = perms] /\ Panel!End(d)
        /\ UNCHANGED <<start, busy, adjusted, blind, credits, staged, runs>>
    BY <1>4 DEF Panel!setPermissions
  <2> HIDE DEF u, perms
  <2>3. /\ \A v \in Panel!Accounts \ {u} : who'[v] = who[v]
        /\ who'[u].perms = perms
        /\ who' \in [Panel!Accounts -> [role : {"user", "admin"}, perms : SUBSET Scopes]]
    <3> DEFINE x == [who[u] EXCEPT !.perms = perms]
    <3>1. x \in [role : {"user", "admin"}, perms : SUBSET Scopes] /\ x.perms = perms
      BY <1>1, <2>1
    <3>2. who' = [who EXCEPT ![u] = x]
      BY <2>2
    <3> HIDE DEF x
    <3> QED BY <1>1, <2>1, <3>1, <3>2
  <2> QED BY <2>1, <2>2, <2>3, ChangeKeeps
<1>5. ASSUME NEW d \in Calls, NEW to \in Panel!Accounts, NEW cents \in Amounts, NEW k \in Staged,
             NEW tx \in Deposits \cup {Panel!NoDeposit}, Panel!handlePendingTap(d, k, to, cents, tx)
      PROVE  PanelInv'
  <2> DEFINE x == Panel!Adjustment(Owner, to, cents, tx)
  <2>1. x \in Adjustments /\ x.pc = "queued"
    BY <1>1 DEF Panel!Adjustment, Adjustments
  <2>2. /\ k \in staged /\ staged' = staged \ {k} /\ Panel!Begin(d, x)
        /\ runs' = [runs EXCEPT ![k] = @ + 1]
        /\ UNCHANGED <<start, who, busy, adjusted, blind, credits>>
    BY <1>5 DEF Panel!handlePendingTap
  <2> HIDE DEF x
  <2>3. staged' \subseteq staged /\ k \in staged \ staged'
    BY <2>2
  <2> QED BY <2>1, <2>2, <2>3, PanelBegins
<1>6. ASSUME NEW d \in Calls, NEW to \in Panel!Accounts, NEW cents \in Amounts, NEW a \in Panel!Active,
             NEW tx \in Deposits \cup {Panel!NoDeposit}, Panel!adjust(d, a, to, cents, tx)
      PROVE  PanelInv'
  <2> DEFINE x == Panel!Adjustment(a, to, cents, tx)
  <2>1. x \in Adjustments /\ x.pc = "queued"
    BY <1>1 DEF Panel!Adjustment, Adjustments, Panel!Active
  <2>2. /\ Panel!Begin(d, x) /\ UNCHANGED <<start, who, busy, adjusted, blind, credits, staged, runs>>
    BY <1>6 DEF Panel!adjust
  <2> HIDE DEF x
  <2>3. staged' \subseteq staged
    BY <2>2
  <2> QED BY <2>1, <2>2, <2>3, PanelBegins
<1>7. ASSUME NEW d \in Calls, NEW a \in Panel!Active, NEW u \in Panel!Accounts, NEW role \in {"user", "admin"},
             Panel!checkRole(d, a, u, role)
      PROVE  PanelInv'
  <2> DEFINE x == [pc |-> "setRole", account |-> u, role |-> role]
  <2>1. x.pc = "setRole" /\ x.account = u /\ x.role = role
    OBVIOUS
  <2>2. /\ who[a].role = "admin" /\ (role = "admin" => who[a].perms = {}) /\ (role = "user" => u # Owner)
        /\ Panel!Begin(d, x) /\ UNCHANGED <<start, who, busy, adjusted, blind, credits, staged, runs>>
    BY <1>7 DEF Panel!checkRole, Panel!requirePermission
  <2> HIDE DEF x
  <2>3. ~AnotherIsFull => role = "user"
    BY <2>2 DEF PanelInv, PowersHold, Panel!Active
  <2>4. staged' \subseteq staged
    BY <2>2
  <2> QED BY <2>1, <2>2, <2>3, <2>4, PanelBegins
<1>8. ASSUME NEW d \in Calls, NEW a \in Panel!Active, NEW u \in Panel!Accounts, NEW perms \in SUBSET Scopes,
             Panel!checkPermissions(d, a, u, perms)
      PROVE  PanelInv'
  <2> DEFINE x == [pc |-> "setPermissions", account |-> u, perms |-> perms]
  <2>1. x.pc = "setPermissions" /\ x.account = u /\ x.perms = perms
    OBVIOUS
  <2>2. /\ who[a].role = "admin" /\ u \notin {a, Owner}
        /\ who[a].perms # {} => perms # {} /\ perms \subseteq who[a].perms
        /\ Panel!Begin(d, x) /\ UNCHANGED <<start, who, busy, adjusted, blind, credits, staged, runs>>
    BY <1>8 DEF Panel!checkPermissions, Panel!requirePermission, Panel!MayGrant
  <2> HIDE DEF x
  <2>3. ~AnotherIsFull => perms # {} /\ perms \subseteq Powers
    BY <2>2 DEF PanelInv, PowersHold, Panel!Active
  <2>4. staged' \subseteq staged
    BY <2>2
  <2> QED BY <2>1, <2>2, <2>3, <2>4, PanelBegins
<1> QED BY <1>2, <1>3, <1>4, <1>5, <1>6, <1>7, <1>8, GovernanceKeeps, AuditedKeeps DEF Panel!Next

\* The invariant says what the run checks.
LEMMA PanelIsBounded == PanelInv => Panel!AdjustmentsAreGoverned /\ Panel!PowersAreBounded
<1> SUFFICES ASSUME PanelInv PROVE Panel!AdjustmentsAreGoverned /\ Panel!PowersAreBounded
  OBVIOUS
<1>1. Panel!AdjustmentsAreGoverned
  <2>1. (\A t \in Deposits : credits[t] \in 0..1) /\ (\A k \in Staged : runs[k] \in 0..1)
    BY DEF PanelInv, PanelTypes
  <2> QED BY <2>1 DEF PanelInv, MovesFit, Ceiling, Panel!AdjustmentsAreGoverned
<1>2. Panel!PowersAreBounded
  <2>1. {u \in Panel!Accounts \ {Owner} : start[u].role = "admin" /\ start[u].perms = {}} = {} => ~AnotherIsFull
    BY DEF AnotherIsFull
  <2>2. Panel!IsFull(Owner)
    BY DEF Panel!IsFull, PanelInv, PowersHold
  <2> QED BY <2>1, <2>2 DEF Panel!PowersAreBounded, PanelInv, PowersHold, Powers
<1> QED BY <1>1, <1>2

-----------------------------------------------------------------------------
(* Fairness: the inductive invariant is FairnessInv of module Fairness.    *)

\* The sets of Fairness are those of FiniteSets.
LEMMA DealsSets ==
  \A S : (Deals!IsFiniteSet(S) <=> IsFiniteSet(S)) /\ Deals!Cardinality(S) = Cardinality(S)
<1>1. \A S : Deals!IsFiniteSet(S) <=> IsFiniteSet(S)
  BY DEF Deals!IsFiniteSet, IsFiniteSet
<1>2. \A S : Deals!Cardinality(S) = Cardinality(S)
  BY Zenon DEF Deals!Cardinality, Cardinality
<1> QED BY <1>1, <1>2

\* A seat more, a seat less.
LEMMA SeatsOfTwo ==
  ASSUME NEW S, Deals!IsFiniteSet(S), NEW u
  PROVE  /\ Deals!IsFiniteSet(S \cup {u}) /\ Deals!IsFiniteSet(S \ {u})
         /\ Deals!Cardinality(S) \in Nat
         /\ Deals!Cardinality(S \cup {u}) <= Deals!Cardinality(S) + 1
         /\ u \in S => Deals!Cardinality(S \ {u}) = Deals!Cardinality(S) - 1
BY FS_AddElement, FS_RemoveElement, FS_CardinalityType, DealsSets

LEMMA DealsGrow ==
  ASSUME NEW m \in Nat, NEW n \in Nat, m <= n
  PROVE  Deals!Deal(m) \subseteq Deals!Deal(n)
<1>1. SUBSET (1..m) \subseteq SUBSET (1..n)
  OBVIOUS
<1> QED BY <1>1 DEF Deals!Deal

\* maybeStartCountdown keeps the invariant whatever room it is given, if its seats fit and
\* either somebody is not ready or they are those of the room as it was.
LEMMA CountdownKeeps ==
  ASSUME Deals!FairnessInv,
         NEW r \in Deals!Room,
         Deals!IsFiniteSet(r.seats), Deals!Cardinality(r.seats) <= 2, r.ready \subseteq r.seats,
         r.matchId = room.matchId, r.status # "inMatch",
         Deals!allReady(r) => r.seats \subseteq room.seats,
         Deals!maybeStartCountdown(r)
  PROVE  Deals!FairnessInv'
<1> USE DEF Deals!FairnessInv, Deals!None
<1>1. /\ room' = r
      /\ UNCHANGED <<starts, dealer, shuffle, ends, rows, writes, published, deals>>
  BY DEF Deals!maybeStartCountdown
<1>2. newest' \in Nat /\ newest' >= newest
  BY DEF Deals!maybeStartCountdown, Deals!FairnessTypeOK
<1>3. Deals!SeatsFit' /\ Deals!StartsAreNumbered' /\ Deals!GamesAreOfDeals' /\ Deals!CommittedFirst'
  BY <1>1 DEF Deals!SeatsFit, Deals!StartsAreNumbered, Deals!GamesAreOfDeals, Deals!CommittedFirst
<1>4. Deals!DealsAreDistinct'
  BY <1>1, <1>2 DEF Deals!DealsAreDistinct, Deals!FairnessTypeOK, Deals!Deal
<1>5. Deals!FairnessTypeOK'
  <2>1. pending' \in 0..newest'
    BY <1>2 DEF Deals!maybeStartCountdown, Deals!FairnessTypeOK
  <2>4. countdown' \in BOOLEAN
    BY DEF Deals!maybeStartCountdown, Deals!FairnessTypeOK
  <2>2. clientSeed' \in [Users -> 0..newest']
    BY <1>1, <1>2 DEF Deals!maybeStartCountdown, Deals!FairnessTypeOK, Deals!dropClientSeed
  <2>3. deals' \subseteq Deals!Deal(newest')
    BY <1>1, <1>2, DealsGrow DEF Deals!FairnessTypeOK
  <2> QED BY <1>1, <1>2, <2>1, <2>2, <2>3, <2>4 DEF Deals!FairnessTypeOK
<1>6. Deals!PendingIsAnnounced'
  <2> SUFFICES ASSUME pending' # 0
               PROVE /\ Deals!isFull(r)
                     /\ \A u \in r.seats : clientSeed'[u] # 0 => clientSeed'[u] >= pending'
                     /\ \A d \in deals : d.seed # pending'
    BY <1>1 DEF Deals!PendingIsAnnounced, Deals!isFull
  <2>1. Deals!allReady(r) /\ Deals!isFull(r)
    BY DEF Deals!maybeStartCountdown, Deals!allReady
  <2>2. CASE countdown
    BY <1>1, <2>1, <2>2 DEF Deals!maybeStartCountdown, Deals!PendingIsAnnounced
  <2>3. CASE ~countdown
    <3>1. /\ newest' = newest + 1 /\ pending' = newest'
          /\ clientSeed' = Deals!dropClientSeed(clientSeed, r.seats)
      BY <2>1, <2>3 DEF Deals!maybeStartCountdown
    <3>2. \A u \in r.seats : clientSeed'[u] = 0
      BY <3>1 DEF Deals!dropClientSeed, Deals!Room
    <3>3. \A d \in deals : d.seed # pending'
      BY <3>1 DEF Deals!DealsAreDistinct, Deals!FairnessTypeOK
    <3> QED BY <2>1, <3>2, <3>3
  <2> QED BY <2>2, <2>3
<1> QED BY <1>3, <1>4, <1>5, <1>6

LEMMA JoinsKeep ==
  ASSUME Deals!FairnessInv, NEW u \in Users, Deals!onJoin(u) \/ Deals!onLeave(u) \/ Deals!onReady(u)
  PROVE  Deals!FairnessInv'
<1> USE DEF Deals!FairnessInv, Deals!SeatsFit
<1>0. room \in Deals!Room
  BY DEF Deals!FairnessTypeOK
<1>1. CASE Deals!onJoin(u)
  <2> DEFINE r == [room EXCEPT !.seats = @ \cup {u}]
  <2>1. /\ room.status = "waiting" /\ u \notin room.seats /\ Deals!Cardinality(room.seats) # 2
        /\ Deals!maybeStartCountdown(r)
    BY <1>1 DEF Deals!onJoin, Deals!isFull
  <2>2. /\ r \in Deals!Room
        /\ r.seats = room.seats \cup {u} /\ r.ready = room.ready /\ r.matchId = room.matchId
        /\ r.status = "waiting"
    BY <1>0, <2>1 DEF Deals!Room
  <2>3. ~Deals!allReady(r)
    BY <2>1, <2>2 DEF Deals!allReady
  <2>4. Deals!IsFiniteSet(r.seats) /\ Deals!Cardinality(r.seats) <= 2
    BY <2>1, <2>2, SeatsOfTwo
  <2> HIDE DEF r
  <2> QED BY <2>1, <2>2, <2>3, <2>4, CountdownKeeps
<1>2. CASE Deals!onLeave(u)
  <2> DEFINE r == [room EXCEPT !.seats = @ \ {u}, !.ready = @ \ {u},
                               !.status = IF room.seats = {u} THEN "closed" ELSE @]
  <2>1. room.status # "inMatch" /\ u \in room.seats /\ Deals!maybeStartCountdown(r)
    BY <1>2 DEF Deals!onLeave
  <2>2. /\ r \in Deals!Room
        /\ r.seats = room.seats \ {u} /\ r.ready = room.ready \ {u} /\ r.matchId = room.matchId
        /\ r.status # "inMatch"
    BY <1>0, <2>1 DEF Deals!Room
  <2> HIDE DEF r
  <2>6. /\ Deals!IsFiniteSet(room.seats \ {u})
        /\ Deals!Cardinality(room.seats) \in Nat
        /\ Deals!Cardinality(room.seats \ {u}) = Deals!Cardinality(room.seats) - 1
    BY <2>1, SeatsOfTwo
  <2>3. /\ Deals!IsFiniteSet(r.seats) /\ Deals!Cardinality(r.seats) <= 1
        /\ Deals!Cardinality(r.seats) <= 2
    BY <2>2, <2>6
  <2>4. ~Deals!allReady(r) /\ r.ready \subseteq r.seats
    BY <2>2, <2>3 DEF Deals!allReady, Deals!isFull
  <2> QED BY <2>1, <2>2, <2>3, <2>4, CountdownKeeps
<1>3. CASE Deals!onReady(u)
  <2>1. PICK on \in BOOLEAN :
          Deals!maybeStartCountdown([room EXCEPT !.ready = IF on THEN @ \cup {u} ELSE @ \ {u}])
    BY <1>3 DEF Deals!onReady
  <2> DEFINE r == [room EXCEPT !.ready = IF on THEN @ \cup {u} ELSE @ \ {u}]
  <2>2. room.status # "inMatch" /\ u \in room.seats
    BY <1>3 DEF Deals!onReady
  <2>3. /\ r \in Deals!Room
        /\ r.seats = room.seats /\ r.ready \subseteq r.seats /\ r.matchId = room.matchId
        /\ r.status # "inMatch"
    BY <1>0, <2>2 DEF Deals!Room
  <2>4. Deals!maybeStartCountdown(r)
    BY <2>1
  <2> HIDE DEF r
  <2> QED BY <2>2, <2>3, <2>4, CountdownKeeps
<1> QED BY <1>1, <1>2, <1>3

LEMMA FairnessInit == Deals!Init => Deals!FairnessInv
<1> SUFFICES ASSUME Deals!Init PROVE Deals!FairnessInv
  OBVIOUS
<1>1. Deals!IsFiniteSet({}) /\ Deals!Cardinality({}) = 0
  BY FS_EmptySet, DealsSets
<1>2. Deals!FairnessTypeOK
  <2>1. clientSeed \in [Users -> 0..newest]
    BY DEF Deals!Init, Deals!None
  <2>2. room \in Deals!Room
    BY DEF Deals!Init, Deals!None, Deals!Room
  <2>3. dealer \in [seed : Nat, id : Nat, games : Nat] /\ newest \in Nat /\ pending \in 0..newest
    BY DEF Deals!Init, Deals!None
  <2> QED BY <2>1, <2>2, <2>3 DEF Deals!Init, Deals!FairnessTypeOK
<1> QED
  BY <1>1, <1>2 DEF Deals!Init, Deals!FairnessInv, Deals!FairnessTypeOK, Deals!SeatsFit, Deals!PendingIsAnnounced, Deals!StartsAreNumbered, Deals!DealsAreDistinct, Deals!GamesAreOfDeals, Deals!CommittedFirst, Deals!None

\* The deal itself.
LEMMA DealKeeps ==
  ASSUME Deals!FairnessInv, NEW s \in starts, Deals!createFairShuffle(s)
  PROVE  Deals!FairnessInv'
<1> USE DEF Deals!FairnessInv, Deals!None
<1> DEFINE fresh == pending = 0
           seed == IF fresh THEN newest + 1 ELSE pending
           mixed == {clientSeed[u] : u \in room.seats} \ {0}
           d0 == [id |-> s.id, seed |-> seed, mixed |-> mixed, announced |-> ~fresh]
<1>1. /\ newest' = IF fresh THEN seed ELSE newest
      /\ newest' \in Nat /\ newest' >= newest /\ seed \in Nat /\ seed <= newest' /\ seed # 0
      /\ UNCHANGED <<countdown, clientSeed, ends, rows, published>>
  BY DEF Deals!createFairShuffle, Deals!FairnessTypeOK
<1>2. Deals!Deal(newest) \subseteq Deals!Deal(newest')
  BY <1>1, DealsGrow DEF Deals!FairnessTypeOK
<1>3. clientSeed' \in [Users -> 0..newest']
  BY <1>1 DEF Deals!FairnessTypeOK
<1>4. mixed \in SUBSET (1..newest)
  BY DEF Deals!FairnessTypeOK, Deals!Room
<1>5. CASE room.status = "inMatch"
  <2>1. /\ starts' = starts \ {s} /\ room' = room
        /\ UNCHANGED <<dealer, shuffle, pending, writes, deals>>
    BY <1>5 DEF Deals!createFairShuffle, Deals!Unready
  <2>2. Deals!FairnessTypeOK'
    BY <1>1, <1>2, <1>3, <2>1 DEF Deals!FairnessTypeOK
  <2> QED
    BY <1>1, <2>1, <2>2 DEF Deals!FairnessTypeOK, Deals!SeatsFit, Deals!PendingIsAnnounced, Deals!isFull, Deals!StartsAreNumbered, Deals!DealsAreDistinct, Deals!GamesAreOfDeals, Deals!CommittedFirst, Deals!Deal
<1>6. CASE room.status # "inMatch"
  <2>1. /\ room' = [room EXCEPT !.status = "inMatch"] /\ starts' = starts \ {s}
        /\ dealer' = [seed |-> seed, id |-> s.id, games |-> 1] /\ pending' = 0
        /\ writes' = writes \cup {[id |-> s.id, index |-> 0, seed |-> seed, revealed |-> FALSE]}
        /\ deals' = deals \cup {d0}
    BY <1>6 DEF Deals!createFairShuffle, Deals!recordGame
  <2>2. /\ room'.seats = room.seats /\ room'.ready = room.ready /\ room'.matchId = room.matchId
        /\ s.id \in Nat
    BY <2>1 DEF Deals!FairnessTypeOK
  <2> HIDE DEF seed, mixed
  <2>3. Deals!FairnessTypeOK'
    <3>1. d0 \in Deals!Deal(newest')
      BY <1>1, <1>2, <1>4, <2>2 DEF Deals!Deal, Deals!FairnessTypeOK
    <3>2. deals' \subseteq Deals!Deal(newest')
      BY <1>2, <2>1, <3>1 DEF Deals!FairnessTypeOK
    <3>3. (rows \cup writes)' \subseteq Deals!Row
      <4>1. [id |-> s.id, index |-> 0, seed |-> seed, revealed |-> FALSE] \in Deals!Row
        BY <1>1, <2>2 DEF Deals!Row
      <4> QED BY <1>1, <2>1, <4>1 DEF Deals!FairnessTypeOK
    <3>4. /\ room' \in Deals!Room
          /\ starts' \subseteq [id : Nat, players : SUBSET Users]
      BY <2>1 DEF Deals!FairnessTypeOK, Deals!Room
    <3>5. dealer' \in [seed : Nat, id : Nat, games : Nat] /\ pending' \in 0..newest'
      BY <1>1, <2>1, <2>2
    <3>6. countdown' \in BOOLEAN
      BY <1>1 DEF Deals!FairnessTypeOK
    <3> QED BY <1>1, <1>3, <3>2, <3>3, <3>4, <3>5, <3>6 DEF Deals!FairnessTypeOK
  <2>4. Deals!SeatsFit' /\ Deals!PendingIsAnnounced'
    BY <2>1, <2>2 DEF Deals!SeatsFit, Deals!PendingIsAnnounced
  <2>5. s.id <= room.matchId /\ \A d \in deals : d.id # s.id /\ d.seed # seed
    BY DEF Deals!StartsAreNumbered, Deals!PendingIsAnnounced, Deals!DealsAreDistinct, Deals!FairnessTypeOK, seed
  <2>6. Deals!StartsAreNumbered'
    BY <2>1, <2>2 DEF Deals!StartsAreNumbered
  <2>7. Deals!DealsAreDistinct'
    BY <1>1, <2>1, <2>2, <2>5 DEF Deals!DealsAreDistinct, Deals!FairnessTypeOK, Deals!Deal
  <2>8. Deals!GamesAreOfDeals'
    <3>1. d0 \in deals' /\ d0.id = s.id /\ d0.seed = seed
      BY <2>1
    <3>2. dealer'.id = s.id /\ dealer'.seed = seed
      BY <2>1
    <3>3. deals \subseteq deals'
      BY <2>1
    <3>4. ASSUME NEW x \in (rows \cup writes)'
          PROVE  \E d \in deals' : d.id = x.id /\ d.seed = x.seed
      <4>1. CASE x \in rows \cup writes
        BY <4>1, <3>3 DEF Deals!GamesAreOfDeals
      <4>2. CASE x = [id |-> s.id, index |-> 0, seed |-> seed, revealed |-> FALSE]
        BY <4>2, <3>1
      <4> QED BY <1>1, <2>1, <3>4, <4>1, <4>2
    <3> QED BY <3>1, <3>2, <3>4 DEF Deals!GamesAreOfDeals
  <2>9. ~fresh => \A c \in mixed : c >= seed
    BY DEF Deals!PendingIsAnnounced, seed, mixed
  <2>10. Deals!CommittedFirst'
    <3> SUFFICES ASSUME NEW d \in deals', d.announced PROVE \A c \in d.mixed : c >= d.seed
      BY DEF Deals!CommittedFirst
    <3>1. CASE d \in deals
      BY <3>1 DEF Deals!CommittedFirst
    <3>2. CASE d = d0
      BY <3>2, <2>9
    <3> QED BY <2>1, <3>1, <3>2
  <2> QED BY <2>3, <2>4, <2>6, <2>7, <2>8, <2>10
<1> QED BY <1>5, <1>6

LEMMA FairnessStep == Deals!FairnessInv /\ [Deals!Next]_Deals!fairVars => Deals!FairnessInv'
<1> SUFFICES ASSUME Deals!FairnessInv, [Deals!Next]_Deals!fairVars PROVE Deals!FairnessInv'
  OBVIOUS
<1> USE DEF Deals!FairnessInv, Deals!None
<1>1. CASE UNCHANGED Deals!fairVars
  BY <1>1 DEF Deals!fairVars, Deals!FairnessTypeOK, Deals!SeatsFit, Deals!PendingIsAnnounced, Deals!isFull, Deals!StartsAreNumbered, Deals!DealsAreDistinct, Deals!GamesAreOfDeals, Deals!CommittedFirst
<1>2. ASSUME NEW u \in Users, Deals!onJoin(u) \/ Deals!onLeave(u) \/ Deals!onReady(u)
      PROVE  Deals!FairnessInv'
  BY <1>2, JoinsKeep
<1>3. ASSUME NEW u \in Users, Deals!recordClientSeed(u) \/ Deals!onDisconnect(u)
      PROVE  Deals!FairnessInv'
  <2>1. /\ \E n \in {0, newest} : clientSeed' = [clientSeed EXCEPT ![u] = n]
        /\ UNCHANGED <<room, countdown, newest, pending, starts, dealer, shuffle, ends, rows, writes, published, deals>>
    BY <1>3 DEF Deals!recordClientSeed, Deals!onDisconnect
  <2>2. Deals!FairnessTypeOK'
    BY <2>1 DEF Deals!FairnessTypeOK
  <2>3. Deals!PendingIsAnnounced'
    <3>1. \A v \in Users : clientSeed'[v] \in {0, newest, clientSeed[v]}
      BY <2>1 DEF Deals!FairnessTypeOK
    <3>2. newest >= pending /\ room.seats \subseteq Users
      BY DEF Deals!FairnessTypeOK, Deals!Room
    <3> QED BY <2>1, <3>1, <3>2 DEF Deals!PendingIsAnnounced, Deals!isFull
  <2> QED BY <2>1, <2>2, <2>3 DEF Deals!SeatsFit, Deals!StartsAreNumbered, Deals!DealsAreDistinct, Deals!GamesAreOfDeals, Deals!CommittedFirst
<1>4. CASE Deals!tryBeginMatch
  <2>1. /\ \/ UNCHANGED <<room, starts>>
           \/ /\ room' = [room EXCEPT !.matchId = @ + 1]
              /\ starts' = starts \cup {[id |-> room.matchId + 1, players |-> room.seats]}
        /\ countdown' = FALSE
        /\ UNCHANGED <<newest, pending, clientSeed, dealer, shuffle, ends, rows, writes, published, deals>>
    BY <1>4 DEF Deals!tryBeginMatch
  <2>2. /\ room'.seats = room.seats /\ room'.ready = room.ready /\ room'.status = room.status
        /\ room'.matchId \in Nat /\ room'.matchId >= room.matchId /\ room' \in Deals!Room
    BY <2>1 DEF Deals!FairnessTypeOK, Deals!Room
  <2>3. Deals!FairnessTypeOK'
    <3>1. starts' \subseteq [id : Nat, players : SUBSET Users]
      BY <2>1 DEF Deals!FairnessTypeOK, Deals!Room
    <3>2. countdown' \in BOOLEAN
      BY <2>1
    <3> QED BY <2>1, <2>2, <3>1, <3>2 DEF Deals!FairnessTypeOK
  <2>4. Deals!SeatsFit' /\ Deals!PendingIsAnnounced' /\ Deals!GamesAreOfDeals' /\ Deals!CommittedFirst'
    BY <2>1, <2>2 DEF Deals!SeatsFit, Deals!PendingIsAnnounced, Deals!isFull, Deals!GamesAreOfDeals, Deals!CommittedFirst
  <2>5. \A d \in deals : d.id \in Nat /\ d.id <= room.matchId
    BY DEF Deals!FairnessTypeOK, Deals!DealsAreDistinct, Deals!Deal
  <2>6. \A s \in starts : s.id \in Nat /\ s.id <= room.matchId
    BY DEF Deals!FairnessTypeOK, Deals!StartsAreNumbered
  <2>7. room.matchId \in Nat
    BY DEF Deals!FairnessTypeOK, Deals!Room
  <2>8. Deals!DealsAreDistinct'
    BY <2>1, <2>2, <2>5, <2>7 DEF Deals!DealsAreDistinct
  <2>9. Deals!StartsAreNumbered'
    <3>1. CASE UNCHANGED <<room, starts>>
      BY <2>1, <3>1 DEF Deals!StartsAreNumbered
    <3>2. CASE ~UNCHANGED <<room, starts>>
      <4> DEFINE s0 == [id |-> room.matchId + 1, players |-> room.seats]
      <4>1. starts' = starts \cup {s0} /\ s0.id = room.matchId + 1 /\ room'.matchId = room.matchId + 1
        BY <2>1, <3>2 DEF Deals!FairnessTypeOK, Deals!Room
      <4> HIDE DEF s0
      <4>2. \A s \in starts' : s.id \in Nat /\ s.id <= room'.matchId /\ \A d \in deals : d.id # s.id
        BY <2>5, <2>6, <2>7, <4>1 DEF Deals!StartsAreNumbered
      <4>3. \A s, o \in starts' : s.id = o.id => s = o
        BY <2>6, <2>7, <4>1 DEF Deals!StartsAreNumbered
      <4> QED BY <2>1, <4>2, <4>3 DEF Deals!StartsAreNumbered
    <3> QED BY <3>1, <3>2
  <2> QED BY <2>3, <2>4, <2>8, <2>9
<1>5. CASE Deals!deal
  <2>1. /\ room.status = "inMatch" /\ dealer' = [dealer EXCEPT !.games = @ + 1]
        /\ writes' = writes \cup {[id |-> dealer.id, index |-> dealer.games, seed |-> dealer.seed, revealed |-> FALSE]}
        /\ UNCHANGED <<room, countdown, newest, pending, clientSeed, starts, shuffle, ends, rows, published, deals>>
    BY <1>5 DEF Deals!deal, Deals!recordGame
  <2>2. /\ dealer' \in [seed : Nat, id : Nat, games : Nat]
        /\ dealer'.id = dealer.id /\ dealer'.seed = dealer.seed
    BY <2>1 DEF Deals!FairnessTypeOK
  <2>5. (rows \cup writes)' \subseteq Deals!Row
    <3>1. [id |-> dealer.id, index |-> dealer.games, seed |-> dealer.seed, revealed |-> FALSE] \in Deals!Row
      BY DEF Deals!FairnessTypeOK, Deals!Row
    <3> QED BY <2>1, <3>1 DEF Deals!FairnessTypeOK
  <2>3. Deals!FairnessTypeOK'
    BY <2>1, <2>2, <2>5 DEF Deals!FairnessTypeOK
  <2>4. Deals!GamesAreOfDeals'
    <3> DEFINE x0 == [id |-> dealer.id, index |-> dealer.games, seed |-> dealer.seed, revealed |-> FALSE]
    <3>1. \E d \in deals : d.id = x0.id /\ d.seed = x0.seed
      BY <2>1 DEF Deals!GamesAreOfDeals
    <3>2. (rows \cup writes)' = (rows \cup writes) \cup {x0}
      BY <2>1
    <3> HIDE DEF x0
    <3> QED BY <2>1, <2>2, <3>1, <3>2 DEF Deals!GamesAreOfDeals
  <2> QED BY <2>1, <2>3, <2>4 DEF Deals!SeatsFit, Deals!PendingIsAnnounced, Deals!isFull, Deals!StartsAreNumbered, Deals!DealsAreDistinct, Deals!CommittedFirst
<1>6. CASE Deals!matchEnds
  BY <1>6 DEF Deals!matchEnds, Deals!FairnessTypeOK, Deals!Room, Deals!SeatsFit, Deals!PendingIsAnnounced, Deals!isFull, Deals!StartsAreNumbered, Deals!DealsAreDistinct, Deals!GamesAreOfDeals, Deals!CommittedFirst
<1>7. CASE Deals!onRematch
  <2> DEFINE r == [room EXCEPT !.status = "waiting", !.ready = room.seats]
  <2>1. /\ r \in Deals!Room
        /\ r.seats = room.seats /\ r.ready \subseteq r.seats /\ r.matchId = room.matchId
        /\ r.status # "inMatch"
    BY DEF Deals!FairnessTypeOK, Deals!Room
  <2>2. Deals!maybeStartCountdown(r)
    BY <1>7 DEF Deals!onRematch
  <2> HIDE DEF r
  <2> QED BY <2>1, <2>2, CountdownKeeps DEF Deals!SeatsFit
<1>8. ASSUME NEW s \in starts, Deals!startFails(s)
      PROVE  Deals!FairnessInv'
  BY <1>8 DEF Deals!startFails, Deals!Unready, Deals!FairnessTypeOK, Deals!Room, Deals!SeatsFit, Deals!PendingIsAnnounced, Deals!isFull, Deals!StartsAreNumbered, Deals!DealsAreDistinct, Deals!GamesAreOfDeals, Deals!CommittedFirst
<1>9. ASSUME NEW s \in starts, Deals!createFairShuffle(s)
      PROVE  Deals!FairnessInv'
  BY <1>9, DealKeeps
<1>10. ASSUME NEW w \in writes, Deals!persist(w)
       PROVE  Deals!FairnessInv'
  BY <1>10 DEF Deals!persist, Deals!FairnessTypeOK, Deals!SeatsFit, Deals!PendingIsAnnounced, Deals!isFull, Deals!StartsAreNumbered, Deals!DealsAreDistinct, Deals!GamesAreOfDeals, Deals!CommittedFirst
<1>11. ASSUME NEW id \in ends, Deals!settlementFails(id)
       PROVE  Deals!FairnessInv'
  BY <1>11 DEF Deals!settlementFails, Deals!FairnessTypeOK, Deals!SeatsFit, Deals!PendingIsAnnounced, Deals!isFull, Deals!StartsAreNumbered, Deals!DealsAreDistinct, Deals!GamesAreOfDeals, Deals!CommittedFirst
<1>12. ASSUME NEW id \in ends, Deals!revealFair(id)
       PROVE  Deals!FairnessInv'
  <2>1. /\ rows' = rows \/ rows' = Deals!revealMatch(room.matchId)
        /\ UNCHANGED <<room, countdown, newest, pending, clientSeed, starts, dealer, writes, deals>>
    BY <1>12 DEF Deals!revealFair
  <2>2. ASSUME NEW x \in Deals!revealMatch(room.matchId)
        PROVE  x \in Deals!Row /\ \E d \in deals : d.id = x.id /\ d.seed = x.seed
    <3>1. PICK r \in rows : x = IF r.id = room.matchId THEN [r EXCEPT !.revealed = TRUE] ELSE r
      BY DEF Deals!revealMatch
    <3>2. r \in Deals!Row
      BY DEF Deals!FairnessTypeOK
    <3>3. x \in Deals!Row /\ x.id = r.id /\ x.seed = r.seed
      BY <3>1, <3>2 DEF Deals!Row
    <3> QED BY <3>3 DEF Deals!GamesAreOfDeals
  <2> QED BY <2>1, <2>2 DEF Deals!FairnessTypeOK, Deals!SeatsFit, Deals!PendingIsAnnounced, Deals!isFull, Deals!StartsAreNumbered, Deals!DealsAreDistinct, Deals!GamesAreOfDeals, Deals!CommittedFirst
<1> QED BY <1>1, <1>2, <1>3, <1>4, <1>5, <1>6, <1>7, <1>8, <1>9, <1>10, <1>11, <1>12 DEF Deals!Next

LEMMA FairnessInvImplies == Deals!FairnessInv => Deals!CommittedFirst /\ Deals!SeedsAreUsedOnce
BY DEF Deals!FairnessInv, Deals!DealsAreDistinct, Deals!GamesAreOfDeals, Deals!SeedsAreUsedOnce

-----------------------------------------------------------------------------
(* Compliance, the gate: what a request read is still true when it acts.   *)

GateSteps == {"idle", "profile", "exclude", "compliance", "loss", "bet"}
GateCalls == [pc : GateSteps, value : {"none", "fit", "unfit"}, until : Nat, seen : Nat, told : Nat]

GateTypes ==
    /\ user \in [state : {"active", "frozen", "banned"}, kyc : BOOLEAN,
                 identity : {"none", "fit", "unfit"}, excluded : Nat, limited : BOOLEAN]
    /\ today \in Nat /\ net \in Int /\ told \in Nat /\ edits \in Nat
    /\ wagering \in [Calls -> GateCalls]
    /\ \A c \in Calls : wagering[c].pc = "profile" => wagering[c].value # "none"

\* The requests that passed the gate and have not staked yet.
Bets == {c \in Calls : wagering[c].pc = "bet"}

\* Each of them may still take a stake more.
LossesFit ==
    capped => /\ user.limited
              /\ -net + Stake * Cardinality(Bets) < LossLimit + Stake * Cardinality(Calls)

\* A gate that passed did so after the exclusions that were confirmed before it began.
VowsStand ==
    ~stale =>
      /\ user.excluded = told /\ ~early
      /\ \A c \in Calls :
           /\ wagering[c].pc \in {"compliance", "loss", "bet"} => wagering[c].told <= told
           /\ wagering[c].pc \in {"loss", "bet"} => wagering[c].told <= today
      /\ edits <= 1
      /\ user.identity = "none" /\ user.state # "banned" => edits = 0

GateInv == GateTypes /\ LossesFit /\ VowsStand

\* The sets of Compliance are those of FiniteSets.
LEMMA LimitsCardinality == \A S : Limits!Cardinality(S) = Cardinality(S)
BY Zenon DEF Limits!Cardinality, Cardinality

\* Idle is a request, and one that is made of it keeps its fields.
LEMMA GateCallsAre ==
  /\ Limits!Idle \in GateCalls /\ Limits!Idle.pc = "idle"
  /\ \A q \in GateCalls : /\ q.pc \in GateSteps /\ q.value \in {"none", "fit", "unfit"}
                          /\ q.until \in Nat /\ q.seen \in Nat /\ q.told \in Nat
BY DEF Limits!Idle, GateCalls, GateSteps

\* There are finitely many requests, and no more bets than requests.
LEMMA BetsAre ==
  /\ IsFiniteSet(Bets) /\ Cardinality(Bets) \in Nat /\ Cardinality(Calls) \in Nat
  /\ Cardinality(Bets) <= Cardinality(Calls)
BY FS_Subset, FS_CardinalityType, LimitsAssumption DEF Bets

LEMMA GateInitial == Limits!GateInit => GateInv
<1> SUFFICES ASSUME Limits!GateInit PROVE GateInv
  OBVIOUS
<1>1. GateTypes
  BY GateCallsAre DEF Limits!GateInit, GateTypes, GateCalls
<1>2. VowsStand
  BY GateCallsAre DEF Limits!GateInit, VowsStand
<1>3. Bets = {}
  BY GateCallsAre DEF Limits!GateInit, Bets
<1>4. Cardinality(Bets) = 0 /\ Cardinality(Calls) \in Nat
  BY <1>3, FS_EmptySet, BetsAre
<1>5. Stake * Cardinality(Calls) \in Nat /\ Stake * 0 = 0
  BY <1>4, LimitsAssumption
<1>6. LossesFit
  BY <1>4, <1>5, LimitsAssumption DEF Limits!GateInit, LossesFit
<1> QED BY <1>1, <1>2, <1>6 DEF GateInv

\* The losses still fit when the requests that are about to stake became no more, and the
\* net result of the day no worse.
LEMMA LossesStillFit ==
  ASSUME GateInv, capped' => capped /\ user'.limited, net' \in Int, net' >= net,
         Bets' \subseteq Bets
  PROVE  LossesFit'
<1> DEFINE b == Cardinality(Bets)
           e == Cardinality(Bets')
           n == Cardinality(Calls)
<1>1. b \in Nat /\ n \in Nat /\ IsFiniteSet(Bets)
  BY BetsAre
<1>2. e \in Nat /\ e <= b
  <2>1. Bets' \in SUBSET Bets
    OBVIOUS
  <2> QED BY <1>1, <2>1, FS_Subset, FS_CardinalityType
<1>3. capped => -net + Stake * b < LossLimit + Stake * n
  BY DEF GateInv, LossesFit
<1>4. net \in Int
  BY DEF GateInv, GateTypes
<1> HIDE DEF b, e, n
<1>5. -net' + Stake * e <= -net + Stake * b
  <2>1. PICK k \in Nat : b = e + k
    BY <1>1, <1>2
  <2>2. Stake * b = Stake * e + Stake * k /\ Stake * k \in Nat /\ Stake * e \in Nat
    BY <1>2, <2>1, LimitsAssumption
  <2> QED BY <1>4, <2>2
<1>6. Stake * e \in Nat /\ Stake * b \in Nat /\ Stake * n \in Nat
  BY <1>1, <1>2, LimitsAssumption
<1>7. capped' => -net' + Stake * e < LossLimit + Stake * n
  <2> SUFFICES ASSUME capped' PROVE -net' + Stake * e < LossLimit + Stake * n
    OBVIOUS
  <2>1. -net + Stake * b < LossLimit + Stake * n
    BY <1>3
  <2> QED BY <1>4, <1>5, <1>6, <2>1, LimitsAssumption
<1>8. capped' => user'.limited
  OBVIOUS
<1> QED BY <1>7, <1>8 DEF LossesFit, e, n

\* A request that does its next step, and the others that wait.
LEMMA RequestSteps ==
  ASSUME GateTypes, NEW c \in Calls, NEW q \in GateCalls, q.pc = "profile" => q.value # "none",
         wagering' = [wagering EXCEPT ![c] = q]
  PROVE  /\ wagering' \in [Calls -> GateCalls] /\ wagering'[c] = q
         /\ \A d \in Calls : d # c => wagering'[d] = wagering[d]
         /\ \A d \in Calls : wagering'[d].pc = "profile" => wagering'[d].value # "none"
         /\ q.pc # "bet" => Bets' \subseteq Bets
BY DEF GateTypes, Bets

\* The steps of a request, and what it holds afterwards.
LEMMA RequestIs ==
  ASSUME GateTypes, NEW c \in Calls
  PROVE  /\ wagering[c] \in GateCalls
         /\ \A p \in GateSteps :
              LET q == [wagering[c] EXCEPT !.pc = p]
              IN  q \in GateCalls /\ q.pc = p /\ q.value = wagering[c].value /\ q.told = wagering[c].told
         /\ \A v \in {"fit", "unfit"} :
              LET q == [Limits!Idle EXCEPT !.pc = "profile", !.value = v]
              IN  q \in GateCalls /\ q.pc = "profile" /\ q.value = v
         /\ \A m, n \in Nat :
              LET q == [Limits!Idle EXCEPT !.pc = "exclude", !.until = m, !.seen = n]
              IN  q \in GateCalls /\ q.pc = "exclude" /\ q.until = m /\ q.seen = n
         /\ \A n \in Nat :
              LET q == [Limits!Idle EXCEPT !.pc = "compliance", !.told = n]
              IN  q \in GateCalls /\ q.pc = "compliance" /\ q.told = n
<1>1. wagering[c] \in GateCalls
  BY DEF GateTypes
<1>2. ASSUME NEW p \in GateSteps
      PROVE  LET q == [wagering[c] EXCEPT !.pc = p]
             IN  q \in GateCalls /\ q.pc = p /\ q.value = wagering[c].value /\ q.told = wagering[c].told
  BY <1>1 DEF GateCalls
<1>3. ASSUME NEW v \in {"fit", "unfit"}
      PROVE  LET q == [Limits!Idle EXCEPT !.pc = "profile", !.value = v]
             IN  q \in GateCalls /\ q.pc = "profile" /\ q.value = v
  BY DEF GateCalls, Limits!Idle, GateSteps
<1>4. ASSUME NEW m \in Nat, NEW n \in Nat
      PROVE  LET q == [Limits!Idle EXCEPT !.pc = "exclude", !.until = m, !.seen = n]
             IN  q \in GateCalls /\ q.pc = "exclude" /\ q.until = m /\ q.seen = n
  BY DEF GateCalls, Limits!Idle, GateSteps
<1>5. ASSUME NEW n \in Nat
      PROVE  LET q == [Limits!Idle EXCEPT !.pc = "compliance", !.told = n]
             IN  q \in GateCalls /\ q.pc = "compliance" /\ q.told = n
  BY DEF GateCalls, Limits!Idle, GateSteps
<1> QED BY <1>1, <1>2, <1>3, <1>4, <1>5

\* The row of the user, field by field.
LEMMA UserIs ==
  ASSUME GateTypes
  PROVE  /\ user.state \in {"active", "frozen", "banned"} /\ user.kyc \in BOOLEAN
         /\ user.identity \in {"none", "fit", "unfit"} /\ user.excluded \in Nat /\ user.limited \in BOOLEAN
BY DEF GateTypes

\* The actions that are not a request's.
LEMMA OthersKeepGate ==
  ASSUME GateInv,
         Limits!setLimits \/ Limits!anonymize \/ Limits!setKyc \/ Limits!setAccountState
           \/ Limits!payout \/ Limits!midnight
  PROVE  GateInv'
<1>1. CASE Limits!setLimits
  <2>1. GateTypes'
    BY <1>1 DEF GateInv, GateTypes, Limits!setLimits
  <2>2. VowsStand'
    BY <1>1 DEF GateInv, GateTypes, Limits!setLimits, VowsStand
  <2>3. LossesFit'
    BY <1>1 DEF Limits!setLimits, LossesFit
  <2> QED BY <2>1, <2>2, <2>3 DEF GateInv
<1>2. CASE Limits!anonymize
  <2>1. GateTypes'
    BY <1>2 DEF GateInv, GateTypes, Limits!anonymize
  <2>2. VowsStand'
    BY <1>2 DEF GateInv, GateTypes, Limits!anonymize, VowsStand
  <2>3. LossesFit'
    BY <1>2 DEF GateInv, GateTypes, Limits!anonymize, LossesFit, Bets
  <2> QED BY <2>1, <2>2, <2>3 DEF GateInv
<1>3. CASE Limits!setKyc
  <2>1. GateTypes'
    BY <1>3 DEF GateInv, GateTypes, Limits!setKyc
  <2>2. VowsStand'
    BY <1>3 DEF GateInv, GateTypes, Limits!setKyc, VowsStand
  <2>3. LossesFit'
    BY <1>3 DEF GateInv, GateTypes, Limits!setKyc, LossesFit, Bets
  <2> QED BY <2>1, <2>2, <2>3 DEF GateInv
<1>4. CASE Limits!setAccountState
  <2>1. GateTypes'
    BY <1>4 DEF GateInv, GateTypes, Limits!setAccountState
  <2>2. VowsStand'
    BY <1>4 DEF GateInv, GateTypes, Limits!setAccountState, Limits!Signed, VowsStand
  <2>3. LossesFit'
    BY <1>4 DEF GateInv, GateTypes, Limits!setAccountState, LossesFit, Bets
  <2> QED BY <2>1, <2>2, <2>3 DEF GateInv
<1>5. CASE Limits!payout
  <2>1. net \in Int /\ net' = net + Stake /\ UNCHANGED <<user, capped, wagering, today, told, edits, early, stale>>
    BY <1>5 DEF GateInv, GateTypes, Limits!payout
  <2>2. net' \in Int /\ net' >= net /\ Bets' \subseteq Bets
    BY <2>1, LimitsAssumption DEF Bets
  <2>3. GateTypes'
    BY <2>1, <2>2 DEF GateInv, GateTypes
  <2>4. VowsStand'
    BY <2>1 DEF GateInv, VowsStand
  <2>5. capped' => capped /\ user'.limited
    BY <2>1 DEF GateInv, LossesFit
  <2>6. LossesFit'
    BY <2>2, <2>5, LossesStillFit
  <2> QED BY <2>3, <2>4, <2>6 DEF GateInv
<1>6. CASE Limits!midnight
  <2>1. /\ today \in Nat /\ today' = today + 1 /\ net' = 0 /\ capped' = user.limited
        /\ UNCHANGED <<user, wagering, told, early, edits, stale>>
    BY <1>6 DEF GateInv, GateTypes, Limits!midnight
  <2>2. GateTypes'
    BY <2>1 DEF GateInv, GateTypes
  <2>3. VowsStand'
    BY <2>1, GateCallsAre DEF GateInv, GateTypes, VowsStand
  <2>4. LossesFit'
    <3> DEFINE b == Cardinality(Bets)
               n == Cardinality(Calls)
    <3>1. b \in Nat /\ n \in Nat /\ b <= n
      BY BetsAre
    <3>2. Bets' = Bets
      BY <2>1 DEF Bets
    <3> HIDE DEF b, n
    <3>3. PICK k \in Nat : n = b + k
      BY <3>1
    <3>4. Stake * n = Stake * b + Stake * k /\ Stake * k \in Nat /\ Stake * b \in Nat
      BY <3>1, <3>3, LimitsAssumption
    <3>5. -0 + Stake * b < LossLimit + Stake * n
      BY <3>4, LimitsAssumption
    <3> QED BY <2>1, <3>2, <3>5 DEF LossesFit, b, n
  <2> QED BY <2>2, <2>3, <2>4 DEF GateInv
<1> QED BY <1>1, <1>2, <1>3, <1>4, <1>5, <1>6

\* The actions of a request.
LEMMA RequestsKeepGate ==
  ASSUME GateInv, ~stale, NEW c \in Calls,
         \/ Limits!updateCompliance(c) \/ Limits!excludes(c)
         \/ Limits!checkRealMoneyAccess(c) \/ Limits!getComplianceProfile(c)
         \/ Limits!netResultToday(c) \/ Limits!wager(c)
         \/ \E v \in {"fit", "unfit"} : Limits!updateSelfProfile(c, v)
         \/ \E d \in Days : Limits!selfExclude(c, d)
  PROVE  GateInv'
<1> DEFINE idle == Limits!Idle
           at(p) == [wagering[c] EXCEPT !.pc = p]
<1>1. GateTypes /\ VowsStand /\ LossesFit /\ wagering[c] \in GateCalls
  BY DEF GateInv, GateTypes
<1>2. idle \in GateCalls /\ idle.pc = "idle"
  BY GateCallsAre
<1>3. \A p \in GateSteps : at(p) \in GateCalls /\ at(p).pc = p /\ at(p).value = wagering[c].value
                             /\ at(p).told = wagering[c].told
  BY <1>1, RequestIs
<1>4. CASE Limits!updateCompliance(c)
  <2>1. /\ wagering[c].pc = "profile" /\ wagering' = [wagering EXCEPT ![c] = idle]
        /\ user' = [user EXCEPT !.identity = wagering[c].value]
        /\ edits' = IF user.identity = wagering[c].value THEN edits ELSE edits + 1
        /\ stale' = (stale \/ user.identity # "none" \/ user.state = "banned")
        /\ UNCHANGED <<today, net, told, capped, early>>
    BY <1>4 DEF Limits!updateCompliance, Limits!Done, Limits!Signed
  <2> HIDE DEF idle, at
  <2>2. /\ wagering' \in [Calls -> GateCalls] /\ wagering'[c] = idle
        /\ \A d \in Calls : d # c => wagering'[d] = wagering[d]
        /\ \A d \in Calls : wagering'[d].pc = "profile" => wagering'[d].value # "none"
        /\ Bets' \subseteq Bets
    BY <1>1, <1>2, <2>1, RequestSteps
  <2>3. wagering[c].value \in {"fit", "unfit"}
    BY <1>1, <2>1, GateCallsAre DEF GateTypes
  <2>4. GateTypes'
    BY <1>1, <2>1, <2>2, <2>3 DEF GateTypes
  <2>5. VowsStand'
    <3> SUFFICES ASSUME ~stale' PROVE VowsStand'
      BY DEF VowsStand
    <3>1. user.identity = "none" /\ user.state # "banned"
      BY <2>1
    <3>2. /\ user'.identity = wagering[c].value /\ user'.excluded = user.excluded
          /\ UNCHANGED <<today, told, early>>
      BY <1>1, <2>1 DEF GateTypes
    <3>3. user.excluded = told /\ ~early /\ edits = 0
      BY <1>1, <3>1 DEF VowsStand
    <3>4. edits' <= 1
      BY <2>1, <3>3
    <3>5. \A d \in Calls :
           /\ wagering'[d].pc \in {"compliance", "loss", "bet"} => wagering'[d].told <= told
           /\ wagering'[d].pc \in {"loss", "bet"} => wagering'[d].told <= today
      BY <1>1, <1>2, <2>2 DEF VowsStand
    <3>6. user'.identity # "none"
      BY <2>3, <3>2
    <3> QED BY <3>2, <3>3, <3>4, <3>5, <3>6 DEF VowsStand
  <2>6. capped' => capped /\ user'.limited
    BY <1>1, <2>1 DEF LossesFit, GateTypes
  <2>7. LossesFit'
    BY <1>1, <2>1, <2>2, <2>6, LossesStillFit DEF GateTypes
  <2> QED BY <2>4, <2>5, <2>7 DEF GateInv
<1>5. CASE Limits!excludes(c)
  <2> DEFINE until == Limits!longest(wagering[c].seen, wagering[c].until)
  <2>1. /\ wagering[c].pc = "exclude" /\ wagering' = [wagering EXCEPT ![c] = idle]
        /\ user' = [user EXCEPT !.excluded = until]
        /\ told' = IF until > told THEN until ELSE told
        /\ stale' = (stale \/ user.excluded # wagering[c].seen)
        /\ UNCHANGED <<today, net, capped, early, edits>>
    BY <1>5 DEF Limits!excludes, Limits!Done
  <2>2. until \in Nat /\ until >= wagering[c].seen
    BY <1>1, GateCallsAre DEF Limits!longest
  <2> HIDE DEF idle, at, until
  <2>3. /\ wagering' \in [Calls -> GateCalls] /\ wagering'[c] = idle
        /\ \A d \in Calls : d # c => wagering'[d] = wagering[d]
        /\ \A d \in Calls : wagering'[d].pc = "profile" => wagering'[d].value # "none"
        /\ Bets' \subseteq Bets
    BY <1>1, <1>2, <2>1, RequestSteps
  <2>4. GateTypes'
    BY <1>1, <2>1, <2>2, <2>3 DEF GateTypes
  <2>5. wagering[c].seen \in Nat /\ \A d \in Calls : wagering[d].told \in Nat
    BY <1>1, GateCallsAre DEF GateTypes
  <2>6. VowsStand'
    <3> SUFFICES ASSUME ~stale' PROVE VowsStand'
      BY DEF VowsStand
    <3>1. user.excluded = wagering[c].seen /\ user.excluded = told /\ ~early /\ told \in Nat
      BY <1>1, <2>1 DEF VowsStand, GateTypes
    <3>2. user'.excluded = until /\ user'.identity = user.identity /\ user'.state = user.state
      BY <1>1, <2>1 DEF GateTypes
    <3>3. until >= told /\ told' = until
      BY <2>1, <2>2, <2>5, <3>1
    <3>4. \A d \in Calls :
           /\ wagering'[d].pc \in {"compliance", "loss", "bet"} => wagering'[d].told <= told
           /\ wagering'[d].pc \in {"loss", "bet"} => wagering'[d].told <= today
      BY <1>1, <1>2, <2>3 DEF VowsStand
    <3>5. \A d \in Calls : wagering'[d].told \in Nat
      BY <2>3, GateCallsAre
    <3>6. \A d \in Calls : wagering'[d].pc \in {"compliance", "loss", "bet"} => wagering'[d].told <= told'
      BY <2>2, <3>1, <3>3, <3>4, <3>5
    <3>7. edits <= 1 /\ (user.identity = "none" /\ user.state # "banned" => edits = 0)
      BY <1>1 DEF VowsStand
    <3> QED BY <2>1, <3>1, <3>2, <3>3, <3>4, <3>6, <3>7 DEF VowsStand
  <2>7. capped' => capped /\ user'.limited
    BY <1>1, <2>1 DEF LossesFit, GateTypes
  <2>8. LossesFit'
    BY <1>1, <2>1, <2>3, <2>7, LossesStillFit DEF GateTypes
  <2> QED BY <2>4, <2>6, <2>8 DEF GateInv
<1>6. CASE Limits!checkRealMoneyAccess(c)
  <2> DEFINE q == [Limits!Idle EXCEPT !.pc = "compliance", !.told = told]
  <2>1. wagering' = [wagering EXCEPT ![c] = q] /\ UNCHANGED <<user, today, net, told, capped, early, edits, stale>>
    BY <1>6 DEF Limits!checkRealMoneyAccess
  <2>2. q \in GateCalls /\ q.pc = "compliance" /\ q.told = told
    BY <1>1, RequestIs DEF GateTypes
  <2> HIDE DEF idle, at, q
  <2>3. /\ wagering' \in [Calls -> GateCalls] /\ wagering'[c] = q
        /\ \A d \in Calls : d # c => wagering'[d] = wagering[d]
        /\ \A d \in Calls : wagering'[d].pc = "profile" => wagering'[d].value # "none"
        /\ Bets' \subseteq Bets
    BY <1>1, <2>1, <2>2, RequestSteps
  <2>4. GateTypes'
    BY <1>1, <2>1, <2>3 DEF GateTypes
  <2>5. VowsStand'
    BY <1>1, <2>1, <2>2, <2>3 DEF VowsStand, GateTypes
  <2>6. LossesFit'
    BY <1>1, <2>1, <2>3, LossesStillFit DEF GateTypes, LossesFit
  <2> QED BY <2>4, <2>5, <2>6 DEF GateInv
<1>7. CASE Limits!getComplianceProfile(c)
  <2>1. /\ wagering[c].pc = "compliance"
        /\ \/ /\ user.excluded <= today /\ wagering' = [wagering EXCEPT ![c] = at("loss")]
           \/ wagering' = [wagering EXCEPT ![c] = idle]
        /\ UNCHANGED <<user, today, net, told, capped, early, edits, stale>>
    BY <1>7 DEF Limits!getComplianceProfile, Limits!checkRealMoney, Limits!Goes, Limits!Done
  <2>2. at("loss") \in GateCalls /\ at("loss").pc = "loss" /\ at("loss").told = wagering[c].told
    BY <1>3 DEF GateSteps
  <2> DEFINE loss == at("loss")
  <2>3. loss \in GateCalls /\ loss.pc = "loss" /\ loss.told = wagering[c].told
    BY <2>2
  <2> HIDE DEF idle, loss
  <2>4. \/ user.excluded <= today /\ wagering' = [wagering EXCEPT ![c] = loss]
        \/ wagering' = [wagering EXCEPT ![c] = idle]
    BY <2>1 DEF loss
  <2> HIDE DEF at
  <2>5. /\ wagering' \in [Calls -> GateCalls]
        /\ wagering'[c] = idle \/ (user.excluded <= today /\ wagering'[c] = loss)
        /\ \A d \in Calls : d # c => wagering'[d] = wagering[d]
        /\ \A d \in Calls : wagering'[d].pc = "profile" => wagering'[d].value # "none"
        /\ Bets' \subseteq Bets
    <3>1. CASE wagering' = [wagering EXCEPT ![c] = idle]
      BY <1>1, <1>2, <3>1, RequestSteps
    <3>2. CASE user.excluded <= today /\ wagering' = [wagering EXCEPT ![c] = loss]
      BY <1>1, <2>3, <3>2, RequestSteps
    <3> QED BY <2>4, <3>1, <3>2
  <2>6. GateTypes'
    BY <1>1, <2>1, <2>5 DEF GateTypes
  <2>7. /\ ~stale' /\ user' = user /\ told' = told /\ today' = today /\ early' = early /\ edits' = edits
        /\ user.excluded \in Nat /\ told \in Nat /\ today \in Nat
        /\ \A d \in Calls : wagering[d].told \in Nat
    BY <1>1, <2>1, GateCallsAre DEF GateTypes
  <2>8. wagering'[c].pc = "loss" => wagering'[c].told <= told /\ wagering'[c].told <= today
    BY <1>1, <1>2, <2>1, <2>3, <2>5, <2>7 DEF VowsStand
  <2>9. VowsStand'
    BY <1>1, <1>2, <2>3, <2>5, <2>7, <2>8 DEF VowsStand
  <2>10. LossesFit'
    BY <1>1, <2>1, <2>5, LossesStillFit DEF GateTypes, LossesFit
  <2> QED BY <2>6, <2>9, <2>10 DEF GateInv
<1>8. CASE Limits!netResultToday(c)
  <2> DEFINE bet == at("bet")
  <2>1. /\ wagering[c].pc = "loss"
        /\ \/ (user.limited => net > -LossLimit) /\ wagering' = [wagering EXCEPT ![c] = bet]
           \/ wagering' = [wagering EXCEPT ![c] = idle]
        /\ UNCHANGED <<user, today, net, told, capped, early, edits, stale>>
    BY <1>8 DEF Limits!netResultToday, Limits!checkLoss, Limits!Goes, Limits!Done
  <2>2. bet \in GateCalls /\ bet.pc = "bet" /\ bet.told = wagering[c].told
    BY <1>3 DEF GateSteps
  <2> HIDE DEF idle, bet, at
  <2>3. \A q \in {idle, bet} : wagering' = [wagering EXCEPT ![c] = q] =>
          /\ wagering' \in [Calls -> GateCalls]
          /\ wagering'[c] = q
          /\ \A d \in Calls : d # c => wagering'[d] = wagering[d]
          /\ \A d \in Calls : wagering'[d].pc = "profile" => wagering'[d].value # "none"
          /\ q = idle => Bets' \subseteq Bets
    BY <1>1, <1>2, <2>2, RequestSteps
  <2>4. /\ wagering' \in [Calls -> GateCalls]
        /\ wagering'[c] \in {idle, bet}
        /\ \A d \in Calls : d # c => wagering'[d] = wagering[d]
        /\ \A d \in Calls : wagering'[d].pc = "profile" => wagering'[d].value # "none"
    BY <2>1, <2>3
  <2>5. GateTypes'
    BY <1>1, <2>1, <2>4 DEF GateTypes
  <2>6. wagering'[c].pc = "bet" => wagering'[c].told <= told /\ wagering'[c].told <= today
    BY <1>1, <1>2, <2>1, <2>2, <2>4 DEF VowsStand
  <2>7. VowsStand'
    BY <1>1, <1>2, <2>1, <2>2, <2>4, <2>6 DEF VowsStand
  <2>8. LossesFit'
    <3>1. CASE wagering' = [wagering EXCEPT ![c] = idle]
      BY <1>1, <2>1, <2>3, <3>1, LossesStillFit DEF GateTypes, LossesFit
    <3>2. CASE (user.limited => net > -LossLimit) /\ wagering' = [wagering EXCEPT ![c] = bet]
      <4> DEFINE e == Cardinality(Bets')
                 n == Cardinality(Calls)
      <4>1. SUFFICES ASSUME capped PROVE -net + Stake * e < LossLimit + Stake * n
        BY <1>1, <2>1 DEF LossesFit
      <4>2. net > -LossLimit /\ net \in Int
        BY <1>1, <3>2, <4>1 DEF LossesFit, GateTypes
      <4>3. Bets' \in SUBSET Calls
        BY DEF Bets
      <4>4. e \in Nat /\ n \in Nat /\ e <= n
        BY <4>3, FS_Subset, FS_CardinalityType, LimitsAssumption
      <4> HIDE DEF e, n
      <4>5. PICK k \in Nat : n = e + k
        BY <4>4
      <4>6. Stake * n = Stake * e + Stake * k /\ Stake * k \in Nat /\ Stake * e \in Nat
        BY <4>4, <4>5, LimitsAssumption
      <4> QED BY <4>2, <4>6, LimitsAssumption
    <3> QED BY <2>1, <3>1, <3>2
  <2> QED BY <2>5, <2>7, <2>8 DEF GateInv
<1>9. CASE Limits!wager(c)
  <2>1. /\ wagering[c].pc = "bet" /\ wagering' = [wagering EXCEPT ![c] = idle]
        /\ net' = net - Stake /\ early' = (early \/ today < wagering[c].told)
        /\ UNCHANGED <<user, today, told, capped, edits, stale>>
    BY <1>9 DEF Limits!wager, Limits!Done
  <2> HIDE DEF idle, at
  <2>2. /\ wagering' \in [Calls -> GateCalls] /\ wagering'[c] = idle
        /\ \A d \in Calls : d # c => wagering'[d] = wagering[d]
        /\ \A d \in Calls : wagering'[d].pc = "profile" => wagering'[d].value # "none"
    BY <1>1, <1>2, <2>1, RequestSteps
  <2>3. GateTypes'
    BY <1>1, <2>1, <2>2, LimitsAssumption DEF GateTypes
  <2>4. wagering[c].told <= today /\ wagering[c].told \in Nat /\ today \in Nat
    BY <1>1, <2>1, GateCallsAre DEF VowsStand, GateTypes
  <2>5. VowsStand'
    <3> SUFFICES ASSUME ~stale PROVE VowsStand'
      BY <2>1 DEF VowsStand
    <3>1. ~(today < wagering[c].told)
      BY <2>4
    <3>2. ~early'
      BY <1>1, <2>1, <3>1 DEF VowsStand
    <3>3. \A d \in Calls :
           /\ wagering'[d].pc \in {"compliance", "loss", "bet"} => wagering'[d].told <= told
           /\ wagering'[d].pc \in {"loss", "bet"} => wagering'[d].told <= today
      BY <1>1, <1>2, <2>2 DEF VowsStand
    <3> QED BY <1>1, <2>1, <3>2, <3>3 DEF VowsStand
  <2>6. LossesFit'
    <3> DEFINE b == Cardinality(Bets)
               e == Cardinality(Bets')
               n == Cardinality(Calls)
    <3>1. c \in Bets /\ Bets' = Bets \ {c}
      BY <1>2, <2>1, <2>2 DEF Bets
    <3>2. b \in Nat /\ e \in Nat /\ n \in Nat /\ e = b - 1
      BY <3>1, BetsAre, FS_RemoveElement, FS_CardinalityType
    <3> HIDE DEF b, e, n
    <3>3. Stake * b = Stake * e + Stake /\ Stake * e \in Nat
      BY <3>2, LimitsAssumption
    <3>4. capped => user.limited /\ -net + Stake * b < LossLimit + Stake * n
      BY <1>1 DEF LossesFit, b, n
    <3>5. net \in Int /\ Stake * n \in Nat
      BY <1>1, <3>2, LimitsAssumption DEF GateTypes
    <3>6. -net' + Stake * e = -net + Stake * b
      BY <2>1, <3>3, <3>5, LimitsAssumption
    <3>7. capped' => user'.limited /\ -net' + Stake * e < LossLimit + Stake * n
      BY <2>1, <3>4, <3>6
    <3> QED BY <3>7 DEF LossesFit, e, n
  <2> QED BY <2>3, <2>5, <2>6 DEF GateInv
<1>10. ASSUME NEW v \in {"fit", "unfit"}, Limits!updateSelfProfile(c, v) PROVE GateInv'
  <2> DEFINE q == [Limits!Idle EXCEPT !.pc = "profile", !.value = v]
  <2>1. wagering' = [wagering EXCEPT ![c] = q] /\ UNCHANGED <<user, today, net, told, capped, early, edits, stale>>
    BY <1>10 DEF Limits!updateSelfProfile
  <2>2. q \in GateCalls /\ q.pc = "profile" /\ q.value = v
    BY <1>1, RequestIs
  <2> HIDE DEF idle, at, q
  <2>3. /\ wagering' \in [Calls -> GateCalls] /\ wagering'[c] = q
        /\ \A d \in Calls : d # c => wagering'[d] = wagering[d]
        /\ \A d \in Calls : wagering'[d].pc = "profile" => wagering'[d].value # "none"
        /\ Bets' \subseteq Bets
    BY <1>1, <2>1, <2>2, RequestSteps
  <2>4. GateTypes'
    BY <1>1, <2>1, <2>3 DEF GateTypes
  <2>5. VowsStand'
    BY <1>1, <2>1, <2>2, <2>3 DEF VowsStand
  <2>6. LossesFit'
    BY <1>1, <2>1, <2>3, LossesStillFit DEF GateTypes, LossesFit
  <2> QED BY <2>4, <2>5, <2>6 DEF GateInv
<1>11. ASSUME NEW d \in Days, Limits!selfExclude(c, d) PROVE GateInv'
  <2> DEFINE until == today + d
             seen == user.excluded
             q == [Limits!Idle EXCEPT !.pc = "exclude", !.until = until, !.seen = seen]
  <2>1. wagering' = [wagering EXCEPT ![c] = q] /\ UNCHANGED <<user, today, net, told, capped, early, edits, stale>>
    BY <1>11 DEF Limits!selfExclude
  <2>2. until \in Nat /\ seen \in Nat
    BY <1>1, LimitsAssumption DEF GateTypes
  <2>3. q \in GateCalls /\ q.pc = "exclude"
    <3> HIDE DEF until, seen
    <3> QED BY <2>2 DEF GateCalls, Limits!Idle, GateSteps
  <2> HIDE DEF idle, at, q
  <2>4. /\ wagering' \in [Calls -> GateCalls] /\ wagering'[c] = q
        /\ \A e \in Calls : e # c => wagering'[e] = wagering[e]
        /\ \A e \in Calls : wagering'[e].pc = "profile" => wagering'[e].value # "none"
        /\ Bets' \subseteq Bets
    BY <1>1, <2>1, <2>3, RequestSteps
  <2>5. GateTypes'
    BY <1>1, <2>1, <2>4 DEF GateTypes
  <2>6. VowsStand'
    BY <1>1, <2>1, <2>3, <2>4 DEF VowsStand
  <2>7. LossesFit'
    BY <1>1, <2>1, <2>4, LossesStillFit DEF GateTypes, LossesFit
  <2> QED BY <2>5, <2>6, <2>7 DEF GateInv
<1> QED BY <1>4, <1>5, <1>6, <1>7, <1>8, <1>9, <1>10, <1>11

LEMMA GateStep == GateInv /\ Limits!GateNext => GateInv'
BY OthersKeepGate, RequestsKeepGate DEF Limits!GateNext

LEMMA GateHolds == GateInv => Limits!VowsAreKept /\ Limits!LossIsBounded
<1> SUFFICES ASSUME GateInv PROVE Limits!VowsAreKept /\ Limits!LossIsBounded
  OBVIOUS
<1>1. Limits!VowsAreKept
  BY DEF GateInv, VowsStand, Limits!VowsAreKept
<1>2. Limits!LossIsBounded
  <2> DEFINE b == Cardinality(Bets)
             n == Cardinality(Calls)
  <2>1. b \in Nat /\ n \in Nat /\ net \in Int
    BY BetsAre DEF GateInv, GateTypes
  <2>2. capped => -net + Stake * b < LossLimit + Stake * n
    BY DEF GateInv, LossesFit
  <2>3. Limits!Cardinality(Calls) = n
    BY LimitsCardinality
  <2> HIDE DEF b, n
  <2>4. Stake * b \in Nat /\ Stake * n \in Nat
    BY <2>1, LimitsAssumption
  <2>5. capped => -net < LossLimit + Stake * n
    BY <2>1, <2>2, <2>4, LimitsAssumption
  <2> QED BY <2>3, <2>5 DEF Limits!LossIsBounded
<1> QED BY <1>1, <1>2

-----------------------------------------------------------------------------
(* Compliance, the watch: no pair of opponents gets past the threshold     *)
(* without meeting it.                                                     *)

AllFlags == [user : Limits!Players, partner : Limits!Players,
             type : {"collusion_pairing", "chip_dump"}, severity : {2, 3}]

WatchTypes ==
    /\ lost \in Nat
    /\ waiting \in Seq(Results) /\ recentStaked \in Seq(Results)
    /\ filing \in Seq(SUBSET AllFlags)

WatchInv == WatchTypes /\ Limits!PairsAreFlagged

\* The matches of a window in which two players were opponents.
Meetings(w, a, b) == {i \in DOMAIN w : Limits!Opponents(w[i], a, b)}

\* They are finitely many, and coSeat is their number.
LEMMA MeetingsAre ==
  ASSUME NEW w \in Seq(Results), NEW a, NEW b
  PROVE  /\ IsFiniteSet(Meetings(w, a, b)) /\ Cardinality(Meetings(w, a, b)) \in Nat
         /\ Limits!coSeat(w, a, b) = Cardinality(Meetings(w, a, b))
         /\ DOMAIN w = 1..Len(w) /\ Len(w) \in Nat
<1>1. DOMAIN w = 1..Len(w) /\ Len(w) \in Nat
  BY LenProperties
<1>2. IsFiniteSet(DOMAIN w)
  BY <1>1, FS_Interval
<1>3. Meetings(w, a, b) \in SUBSET DOMAIN w
  BY DEF Meetings
<1>4. IsFiniteSet(Meetings(w, a, b)) /\ Cardinality(Meetings(w, a, b)) \in Nat
  BY <1>2, <1>3, FS_Subset, FS_CardinalityType
<1>5. Limits!coSeat(w, a, b) = Cardinality(Meetings(w, a, b))
  BY LimitsCardinality DEF Limits!coSeat, Meetings
<1> QED BY <1>1, <1>4, <1>5

\* A match added to a window is one meeting more for its opponents, and none for others.
LEMMA MeetingsGrow ==
  ASSUME NEW s \in Seq(Results), NEW m \in Results, NEW a, NEW b
  PROVE  LET t == Append(s, m)
         IN  /\ t \in Seq(Results) /\ Len(t) = Len(s) + 1 /\ t[Len(t)] = m
             /\ Limits!coSeat(t, a, b) <= Limits!coSeat(s, a, b) + 1
             /\ ~Limits!Opponents(m, a, b) => Limits!coSeat(t, a, b) <= Limits!coSeat(s, a, b)
<1> DEFINE t == Append(s, m)
           n == Len(s)
<1>1. /\ t \in Seq(Results) /\ Len(t) = n + 1 /\ t[n + 1] = m
      /\ \A i \in 1..n : t[i] = s[i]
  BY AppendProperties
<1>2. n \in Nat /\ DOMAIN s = 1..n /\ DOMAIN t = 1..(n + 1)
  BY <1>1, LenProperties
<1> HIDE DEF t, n
<1>3. Meetings(t, a, b) = Meetings(s, a, b) \cup (IF Limits!Opponents(m, a, b) THEN {n + 1} ELSE {})
  <2>1. \A i \in 1..(n + 1) : i \in 1..n \/ i = n + 1
    BY <1>2
  <2>2. \A i \in 1..n : i \in 1..(n + 1) /\ i # n + 1
    BY <1>2
  <2>3. n + 1 \in 1..(n + 1)
    BY <1>2
  <2> QED BY <1>1, <1>2, <2>1, <2>2, <2>3 DEF Meetings
<1>4. IsFiniteSet(Meetings(s, a, b)) /\ Cardinality(Meetings(s, a, b)) \in Nat
  BY MeetingsAre
<1>5. /\ Cardinality(Meetings(t, a, b)) <= Cardinality(Meetings(s, a, b)) + 1
      /\ ~Limits!Opponents(m, a, b) => Cardinality(Meetings(t, a, b)) <= Cardinality(Meetings(s, a, b))
  <2>1. CASE Limits!Opponents(m, a, b)
    <3>1. Meetings(t, a, b) = Meetings(s, a, b) \cup {n + 1}
      BY <1>3, <2>1
    <3> DEFINE b0 == Cardinality(Meetings(s, a, b))
               b1 == Cardinality(Meetings(s, a, b) \cup {n + 1})
    <3>2. b1 = b0 \/ b1 = b0 + 1
      BY <1>4, FS_AddElement
    <3>3. b1 <= b0 + 1
      <4> HIDE DEF b0, b1
      <4>1. b0 \in Nat
        BY <1>4 DEF b0
      <4> QED BY <3>2, <4>1
    <3> QED BY <2>1, <3>1, <3>3
  <2>2. CASE ~Limits!Opponents(m, a, b)
    <3>1. Meetings(t, a, b) = Meetings(s, a, b)
      BY <1>3, <2>2
    <3> QED BY <1>4, <3>1
  <2> QED BY <2>1, <2>2
<1>6. /\ Limits!coSeat(t, a, b) = Cardinality(Meetings(t, a, b))
      /\ Limits!coSeat(s, a, b) = Cardinality(Meetings(s, a, b))
  BY <1>1, MeetingsAre
<1> QED BY <1>1, <1>5, <1>6 DEF t, n

\* The window keeps the last match, and no meeting it did not have.
LEMMA MeetingsSlide ==
  ASSUME NEW t \in Seq(Results), Len(t) > 0, NEW a, NEW b
  PROVE  LET w == Limits!Last(t, Window)
         IN  /\ w \in Seq(Results) /\ Len(w) > 0 /\ w[Len(w)] = t[Len(t)]
             /\ Limits!coSeat(w, a, b) <= Limits!coSeat(t, a, b)
<1> DEFINE w == Limits!Last(t, Window)
           n == Len(t)
           off == n - Window
<1>1. n \in Nat /\ n > 0 /\ DOMAIN t = 1..n /\ \A i \in 1..n : t[i] \in Results
  BY LenProperties, ElementOfSeq
<1>2. CASE n > Window
  <2>1. w = SubSeq(t, off + 1, n)
    BY <1>2 DEF Limits!Last
  <2>2. off \in Nat /\ off + 1 \in Int /\ n \in Int /\ Window \in Nat /\ Window > 0
    BY <1>1, <1>2, LimitsAssumption
  <2> HIDE DEF w, n
  <2>3. \A i \in (off + 1)..n : t[i] \in Results
    BY <1>1, <2>2
  <2> DEFINE m1 == off + 1
  <2>4. m1 \in Int /\ m1 <= n /\ n - m1 + 1 = Window
    BY <1>2, <2>2
  <2> HIDE DEF off
  <2>5. \A i \in m1..n : t[i] \in Results
    BY <2>3
  <2> HIDE DEF m1
  <2>6. /\ SubSeq(t, m1, n) \in Seq(Results)
        /\ Len(SubSeq(t, m1, n)) = Window
        /\ \A i \in 1..Window : SubSeq(t, m1, n)[i] = t[m1 + i - 1]
    BY <2>2, <2>4, <2>5, SubSeqProperties
  <2>7. /\ w \in Seq(Results) /\ Len(w) = Window
        /\ \A i \in 1..Window : w[i] = t[m1 + i - 1]
    BY <2>1, <2>6 DEF m1
  <2>8. w[Len(w)] = t[n]
    <3>1. Window \in 1..Window /\ m1 + Window - 1 = n
      BY <2>2, <2>4
    <3> QED BY <2>7, <3>1
  <2>9. DOMAIN w = 1..Window
    BY <2>7, LenProperties
  <2> DEFINE f == [i \in Meetings(w, a, b) |-> m1 + i - 1]
  <2>10. f \in Injection(Meetings(w, a, b), Meetings(t, a, b))
    <3>1. ASSUME NEW i \in Meetings(w, a, b) PROVE m1 + i - 1 \in Meetings(t, a, b)
      <4>1. i \in 1..Window /\ Limits!Opponents(w[i], a, b)
        BY <2>9 DEF Meetings
      <4>2. m1 + i - 1 \in 1..n
        <5>1. m1 >= 1
          BY <2>2 DEF m1
        <5> QED BY <1>1, <2>2, <2>4, <4>1, <5>1
      <4> QED BY <1>1, <2>7, <4>1, <4>2 DEF Meetings
    <3>2. \A i, j \in Meetings(w, a, b) : m1 + i - 1 = m1 + j - 1 => i = j
      <4>1. \A i \in Meetings(w, a, b) : i \in Int
        BY <2>2, <2>9 DEF Meetings
      <4> QED BY <2>4, <4>1
    <3> QED BY <3>1, <3>2 DEF Injection, IsInjective
  <2>11. Cardinality(Meetings(w, a, b)) <= Cardinality(Meetings(t, a, b))
    BY <2>10, MeetingsAre, FS_Injection
  <2>12. Limits!coSeat(w, a, b) <= Limits!coSeat(t, a, b)
    BY <2>7, <2>11, MeetingsAre
  <2> QED BY <2>2, <2>7, <2>8, <2>12 DEF w, n
<1>3. CASE ~(n > Window)
  <2>1. w = t
    BY <1>3 DEF Limits!Last
  <2>2. Limits!coSeat(t, a, b) \in Nat
    BY MeetingsAre
  <2> QED BY <1>1, <2>1, <2>2
<1> QED BY <1>2, <1>3

\* What Without leaves out is one element.
LEMMA WithoutIs ==
  ASSUME NEW S, NEW s \in Seq(S), NEW i \in DOMAIN s
  PROVE  /\ Limits!Without(s, i) \in Seq(S)
         /\ \A j \in DOMAIN s : j # i =>
              \E k \in DOMAIN Limits!Without(s, i) : Limits!Without(s, i)[k] = s[j]
<1> DEFINE n == Len(s)
           p == SubSeq(s, 1, i - 1)
           q == SubSeq(s, i + 1, n)
<1>1. n \in Nat /\ DOMAIN s = 1..n /\ i \in 1..n /\ \A j \in 1..n : s[j] \in S
  BY LenProperties, ElementOfSeq
<1>2. i - 1 \in Int /\ i + 1 \in Int /\ (\A j \in 1..(i - 1) : s[j] \in S) /\ (\A j \in (i + 1)..n : s[j] \in S)
  BY <1>1
<1> HIDE DEF n
<1>3. p \in Seq(S) /\ Len(p) = (IF 1 <= i - 1 THEN i - 1 - 1 + 1 ELSE 0) /\ (\A j \in 1..(i - 1 - 1 + 1) : p[j] = s[1 + j - 1])
  BY <1>1, <1>2, SubSeqProperties
<1>4. q \in Seq(S) /\ Len(q) = (IF i + 1 <= n THEN n - (i + 1) + 1 ELSE 0)
      /\ (\A j \in 1..(n - (i + 1) + 1) : q[j] = s[(i + 1) + j - 1])
  BY <1>1, <1>2, SubSeqProperties
<1> HIDE DEF p, q
<1>5. /\ Len(p) = i - 1 /\ (\A j \in 1..(i - 1) : p[j] = s[j])
      /\ Len(q) = n - i /\ (\A j \in 1..(n - i) : q[j] = s[i + j])
  <2>1. i - 1 - 1 + 1 = i - 1 /\ n - (i + 1) + 1 = n - i
    BY <1>1
  <2>2. \A j \in 1..(i - 1) : 1 + j - 1 = j
    OBVIOUS
  <2>3. \A j \in 1..(n - i) : (i + 1) + j - 1 = i + j
    BY <1>1
  <2> QED BY <1>1, <1>3, <1>4, <2>1, <2>2, <2>3
<1>6. Limits!Without(s, i) = p \o q
  BY DEF Limits!Without, p, q, n
<1>7. /\ p \o q \in Seq(S) /\ Len(p \o q) = Len(p) + Len(q)
      /\ \A j \in 1..(Len(p) + Len(q)) : (p \o q)[j] = IF j <= Len(p) THEN p[j] ELSE q[j - Len(p)]
  BY <1>3, <1>4, ConcatProperties
<1>8. DOMAIN (p \o q) = 1..(n - 1)
  BY <1>1, <1>5, <1>7, LenProperties
<1>9. ASSUME NEW j \in 1..n, j # i
      PROVE  \E k \in 1..(n - 1) : (p \o q)[k] = s[j]
  <2>1. CASE j < i
    <3>1. j \in 1..(n - 1) /\ j \in 1..(i - 1) /\ j \in 1..(Len(p) + Len(q)) /\ j <= Len(p)
      BY <1>1, <1>5, <2>1
    <3>2. (p \o q)[j] = s[j]
      BY <1>5, <1>7, <3>1
    <3> QED BY <3>1, <3>2
  <2>2. CASE j > i
    <3>1. /\ j - 1 \in 1..(n - 1) /\ j - i \in 1..(n - i) /\ j - 1 \in 1..(Len(p) + Len(q))
          /\ ~(j - 1 <= Len(p)) /\ (j - 1) - Len(p) = j - i /\ i + (j - i) = j
      BY SMTT(30), <1>1, <1>5, <2>2
    <3>2. (p \o q)[j - 1] = s[j]
      BY ZenonT(60), <1>5, <1>7, <3>1
    <3> QED BY <3>1, <3>2
  <2>3. j < i \/ j > i
    BY <1>1, <1>9
  <2> QED BY <2>1, <2>2, <2>3
<1> QED BY <1>1, <1>6, <1>7, <1>8, <1>9

LEMMA WatchInitial == Limits!WatchInit => WatchInv
<1> SUFFICES ASSUME Limits!WatchInit PROVE WatchInv
  OBVIOUS
<1>1. waiting = <<>> /\ recentStaked = <<>> /\ filing = <<>> /\ lost = 0
  BY DEF Limits!WatchInit
<1>2. WatchTypes
  BY <1>1, EmptySeq DEF WatchTypes
<1>3. ASSUME NEW a, NEW b PROVE ~(Limits!coSeat(recentStaked, a, b) >= PairThreshold)
  <2>1. Meetings(recentStaked, a, b) = {}
    BY <1>1 DEF Meetings
  <2>2. Limits!coSeat(recentStaked, a, b) = 0
    BY <1>2, <2>1, MeetingsAre, FS_EmptySet DEF WatchTypes
  <2> QED BY <2>2, LimitsAssumption
<1> QED BY <1>2, <1>3 DEF WatchInv, Limits!PairsAreFlagged

\* The flags of a window are flags, and opponents in its last match who meet the
\* threshold are among them.
LEMMA FlagsAre ==
  ASSUME NEW w \in Seq(Results), Len(w) > 0
  PROVE  /\ Limits!collusionFlags(w) \in SUBSET AllFlags
         /\ \A a, b : Limits!Opponents(w[Len(w)], a, b) /\ Limits!coSeat(w, a, b) = PairThreshold
              => Limits!Flag(a, b, "collusion_pairing", 2) \in Limits!collusionFlags(w)
<1> DEFINE last == w[Len(w)]
           opposed == {p \in (DOMAIN last) \X (DOMAIN last) : Limits!Opponents(last, p[1], p[2])}
           P == {q \in opposed : Limits!pairing(w, q[1], q[2])}
           D == {q \in opposed : Limits!chipDump(w, q[1], q[2])}
           F1 == {Limits!Flag(p[1], p[2], "collusion_pairing", 2) : p \in P}
           F2 == {Limits!Flag(p[1], p[2], "chip_dump", 3) : p \in D}
           F3 == {Limits!Flag(p[2], p[1], "chip_dump", 2) : p \in D}
<1>1. Limits!collusionFlags(w) = F1 \cup F2 \cup F3
  BY DEF Limits!collusionFlags
<1>2. last \in Results
  <2>1. Len(w) \in 1..Len(w)
    BY LenProperties
  <2> QED BY <2>1, ElementOfSeq
<1> HIDE DEF last
<1>3. DOMAIN last \subseteq Limits!Players
  BY <1>2 DEF Limits!Players
<1>4. \A p \in opposed : p[1] \in Limits!Players /\ p[2] \in Limits!Players
  BY <1>3
<1>5. \A x, y \in Limits!Players : \A t \in {"collusion_pairing", "chip_dump"}, n \in {2, 3} :
        Limits!Flag(x, y, t, n) \in AllFlags
  BY DEF Limits!Flag, AllFlags
<1>6. P \subseteq opposed /\ D \subseteq opposed
  OBVIOUS
<1>7. F1 \cup F2 \cup F3 \in SUBSET AllFlags
  <2> HIDE DEF P, D, opposed
  <2> QED BY <1>4, <1>5, <1>6
<1>8. ASSUME NEW a, NEW b, Limits!Opponents(last, a, b), Limits!coSeat(w, a, b) = PairThreshold
      PROVE  Limits!Flag(a, b, "collusion_pairing", 2) \in F1
  <2>1. a \in DOMAIN last /\ b \in DOMAIN last
    BY <1>8 DEF Limits!Opponents
  <2>2. <<a, b>> \in P
    BY <1>8, <2>1 DEF Limits!pairing
  <2> HIDE DEF P
  <2> QED BY <2>2
<1> QED BY <1>1, <1>7, <1>8 DEF last

\* Who was flagged stays so: the filed and the filing only grow, unless one fails.
LEMMA FlagsStay ==
  ASSUME WatchTypes, lost' = lost, UNCHANGED recentStaked, WatchTypes',
         Limits!Filed \subseteq Limits!Filed', Limits!PairsAreFlagged
  PROVE  Limits!PairsAreFlagged'
BY DEF Limits!PairsAreFlagged

LEMMA WatchStep == WatchInv /\ Limits!WatchNext => WatchInv'
<1> SUFFICES ASSUME WatchInv, Limits!WatchNext PROVE WatchInv'
  OBVIOUS
<1>1. WatchTypes /\ Limits!PairsAreFlagged
  BY DEF WatchInv
<1>2. ASSUME NEW m \in Results, Limits!recordAntiCheat(m) PROVE WatchInv'
  <2>1. waiting' = Append(waiting, m) /\ UNCHANGED <<recentStaked, filing, flags, lost>>
    BY <1>2 DEF Limits!recordAntiCheat
  <2>2. WatchTypes'
    BY <1>1, <2>1, AppendProperties DEF WatchTypes
  <2>3. Limits!Filed' = Limits!Filed
    BY <2>1 DEF Limits!Filed
  <2> QED BY <1>1, <2>1, <2>2, <2>3, FlagsStay DEF WatchInv
<1>3. ASSUME NEW i \in DOMAIN waiting, Limits!analyzeCollusion(i) PROVE WatchInv'
  <2> DEFINE m == waiting[i]
             t == Append(recentStaked, m)
             w == Limits!Last(t, Window)
             new == Limits!collusionFlags(w)
  <2>1. /\ recentStaked' = w /\ waiting' = Limits!Without(waiting, i)
        /\ filing' = IF new = {} THEN filing ELSE Append(filing, new)
        /\ UNCHANGED <<flags, lost>>
    BY <1>3 DEF Limits!analyzeCollusion
  <2>2. m \in Results
    BY <1>1, LenProperties, ElementOfSeq DEF WatchTypes
  <2>3. /\ t \in Seq(Results) /\ Len(t) = Len(recentStaked) + 1 /\ t[Len(t)] = m
        /\ \A a, b : /\ Limits!coSeat(t, a, b) <= Limits!coSeat(recentStaked, a, b) + 1
                     /\ ~Limits!Opponents(m, a, b) => Limits!coSeat(t, a, b) <= Limits!coSeat(recentStaked, a, b)
    BY <1>1, <2>2, MeetingsGrow DEF WatchTypes
  <2> HIDE DEF m, t
  <2>4. Len(t) > 0
    BY <1>1, <2>3, LenProperties DEF WatchTypes
  <2>5. /\ w \in Seq(Results) /\ Len(w) > 0 /\ w[Len(w)] = m
        /\ \A a, b : Limits!coSeat(w, a, b) <= Limits!coSeat(t, a, b)
    BY <2>3, <2>4, MeetingsSlide
  <2> HIDE DEF w
  <2>6. /\ new \in SUBSET AllFlags
        /\ \A a, b : Limits!Opponents(m, a, b) /\ Limits!coSeat(w, a, b) = PairThreshold
              => Limits!Flag(a, b, "collusion_pairing", 2) \in new
    BY <2>5, FlagsAre
  <2> HIDE DEF new
  <2>7. /\ filing' \in Seq(SUBSET AllFlags)
        /\ Limits!Filed \subseteq Limits!Filed' /\ new \subseteq Limits!Filed'
    <3>1. filing \in Seq(SUBSET AllFlags) /\ DOMAIN filing = 1..Len(filing) /\ Len(filing) \in Nat
      BY <1>1, LenProperties DEF WatchTypes
    <3>2. CASE new = {}
      BY <2>1, <3>1, <3>2 DEF Limits!Filed
    <3>3. CASE new # {}
      <4>1. filing' = Append(filing, new)
        BY <2>1, <3>3
      <4>2. /\ filing' \in Seq(SUBSET AllFlags) /\ Len(filing') = Len(filing) + 1
            /\ \A j \in 1..Len(filing) : filing'[j] = filing[j]
            /\ filing'[Len(filing) + 1] = new
        BY <2>6, <3>1, <4>1, AppendProperties
      <4>3. DOMAIN filing' = 1..(Len(filing) + 1)
        BY <4>2, LenProperties
      <4>4. \A j \in DOMAIN filing : j \in DOMAIN filing' /\ filing'[j] = filing[j]
        BY <3>1, <4>2, <4>3
      <4>5. Len(filing) + 1 \in DOMAIN filing'
        BY <3>1, <4>3
      <4> QED BY <2>1, <4>2, <4>4, <4>5 DEF Limits!Filed
    <3> QED BY <3>2, <3>3
  <2>8. WatchTypes'
    BY <1>1, <2>1, <2>5, <2>7, WithoutIs DEF WatchTypes
  <2>9. ASSUME NEW a \in Limits!Players, NEW b \in Limits!Players, lost' = 0,
               Limits!coSeat(w, a, b) >= PairThreshold
        PROVE  Limits!Flag(a, b, "collusion_pairing", 2) \in Limits!Filed'
    <3> DEFINE f == Limits!Flag(a, b, "collusion_pairing", 2)
               new_ == Limits!coSeat(w, a, b)
               mid == Limits!coSeat(t, a, b)
               old == Limits!coSeat(recentStaked, a, b)
    <3>1. new_ \in Nat /\ mid \in Nat /\ old \in Nat
      BY <1>1, <2>3, <2>5, MeetingsAre DEF WatchTypes
    <3>2. new_ <= mid /\ mid <= old + 1 /\ (~Limits!Opponents(m, a, b) => mid <= old)
      BY <2>3, <2>5
    <3>3. old >= PairThreshold => f \in Limits!Filed
      BY <1>1, <2>1, <2>9 DEF Limits!PairsAreFlagged
    <3>4. new_ >= PairThreshold
      BY <2>9
    <3>5. Limits!Opponents(m, a, b) /\ new_ = PairThreshold => f \in new
      BY <2>6
    <3> HIDE DEF f, new_, mid, old
    <3>6. old >= PairThreshold \/ (Limits!Opponents(m, a, b) /\ new_ = PairThreshold)
      BY <3>1, <3>2, <3>4, LimitsAssumption
    <3>7. f \in Limits!Filed'
      BY <2>7, <3>3, <3>5, <3>6
    <3> QED BY <3>7 DEF f
  <2>10. Limits!PairsAreFlagged'
    BY <2>1, <2>9 DEF Limits!PairsAreFlagged
  <2> QED BY <2>8, <2>10 DEF WatchInv
<1>4. ASSUME NEW i \in DOMAIN filing, Limits!add(i) PROVE WatchInv'
  <2> DEFINE f == CHOOSE x \in filing[i] : TRUE
  <2>1. /\ flags' = flags \cup {f}
        /\ filing' = IF filing[i] = {f} THEN Limits!Without(filing, i) ELSE [filing EXCEPT ![i] = @ \ {f}]
        /\ UNCHANGED <<waiting, recentStaked, lost>>
    BY <1>4 DEF Limits!add
  <2> HIDE DEF f
  <2>2. filing \in Seq(SUBSET AllFlags)
    BY <1>1 DEF WatchTypes
  <2>3. filing' \in Seq(SUBSET AllFlags) /\ Limits!Filed \subseteq Limits!Filed'
    <3>1. CASE filing[i] = {f}
      <4>1. /\ filing' \in Seq(SUBSET AllFlags)
            /\ \A j \in DOMAIN filing : j # i => \E k \in DOMAIN filing' : filing'[k] = filing[j]
        BY <2>1, <2>2, <3>1, WithoutIs
      <4>2. Limits!Filed \subseteq Limits!Filed'
        BY <2>1, <3>1, <4>1 DEF Limits!Filed
      <4> QED BY <4>1, <4>2
    <3>2. CASE filing[i] # {f}
      <4>1. filing' = [filing EXCEPT ![i] = @ \ {f}]
        BY <2>1, <3>2
      <4>2. filing[i] \ {f} \in SUBSET AllFlags
        BY <2>2, ElementOfSeq, LenProperties
      <4>3. filing' \in Seq(SUBSET AllFlags)
        BY <2>2, <4>1, <4>2
      <4>4. DOMAIN filing' = DOMAIN filing /\ \A j \in DOMAIN filing : filing[j] \subseteq filing'[j] \cup {f}
        BY <4>1
      <4>5. Limits!Filed \subseteq Limits!Filed'
        BY <2>1, <4>4 DEF Limits!Filed
      <4> QED BY <4>3, <4>5
    <3> QED BY <3>1, <3>2
  <2>4. WatchTypes'
    BY <1>1, <2>1, <2>3 DEF WatchTypes
  <2> QED BY <1>1, <2>1, <2>3, <2>4, FlagsStay DEF WatchInv
<1>5. CASE Limits!analyzeMatchFails
  <2>1. /\ lost' = lost + 1 /\ UNCHANGED recentStaked
        /\ \/ \E i \in DOMAIN waiting : waiting' = Limits!Without(waiting, i) /\ UNCHANGED filing
           \/ \E i \in DOMAIN filing : filing' = Limits!Without(filing, i) /\ UNCHANGED waiting
    BY <1>5 DEF Limits!analyzeMatchFails
  <2>2. waiting' \in Seq(Results) /\ filing' \in Seq(SUBSET AllFlags)
    BY <1>1, <2>1, WithoutIs DEF WatchTypes
  <2>3. lost' \in Nat /\ lost' # 0
    BY <1>1, <2>1 DEF WatchTypes
  <2>4. WatchTypes' /\ Limits!PairsAreFlagged'
    BY <1>1, <2>1, <2>2, <2>3 DEF WatchTypes, Limits!PairsAreFlagged
  <2> QED BY <2>4 DEF WatchInv
<1> QED BY <1>2, <1>3, <1>4, <1>5 DEF Limits!WatchNext

-----------------------------------------------------------------------------
(* Support: a prompt that waits was not answered yet, and a page that is   *)
(* shown is one of a signed-in player.                                     *)

Said == Texts \cup {Desk!Generic, Desk!None}
TicketRows == [status : {Desk!None, "open", "resolved"}, note : Said]
Prompts == [ticket : Tickets \cup {Desk!None}, old : BOOLEAN]
PageStates == [open : BOOLEAN, listStatus : {"loading", "ready", "error"}, tickets : SUBSET Tickets]
LoadStates == [pc : {"idle", "creates", "left", "sent", "read"}, rows : SUBSET Tickets, submits : BOOLEAN]

BotSideTypes ==
    /\ ticket \in [Tickets -> TicketRows] /\ pendingReply \in Prompts
    /\ prompts \in [Tickets -> Nat] /\ answers \in [Tickets -> Nat]
    /\ notes \in [Tickets -> SUBSET Said] /\ unaudited \in SUBSET Tickets
    /\ job = [d \in Calls |-> job[d]]
    /\ \A d \in Calls :
         /\ job[d].pc = "asks" => job[d].t \in Tickets
         /\ job[d].pc \in {"resolves", "tells"} => job[d].t \in Tickets /\ job[d].note \in Said

PageSideTypes ==
    /\ page \in PageStates /\ load \in [Loads -> LoadStates]
    /\ signedIn \in BOOLEAN /\ answered \in BOOLEAN

\* Why a page that is open never has its list ready without asking for it.
PageIsSignedIn ==
    /\ page.open => signedIn
    /\ \A l \in Loads : load[l].pc = "creates" => page.open

BotSideInv == BotSideTypes /\ Desk!OnePromptOneAnswer /\ Desk!AnswersAreTold
PageSideInv == PageSideTypes /\ PageIsSignedIn /\ Desk!NoFalseEmptiness
DeskInv == BotSideInv /\ PageSideInv

LEMMA DeskInit == Desk!Init => DeskInv
<1> SUFFICES ASSUME Desk!Init PROVE DeskInv
  OBVIOUS
<1>1. /\ ticket = [t \in Tickets |-> [status |-> Desk!None, note |-> Desk!None]]
      /\ pendingReply = [ticket |-> Desk!None, old |-> FALSE]
      /\ job = [d \in Calls |-> [pc |-> "idle"]]
      /\ prompts = [t \in Tickets |-> 0] /\ answers = [t \in Tickets |-> 0]
      /\ notes = [t \in Tickets |-> {}] /\ unaudited = {}
      /\ signedIn = TRUE /\ answered = FALSE
      /\ page = [open |-> FALSE, listStatus |-> "loading", tickets |-> {}]
      /\ load = [l \in Loads |-> [pc |-> "idle", rows |-> {}, submits |-> FALSE]]
  BY DEF Desk!Init, Desk!NoReply, Desk!Idle, Desk!NoLoad, Desk!Closed, Desk!NewPage
<1>2. BotSideTypes
  <2>1. ticket \in [Tickets -> TicketRows] /\ pendingReply \in Prompts /\ notes \in [Tickets -> SUBSET Said]
    BY <1>1 DEF Said, TicketRows, Prompts
  <2>2. prompts \in [Tickets -> Nat] /\ answers \in [Tickets -> Nat] /\ unaudited \in SUBSET Tickets
    BY <1>1
  <2>3. job = [d \in Calls |-> job[d]] /\ \A d \in Calls : job[d].pc = "idle"
    BY <1>1
  <2> QED BY <2>1, <2>2, <2>3 DEF BotSideTypes
<1>3. Desk!OnePromptOneAnswer /\ Desk!AnswersAreTold
  BY <1>1, DeskAssumption DEF Desk!OnePromptOneAnswer, Desk!AnswersAreTold
<1>4. PageSideInv
  BY <1>1 DEF PageSideInv, PageSideTypes, PageIsSignedIn, PageStates, LoadStates, Desk!NoFalseEmptiness
<1> QED BY <1>2, <1>3, <1>4 DEF DeskInv, BotSideInv

\* A step of the bot or of the panel leaves the page alone, and conversely.
LEMMA PageSideKept ==
  ASSUME PageSideInv, UNCHANGED <<signedIn, page, load, answered>>
  PROVE  PageSideInv'
BY DEF PageSideInv, PageSideTypes, PageIsSignedIn, Desk!NoFalseEmptiness

\* What a desk is at next, and the others that wait.
LEMMA DeskSteps ==
  ASSUME BotSideTypes, NEW d \in Calls, NEW q, Desk!Become(d, q)
  PROVE  /\ job' = [c \in Calls |-> job'[c]] /\ job'[d] = q
         /\ \A c \in Calls : c # d => job'[c] = job[c]
BY DEF BotSideTypes, Desk!Become

\* Where no prompt is new and no answer is taken, the prompts still fit.
LEMMA PromptsStillFit ==
  ASSUME BotSideTypes, Desk!OnePromptOneAnswer, prompts' = prompts, answers' = answers,
         pendingReply'.ticket \in {pendingReply.ticket, Desk!None}
  PROVE  Desk!OnePromptOneAnswer'
<1> SUFFICES ASSUME NEW t \in Tickets
             PROVE  answers[t] + (IF pendingReply'.ticket = t THEN 1 ELSE 0) <= prompts[t]
  BY DEF Desk!OnePromptOneAnswer
<1>1. /\ answers[t] + (IF pendingReply.ticket = t THEN 1 ELSE 0) <= prompts[t]
      /\ answers[t] \in Nat /\ prompts[t] \in Nat
  BY DEF Desk!OnePromptOneAnswer, BotSideTypes
<1>2. pendingReply'.ticket = t => pendingReply.ticket = t
  BY DeskAssumption
<1> QED BY <1>1, <1>2

\* A desk that starts on an update, or is done with it, without a note on its way.
LEMMA NothingTold ==
  ASSUME BotSideInv, NEW d \in Calls, job[d].pc # "tells", NEW q, Desk!Become(d, q),
         q.pc = "asks" => q.t \in Tickets,
         q.pc \in {"resolves", "tells"} => q.t \in Tickets /\ q.note \in Said,
         pendingReply' \in Prompts, prompts' \in [Tickets -> Nat], answers' \in [Tickets -> Nat],
         UNCHANGED <<ticket, notes, unaudited>>
  PROVE  BotSideTypes' /\ Desk!AnswersAreTold'
<1>1. BotSideTypes /\ Desk!AnswersAreTold
  BY DEF BotSideInv
<1>2. /\ job' = [c \in Calls |-> job'[c]] /\ job'[d] = q
      /\ \A c \in Calls : c # d => job'[c] = job[c]
  BY <1>1, DeskSteps
<1>3. BotSideTypes'
  BY <1>1, <1>2 DEF BotSideTypes
<1>4. Desk!AnswersAreTold'
  BY <1>1, <1>2 DEF Desk!AnswersAreTold
<1> QED BY <1>3, <1>4

\* The steps of the bot and of the panel.
LEMMA BotKeepsDesk ==
  ASSUME BotSideInv, NEW d \in Calls,
         \/ \E t \in Tickets : Desk!tapsReply(d, t) \/ Desk!tapsResolve(d, t)
         \/ \E text \in Texts : Desk!plainMessage(d, text)
         \/ \E t \in Tickets, n \in Texts \cup {Desk!None} : Desk!panelResolves(d, t, n)
         \/ Desk!stagesReply(d) \/ Desk!resolve(d) \/ Desk!auditFails(d) \/ Desk!messagePlayer(d)
  PROVE  BotSideInv'
<1>1. BotSideTypes /\ Desk!OnePromptOneAnswer /\ Desk!AnswersAreTold
  BY DEF BotSideInv
<1> DEFINE asks(t) == [pc |-> "asks", t |-> t]
           resolves(t, n) == [pc |-> "resolves", t |-> t, note |-> n]
           tells(t, n) == [pc |-> "tells", t |-> t, note |-> n]
           idle == [pc |-> "idle"]
<1>0. /\ pendingReply \in Prompts /\ prompts \in [Tickets -> Nat] /\ answers \in [Tickets -> Nat]
      /\ notes \in [Tickets -> SUBSET Said] /\ ticket \in [Tickets -> TicketRows]
      /\ unaudited \in SUBSET Tickets
  BY <1>1 DEF BotSideTypes
<1>2. ASSUME NEW t \in Tickets, NEW n \in Said, job[d] = idle,
             Desk!Become(d, resolves(t, n)) \/ Desk!Become(d, asks(t)),
             UNCHANGED <<ticket, pendingReply, answers, prompts, notes, unaudited>>
      PROVE  BotSideInv'
  <2>1. BotSideTypes' /\ Desk!AnswersAreTold'
    <3>1. CASE Desk!Become(d, resolves(t, n))
      BY <1>0, <1>2, <3>1, NothingTold
    <3>2. CASE Desk!Become(d, asks(t))
      BY <1>0, <1>2, <3>2, NothingTold
    <3> QED BY <1>2, <3>1, <3>2
  <2>2. Desk!OnePromptOneAnswer'
    BY <1>1, <1>2, PromptsStillFit
  <2> QED BY <2>1, <2>2 DEF BotSideInv
<1>a. Desk!Generic \in Said /\ Desk!None \in Said /\ Texts \subseteq Said
  BY DEF Said
<1>3. ASSUME NEW t \in Tickets, Desk!tapsReply(d, t) PROVE BotSideInv'
  BY <1>2, <1>3, <1>a DEF Desk!tapsReply, Desk!Idle
<1>4. ASSUME NEW t \in Tickets, Desk!tapsResolve(d, t) PROVE BotSideInv'
  BY <1>2, <1>4, <1>a DEF Desk!tapsResolve, Desk!Idle, Desk!Resolving
<1>5. ASSUME NEW t \in Tickets, NEW n \in Texts \cup {Desk!None}, Desk!panelResolves(d, t, n) PROVE BotSideInv'
  <2>1. n \in Said
    BY <1>a
  <2> QED BY <1>2, <1>5, <2>1 DEF Desk!panelResolves, Desk!Idle, Desk!Resolving
<1>6. ASSUME NEW text \in Texts, Desk!plainMessage(d, text) PROVE BotSideInv'
  <2> DEFINE asked == pendingReply.ticket
  <2>1. /\ job[d] = idle /\ pendingReply' = [ticket |-> Desk!None, old |-> FALSE]
        /\ UNCHANGED <<ticket, prompts, notes, unaudited>>
        /\ \/ /\ asked # Desk!None /\ answers' = [answers EXCEPT ![asked] = @ + 1]
              /\ Desk!Become(d, resolves(asked, text))
           \/ UNCHANGED <<answers, job>>
    BY <1>6 DEF Desk!plainMessage, Desk!takesReply, Desk!NoReply, Desk!Idle, Desk!Resolving
  <2>2. asked \in Tickets \cup {Desk!None} /\ text \in Said
    BY <1>0, <1>a DEF Prompts
  <2>3. pendingReply' \in Prompts /\ pendingReply'.ticket = Desk!None
    BY <2>1 DEF Prompts
  <2>4. CASE UNCHANGED <<answers, job>>
    <3>1. BotSideTypes'
      BY <1>1, <2>1, <2>3, <2>4 DEF BotSideTypes
    <3>2. Desk!OnePromptOneAnswer'
      BY <1>1, <2>1, <2>3, <2>4, PromptsStillFit
    <3> QED BY <1>1, <2>1, <2>4, <3>1, <3>2 DEF BotSideInv, Desk!AnswersAreTold
  <2>5. CASE /\ asked # Desk!None /\ answers' = [answers EXCEPT ![asked] = @ + 1]
             /\ Desk!Become(d, resolves(asked, text))
    <3>1. answers' \in [Tickets -> Nat] /\ asked \in Tickets
      BY <1>0, <2>2, <2>5
    <3>2. BotSideTypes' /\ Desk!AnswersAreTold'
      <4> DEFINE q == resolves(asked, text)
      <4>1. q.pc = "resolves" /\ q.t \in Tickets /\ q.note \in Said /\ Desk!Become(d, q)
        BY <2>2, <2>5, <3>1
      <4>2. prompts' \in [Tickets -> Nat] /\ job[d].pc # "tells"
        BY <1>0, <2>1
      <4> HIDE DEF q
      <4> QED BY <2>1, <2>3, <3>1, <4>1, <4>2, NothingTold
    <3>3. ASSUME NEW s \in Tickets
          PROVE  answers'[s] + (IF pendingReply'.ticket = s THEN 1 ELSE 0) <= prompts'[s]
      <4>1. /\ answers[s] + (IF asked = s THEN 1 ELSE 0) <= prompts[s]
            /\ answers[s] \in Nat /\ prompts[s] \in Nat
        BY <1>0, <1>1 DEF Desk!OnePromptOneAnswer
      <4>2. answers'[s] = answers[s] + (IF asked = s THEN 1 ELSE 0)
        BY <1>0, <2>5
      <4>3. pendingReply'.ticket # s
        BY <2>3, DeskAssumption
      <4> QED BY <2>1, <4>1, <4>2, <4>3
    <3> QED BY <3>2, <3>3 DEF BotSideInv, Desk!OnePromptOneAnswer
  <2> QED BY <2>1, <2>4, <2>5
<1>7. ASSUME Desk!stagesReply(d) PROVE BotSideInv'
  <2> DEFINE t == job[d].t
  <2>1. /\ job[d].pc = "asks" /\ Desk!Become(d, idle)
        /\ UNCHANGED <<ticket, answers, notes, unaudited>>
        /\ \/ /\ pendingReply' = [ticket |-> t, old |-> FALSE]
              /\ prompts' = [prompts EXCEPT ![t] = @ + 1]
           \/ UNCHANGED <<pendingReply, prompts>>
    BY <1>7 DEF Desk!stagesReply, Desk!Idle
  <2>2. t \in Tickets
    BY <1>1, <2>1 DEF BotSideTypes
  <2> HIDE DEF t
  <2>3. CASE UNCHANGED <<pendingReply, prompts>>
    BY <1>0, <1>1, <2>1, <2>3, NothingTold, PromptsStillFit DEF BotSideInv
  <2>4. CASE pendingReply' = [ticket |-> t, old |-> FALSE] /\ prompts' = [prompts EXCEPT ![t] = @ + 1]
    <3>1. pendingReply' \in Prompts /\ prompts' \in [Tickets -> Nat]
      BY <1>0, <2>2, <2>4 DEF Prompts
    <3>2. BotSideTypes' /\ Desk!AnswersAreTold'
      BY <1>0, <2>1, <3>1, NothingTold
    <3>3. ASSUME NEW s \in Tickets
          PROVE  answers'[s] + (IF pendingReply'.ticket = s THEN 1 ELSE 0) <= prompts'[s]
      <4>1. /\ answers[s] + (IF pendingReply.ticket = s THEN 1 ELSE 0) <= prompts[s]
            /\ answers[s] \in Nat /\ prompts[s] \in Nat
        BY <1>0, <1>1 DEF Desk!OnePromptOneAnswer
      <4>2. prompts'[s] = prompts[s] + (IF s = t THEN 1 ELSE 0)
        BY <1>0, <2>4
      <4>3. pendingReply'.ticket = t
        BY <2>4
      <4> QED BY <2>1, <4>1, <4>2, <4>3
    <3> QED BY <3>2, <3>3 DEF BotSideInv, Desk!OnePromptOneAnswer
  <2> QED BY <2>1, <2>3, <2>4
<1>8. ASSUME Desk!resolve(d) PROVE BotSideInv'
  <2> DEFINE t == job[d].t
             n == job[d].note
  <2>1. /\ job[d].pc = "resolves"
        /\ UNCHANGED <<pendingReply, prompts, answers, notes, unaudited>>
        /\ \/ /\ ticket' = [ticket EXCEPT ![t] = [status |-> "resolved", note |-> n]]
              /\ n = Desk!None /\ Desk!Become(d, idle)
           \/ /\ ticket' = [ticket EXCEPT ![t] = [status |-> "resolved", note |-> n]]
              /\ Desk!Become(d, tells(t, n))
           \/ ticket' = ticket /\ Desk!Become(d, idle)
    BY <1>8 DEF Desk!resolve, Desk!Idle
  <2>2. t \in Tickets /\ n \in Said
    BY <1>1, <2>1 DEF BotSideTypes
  <2> HIDE DEF t, n
  <2>3. PICK q \in {idle, tells(t, n)} : Desk!Become(d, q)
    BY <2>1
  <2>4. /\ job' = [c \in Calls |-> job'[c]] /\ job'[d] = q
        /\ \A c \in Calls : c # d => job'[c] = job[c]
    BY <1>1, <2>3, DeskSteps
  <2>5. ticket' \in [Tickets -> TicketRows]
    <3> DEFINE r == [status |-> "resolved", note |-> n]
    <3>1. r \in TicketRows
      BY <2>2 DEF TicketRows
    <3> HIDE DEF r
    <3>2. ticket' \in {ticket, [ticket EXCEPT ![t] = r]}
      BY <2>1 DEF r
    <3> QED BY <1>0, <3>1, <3>2
  <2>6. BotSideTypes'
    BY <1>1, <2>1, <2>2, <2>3, <2>4, <2>5 DEF BotSideTypes
  <2>7. Desk!OnePromptOneAnswer'
    BY <1>1, <2>1, PromptsStillFit
  <2>8. Desk!AnswersAreTold'
    <3>1. ASSUME NEW s \in Tickets, ticket'[s].note = ticket[s].note PROVE
            ticket'[s].note # Desk!None =>
              \/ ticket'[s].note \in notes'[s]
              \/ \E c \in Calls : job'[c].pc = "tells" /\ job'[c].t = s /\ job'[c].note = ticket'[s].note
              \/ ticket'[s].note = Desk!Generic /\ s \in unaudited'
      BY <1>1, <2>1, <2>4, <3>1 DEF Desk!AnswersAreTold
    <3>2. ASSUME NEW s \in Tickets, s # t PROVE ticket'[s] = ticket[s]
      BY <1>0, <2>1, <3>2
    <3>3. CASE ticket' = [ticket EXCEPT ![t] = [status |-> "resolved", note |-> n]]
      <4>1. ticket'[t].note = n
        BY <1>0, <2>2, <3>3
      <4>2. CASE n = Desk!None
        BY <3>1, <3>2, <4>1, <4>2 DEF Desk!AnswersAreTold
      <4>3. CASE n # Desk!None /\ Desk!Become(d, tells(t, n))
        <5>1. job'[d] = tells(t, n)
          BY <1>1, <4>3, DeskSteps
        <5> QED BY <3>1, <3>2, <4>1, <5>1 DEF Desk!AnswersAreTold
      <4>4. CASE ticket' = ticket
        BY <3>1, <4>4 DEF Desk!AnswersAreTold
      <4> QED BY <2>1, <4>2, <4>3, <4>4
    <3>4. CASE ticket' = ticket
      BY <3>1, <3>4 DEF Desk!AnswersAreTold
    <3> QED BY <2>1, <3>3, <3>4
  <2> QED BY <2>6, <2>7, <2>8 DEF BotSideInv
<1>9. ASSUME Desk!auditFails(d) \/ Desk!messagePlayer(d) PROVE BotSideInv'
  <2> DEFINE t == job[d].t
             n == job[d].note
  <2>1. /\ job[d].pc = "tells" /\ Desk!Become(d, idle)
        /\ UNCHANGED <<ticket, pendingReply, prompts, answers>>
        /\ \/ /\ n = Desk!Generic /\ unaudited' = unaudited \cup {t} /\ notes' = notes
           \/ notes' = [notes EXCEPT ![t] = @ \cup {n}] /\ unaudited' = unaudited
    BY <1>9 DEF Desk!auditFails, Desk!messagePlayer, Desk!tells, Desk!Idle
  <2>2. /\ job' = [c \in Calls |-> job'[c]] /\ job'[d] = idle
        /\ \A c \in Calls : c # d => job'[c] = job[c]
    BY <1>1, <2>1, DeskSteps
  <2>3. t \in Tickets /\ n \in Said
    BY <1>1, <2>1 DEF BotSideTypes
  <2> HIDE DEF t, n
  <2>4. /\ notes' \in [Tickets -> SUBSET Said] /\ unaudited' \in SUBSET Tickets
        /\ unaudited \subseteq unaudited' /\ \A s \in Tickets : notes[s] \subseteq notes'[s]
        /\ (n \in notes'[t]) \/ (n = Desk!Generic /\ t \in unaudited')
    <3>1. CASE n = Desk!Generic /\ unaudited' = unaudited \cup {t} /\ notes' = notes
      BY <1>0, <2>3, <3>1
    <3>2. CASE notes' = [notes EXCEPT ![t] = @ \cup {n}] /\ unaudited' = unaudited
      <4>1. notes' \in [Tickets -> SUBSET Said] /\ n \in notes'[t]
        BY <1>0, <2>3, <3>2
      <4>2. \A s \in Tickets : notes[s] \subseteq notes'[s]
        BY <1>0, <3>2
      <4> QED BY <1>0, <3>2, <4>1, <4>2
    <3> QED BY <2>1, <3>1, <3>2
  <2>5. BotSideTypes'
    BY <1>1, <2>1, <2>2, <2>4 DEF BotSideTypes
  <2>6. Desk!OnePromptOneAnswer'
    BY <1>1, <2>1, PromptsStillFit
  <2>7. Desk!AnswersAreTold'
    <3> SUFFICES ASSUME NEW s \in Tickets, ticket[s].note # Desk!None
                 PROVE  \/ ticket[s].note \in notes'[s]
                        \/ \E c \in Calls : job'[c].pc = "tells" /\ job'[c].t = s /\ job'[c].note = ticket[s].note
                        \/ ticket[s].note = Desk!Generic /\ s \in unaudited'
      BY <2>1 DEF Desk!AnswersAreTold
    <3>1. CASE ticket[s].note \in notes[s] \/ (ticket[s].note = Desk!Generic /\ s \in unaudited)
      BY <2>4, <3>1
    <3>2. ASSUME NEW c \in Calls, job[c].pc = "tells", job[c].t = s, job[c].note = ticket[s].note, c # d
          PROVE  job'[c].pc = "tells" /\ job'[c].t = s /\ job'[c].note = ticket[s].note
      BY <2>2, <3>2
    <3>3. CASE t = s /\ n = ticket[s].note
      BY <2>4, <3>3
    <3> QED BY <1>1, <3>1, <3>2, <3>3 DEF Desk!AnswersAreTold, t, n
  <2> QED BY <2>5, <2>6, <2>7 DEF BotSideInv
<1> QED BY <1>3, <1>4, <1>5, <1>6, <1>7, <1>8, <1>9

\* A prompt given up or too old, and what the page does, leave the answers as they are.
LEMMA OthersKeepBotSide ==
  ASSUME BotSideInv,
         UNCHANGED <<job, prompts, answers, notes, unaudited>>,
         pendingReply' \in Prompts, pendingReply'.ticket \in {pendingReply.ticket, Desk!None},
         ticket' = ticket \/ \E t \in Tickets : ticket' = [ticket EXCEPT ![t].status = "open"]
  PROVE  BotSideInv'
<1>1. BotSideTypes /\ Desk!OnePromptOneAnswer /\ Desk!AnswersAreTold
  BY DEF BotSideInv
<1>2. ticket' \in [Tickets -> TicketRows] /\ \A t \in Tickets : ticket'[t].note = ticket[t].note
  <2>1. ASSUME NEW t \in Tickets, ticket' = [ticket EXCEPT ![t].status = "open"]
        PROVE  ticket' \in [Tickets -> TicketRows] /\ \A s \in Tickets : ticket'[s].note = ticket[s].note
    <3> DEFINE r == [ticket[t] EXCEPT !.status = "open"]
    <3>1. ticket \in [Tickets -> TicketRows]
      BY <1>1 DEF BotSideTypes
    <3>2. r \in TicketRows /\ r.note = ticket[t].note
      BY <3>1 DEF TicketRows
    <3>3. ticket' = [ticket EXCEPT ![t] = r]
      BY <2>1
    <3> HIDE DEF r
    <3> QED BY <3>1, <3>2, <3>3
  <2>2. CASE ticket' = ticket
    BY <1>1, <2>2 DEF BotSideTypes
  <2> QED BY <2>1, <2>2
<1>3. BotSideTypes'
  BY <1>1, <1>2 DEF BotSideTypes
<1>4. Desk!OnePromptOneAnswer'
  BY <1>1, PromptsStillFit
<1>5. Desk!AnswersAreTold'
  BY <1>1, <1>2 DEF Desk!AnswersAreTold
<1> QED BY <1>3, <1>4, <1>5 DEF BotSideInv

LEMMA PromptsPass ==
  ASSUME DeskInv, Desk!command \/ Desk!windowPasses
  PROVE  DeskInv'
<1>1. BotSideInv /\ PageSideInv /\ pendingReply \in Prompts
  BY DEF DeskInv, BotSideInv, BotSideTypes
<1>2. UNCHANGED <<ticket, job, prompts, answers, notes, unaudited, signedIn, page, load, answered>>
  BY DEF Desk!command, Desk!windowPasses, Desk!playerVars
<1>3. pendingReply' \in Prompts /\ pendingReply'.ticket \in {pendingReply.ticket, Desk!None}
  <2>1. CASE Desk!command
    BY <2>1 DEF Desk!command, Desk!NoReply, Prompts
  <2>2. CASE Desk!windowPasses
    BY <1>1, <2>2 DEF Desk!windowPasses, Prompts
  <2> QED BY <2>1, <2>2
<1> QED BY <1>1, <1>2, <1>3, OthersKeepBotSide, PageSideKept DEF DeskInv

\* The steps of the page.
LEMMA PageKeepsDesk ==
  ASSUME DeskInv,
         \/ Desk!leavesPage \/ Desk!signsInOrOut
         \/ \E l \in Loads : \/ Desk!opensPage(l) \/ Desk!retries(l) \/ Desk!listByUser(l)
                             \/ Desk!loaded(l) \/ Desk!submit(l)
                             \/ \E t \in Tickets : Desk!created(t, l)
  PROVE  DeskInv'
<1>1. BotSideInv /\ PageSideTypes /\ PageIsSignedIn /\ Desk!NoFalseEmptiness
  BY DEF DeskInv, PageSideInv
<1>2. /\ page \in PageStates /\ load \in [Loads -> LoadStates]
      /\ signedIn \in BOOLEAN /\ answered \in BOOLEAN
  BY <1>1 DEF PageSideTypes
<1>3. BotSideInv'
  <2>1. UNCHANGED <<job, pendingReply, prompts, answers, notes, unaudited>>
    BY DEF Desk!leavesPage, Desk!signsInOrOut, Desk!opensPage, Desk!retries, Desk!listByUser,
           Desk!loaded, Desk!submit, Desk!created, Desk!deskOnly
  <2>2. ticket' = ticket \/ \E t \in Tickets : ticket' = [ticket EXCEPT ![t].status = "open"]
    BY DEF Desk!leavesPage, Desk!signsInOrOut, Desk!opensPage, Desk!retries, Desk!listByUser,
           Desk!loaded, Desk!submit, Desk!created
  <2>3. pendingReply' \in Prompts
    BY <1>1, <2>1 DEF BotSideInv, BotSideTypes
  <2> QED BY <1>1, <2>1, <2>2, <2>3, OthersKeepBotSide
<1>4. Desk!NoLoad \in LoadStates /\ Desk!NoLoad.pc = "idle"
  BY DEF Desk!NoLoad, LoadStates
<1>5. ASSUME NEW l \in Loads, NEW q \in LoadStates, load' = [load EXCEPT ![l] = q]
      PROVE  load' \in [Loads -> LoadStates] /\ load'[l] = q /\ \A k \in Loads : k # l => load'[k] = load[k]
  BY <1>2, <1>5
<1> DEFINE Good == page' \in PageStates /\ signedIn' \in BOOLEAN /\ answered' \in BOOLEAN /\ PageIsSignedIn'
                   /\ Desk!NoFalseEmptiness' /\ load' \in [Loads -> LoadStates]
\* A list is asked for, by who is signed in.
<1>6. ASSUME NEW l \in Loads, NEW p \in PageStates, p.open, signedIn, Desk!Loading(l, p), signedIn' = signedIn,
             answered' \in BOOLEAN
      PROVE  Good
  <2> DEFINE q == [load[l] EXCEPT !.pc = "sent"]
  <2>1. q \in LoadStates /\ q.pc = "sent"
    BY <1>2 DEF LoadStates
  <2>2. load' = [load EXCEPT ![l] = q] /\ page' = [p EXCEPT !.listStatus = "loading"]
    BY <1>6 DEF Desk!Loading
  <2> HIDE DEF q
  <2>3. load' \in [Loads -> LoadStates]
    BY <1>5, <2>1, <2>2
  <2>4. page' \in PageStates /\ page'.open /\ page'.listStatus = "loading"
    BY <1>6, <2>2 DEF PageStates
  <2> QED BY <1>2, <1>6, <2>3, <2>4 DEF PageIsSignedIn, Desk!NoFalseEmptiness
\* One load moves, and the page stays as open as it was.
<1>7. ASSUME NEW l \in Loads, NEW q \in LoadStates, load' = [load EXCEPT ![l] = q], q.pc = "creates" => page.open,
             page' \in PageStates, page'.open = page.open, signedIn' = signedIn, answered' \in BOOLEAN,
             page'.listStatus = "ready" => answered' \/ (page.listStatus = "ready" /\ answered' = answered)
      PROVE  Good
  <2>1. load' \in [Loads -> LoadStates] /\ \A k \in Loads : load'[k].pc = "creates" => page.open
    BY <1>1, <1>5, <1>7 DEF PageIsSignedIn
  <2> QED BY <1>1, <1>2, <1>7, <2>1 DEF PageIsSignedIn, Desk!NoFalseEmptiness
<1>8. Good
  <2>1. ASSUME NEW l \in Loads, Desk!opensPage(l) PROVE Good
    <3>1. Desk!NewPage \in PageStates /\ Desk!NewPage.open
      BY DEF Desk!NewPage, PageStates
    <3> QED BY <1>6, <2>1, <3>1 DEF Desk!opensPage
  <2>2. ASSUME NEW l \in Loads, Desk!retries(l) PROVE Good
    BY <1>1, <1>2, <1>6, <2>2 DEF Desk!retries, PageIsSignedIn
  <2>3. CASE Desk!leavesPage
    <3>1. page' = [open |-> FALSE, listStatus |-> "loading", tickets |-> {}] /\ signedIn' \in BOOLEAN /\ answered' = answered
      BY <2>3 DEF Desk!leavesPage, Desk!Closed, Desk!NewPage
    <3>2. page' \in PageStates /\ ~page'.open
      BY <3>1 DEF PageStates
    <3>3. [Desk!NoLoad EXCEPT !.pc = "left"] \in LoadStates /\ [Desk!NoLoad EXCEPT !.pc = "left"].pc = "left"
      BY DEF Desk!NoLoad, LoadStates
    <3>4. load' = [l \in Loads |-> IF load[l].pc \in {"creates", "left"} THEN [Desk!NoLoad EXCEPT !.pc = "left"]
                                   ELSE Desk!NoLoad]
      BY <2>3 DEF Desk!leavesPage
    <3>5. load' \in [Loads -> LoadStates] /\ \A l \in Loads : load'[l].pc # "creates"
      BY <1>4, <3>3, <3>4
    <3> QED BY <1>2, <3>1, <3>2, <3>5 DEF PageIsSignedIn, Desk!NoFalseEmptiness
  <2>4. CASE Desk!signsInOrOut
    BY <1>1, <1>2, <2>4 DEF Desk!signsInOrOut, PageIsSignedIn, Desk!NoFalseEmptiness
  <2>5. ASSUME NEW l \in Loads, Desk!listByUser(l) PROVE Good
    <3> DEFINE q == [load[l] EXCEPT !.pc = "read", !.rows = Desk!Opened]
    <3>1. q \in LoadStates /\ q.pc = "read"
      BY <1>2 DEF LoadStates, Desk!Opened
    <3>2. load' = [load EXCEPT ![l] = q] /\ UNCHANGED <<signedIn, page, answered>>
      BY <1>2, <2>5 DEF Desk!listByUser
    <3> HIDE DEF q
    <3> QED BY <1>2, <1>7, <3>1, <3>2
  <2>6. ASSUME NEW l \in Loads, Desk!loaded(l) PROVE Good
    <3>1. load[l].rows \in SUBSET Tickets
      BY <1>2 DEF LoadStates
    <3>2. /\ load' = [load EXCEPT ![l] = Desk!NoLoad] /\ signedIn' = signedIn
          /\ \/ page' = [page EXCEPT !.listStatus = "ready", !.tickets = load[l].rows] /\ answered' = TRUE
             \/ page' = [page EXCEPT !.listStatus = "error"] /\ answered' = answered
      BY <2>6 DEF Desk!loaded
    <3>3. page' \in PageStates /\ page'.open = page.open /\ answered' \in BOOLEAN
          /\ (page'.listStatus = "ready" => answered')
      BY <1>2, <3>1, <3>2 DEF PageStates
    <3> QED BY <1>4, <1>7, <3>2, <3>3
  <2>7. ASSUME NEW l \in Loads, Desk!submit(l) PROVE Good
    <3> DEFINE q == [Desk!NoLoad EXCEPT !.pc = "creates", !.submits = TRUE]
    <3>1. q \in LoadStates /\ q.pc = "creates"
      BY DEF LoadStates, Desk!NoLoad
    <3>2. load' = [load EXCEPT ![l] = q] /\ page.open /\ UNCHANGED <<signedIn, page, answered>>
      BY <2>7 DEF Desk!submit
    <3> HIDE DEF q
    <3> QED BY <1>2, <1>7, <3>1, <3>2
  <2>8. ASSUME NEW l \in Loads, NEW t \in Tickets, Desk!created(t, l) PROVE Good
    <3>1. CASE load[l].pc = "creates" /\ Desk!Loading(l, page)
      BY <1>1, <1>2, <1>6, <2>8, <3>1 DEF Desk!created, PageIsSignedIn
    <3>2. CASE load' = [load EXCEPT ![l] = Desk!NoLoad] /\ UNCHANGED page
      BY <1>2, <1>4, <1>7, <2>8, <3>2 DEF Desk!created
    <3> QED BY <2>8, <3>1, <3>2 DEF Desk!created
  <2> QED BY <2>1, <2>2, <2>3, <2>4, <2>5, <2>6, <2>7, <2>8
<1> QED BY <1>3, <1>8 DEF DeskInv, PageSideInv, PageSideTypes

LEMMA DeskStep == DeskInv /\ Desk!Next => DeskInv'
<1> SUFFICES ASSUME DeskInv, Desk!Next PROVE DeskInv'
  OBVIOUS
<1>1. BotSideInv /\ PageSideInv
  BY DEF DeskInv
<1>2. ASSUME NEW d \in Calls,
             \/ \E t \in Tickets : Desk!tapsReply(d, t) \/ Desk!tapsResolve(d, t)
             \/ \E text \in Texts : Desk!plainMessage(d, text)
             \/ \E t \in Tickets, n \in Texts \cup {Desk!None} : Desk!panelResolves(d, t, n)
             \/ Desk!stagesReply(d) \/ Desk!resolve(d) \/ Desk!auditFails(d) \/ Desk!messagePlayer(d)
      PROVE  DeskInv'
  <2>1. UNCHANGED <<signedIn, page, load, answered>>
    BY <1>2 DEF Desk!tapsReply, Desk!tapsResolve, Desk!plainMessage, Desk!panelResolves, Desk!stagesReply,
                Desk!resolve, Desk!auditFails, Desk!messagePlayer, Desk!playerVars
  <2> QED BY <1>1, <1>2, <2>1, BotKeepsDesk, PageSideKept DEF DeskInv
<1> QED BY <1>2, PromptsPass, PageKeepsDesk DEF Desk!Next

LEMMA DeskHolds == DeskInv => Desk!OnePromptOneAnswer /\ Desk!AnswersAreTold /\ Desk!NoFalseEmptiness
BY DEF DeskInv, BotSideInv, PageSideInv

-----------------------------------------------------------------------------
(* AdminBot: what a message says, and what an update under way will do.    *)

\* A text that a message shows, or is about to show.
Spoken(text) ==
    \/ \E m \in Messages : chat[m].says = text
    \/ \E u \in Calls : update[u].pc = "edits" /\ update[u].about.says = text

\* Where an update puts its answer: a message, or none.
Places == Messages \cup {Bot!NoMessage}
WdSteps == {"finds", "approves", "rejects", "restores", "sends"}
UsSteps == {"sets", "kicks"}
BotSteps == {"idle", "runs", "edits"} \cup WdSteps \cup UsSteps

UsTypes ==
    /\ online \in BOOLEAN /\ cached \in BOOLEAN /\ slipped \in BOOLEAN
    /\ handshake \in {"none", "clear", "refused"}

BotTypes ==
    /\ withdrawal \in {"pending", "completed", "reversed", "rejected"}
    /\ paid \in Nat /\ refunds \in Nat
    /\ large \in BOOLEAN /\ garbled \in BOOLEAN /\ echoed \in BOOLEAN /\ UsTypes
    /\ lastKey \in Nat /\ confirms \in [Keys -> Nat] /\ ran \in [Keys -> Nat]
    /\ chat = [m \in Messages |-> chat[m]]
    /\ update = [u \in Calls |-> update[u]]
    /\ \A u \in Calls :
         /\ update[u].pc \in BotSteps
         /\ update[u].pc # "idle" =>
              /\ update[u] = [pc |-> update[u].pc, m |-> update[u].m, about |-> update[u].about]
              /\ update[u].m \in Places
         /\ update[u].pc \in WdSteps => domain = "wd"
    /\ Spoken("row") \/ Spoken("confirm") => domain = "wd"

\* Who claims the row sends, alone, and nobody sends what was paid or given back.
Sending == {u \in Calls : update[u].pc = "sends"}
OneSends ==
    /\ paid <= 1 /\ refunds <= 1 /\ (paid = 1 /\ refunds = 1 => garbled)
    /\ withdrawal = "pending" => paid = 0 /\ refunds = 0
    /\ \A u \in Sending : withdrawal = "completed" /\ paid = 0 /\ refunds = 0 /\ Sending = {u}
    /\ Spoken("approved") => paid = 1 /\ withdrawal = "completed"
    /\ Spoken("rejected") => withdrawal = "rejected"

\* A large amount was echoed before a press could get any further.
Paying == {u \in Calls : update[u].pc \in {"approves", "sends"} /\ update[u].m \in Messages}
EchoedFirst == large /\ (Spoken("confirm") \/ Paying # {}) => echoed

\* Who blocked the account is about to drop its sockets, or an older answer let one in.
Kicking == {u \in Calls : update[u].pc = "kicks" /\ update[u].about \in Bot!Blocked}
SomebodyKicks == account \in Bot!Blocked /\ online => slipped \/ Kicking # {}

\* What is staged, or taken to be run, is known and was not run.
Running(k) == {u \in Calls : update[u].pc = "runs" /\ update[u].about = k}
RunsAreFresh ==
    /\ \A k \in DOMAIN parked : k \in Keys /\ k <= lastKey /\ ran[k] = 0 /\ Running(k) = {}
    /\ \A u \in Calls : update[u].pc = "runs" => update[u].about \in Keys
    /\ \A u \in Calls, k \in Keys : u \in Running(k) =>
         k <= lastKey /\ ran[k] = 0 /\ confirms[k] >= 1 /\ Running(k) = {u}
    /\ \A k \in Keys : ran[k] <= 1 /\ ran[k] <= confirms[k] /\ (ran[k] > 0 => k <= lastKey)

BotInv == BotTypes /\ OneSends /\ EchoedFirst /\ SomebodyKicks /\ RunsAreFresh

LEMMA BotInit == Bot!Init => BotInv
<1> SUFFICES ASSUME Bot!Init PROVE BotInv
  OBVIOUS
<1>1. /\ large \in BOOLEAN /\ withdrawal = "pending" /\ paid = 0 /\ refunds = 0
      /\ garbled = FALSE /\ echoed = FALSE
      /\ account = "active" /\ online = TRUE /\ handshake = "none" /\ cached = FALSE /\ slipped = FALSE
      /\ parked = <<>> /\ lastKey = 0
      /\ confirms = [k \in Keys |-> 0] /\ ran = [k \in Keys |-> 0]
      /\ chat = [m \in Messages |-> [says |-> "nothing", about |-> 0]]
      /\ update = [u \in Calls |-> [pc |-> "idle"]]
  BY DEF Bot!Init, Bot!Nothing, Bot!Idle
<1>2. (\A u \in Calls : update[u].pc = "idle") /\ (\A m \in Messages : chat[m].says = "nothing")
  BY <1>1
<1>3. \A text \in {"row", "confirm", "approved", "rejected"} : ~Spoken(text)
  BY <1>2 DEF Spoken
<1>4. BotTypes
  BY <1>1, <1>2, <1>3 DEF BotTypes, UsTypes, BotSteps, WdSteps
<1>5. OneSends /\ EchoedFirst
  BY <1>1, <1>2, <1>3 DEF OneSends, EchoedFirst, Sending, Paying
<1>6. SomebodyKicks
  BY <1>1 DEF SomebodyKicks, Bot!Blocked
<1>7. DOMAIN parked = {}
  BY <1>1
<1>8. RunsAreFresh
  BY <1>1, <1>2, <1>7 DEF RunsAreFresh, Running
<1> QED BY <1>4, <1>5, <1>6, <1>8 DEF BotInv

\* What an update is at next, and what is spoken then; the others wait.
LEMMA UpdateSteps ==
  ASSUME BotTypes, NEW u \in Calls, NEW q, Bot!Become(u, q)
  PROVE  /\ update' = [v \in Calls |-> update'[v]] /\ update'[u] = q
         /\ \A v \in Calls : v # u => update'[v] = update[v]
         /\ chat' = chat => \A text : Spoken(text)' => Spoken(text) \/ (q.pc = "edits" /\ q.about.says = text)
BY DEF BotTypes, Bot!Become, Spoken

\* The types hold for an update that goes on.
LEMMA BotTypesStep ==
  ASSUME BotTypes, NEW u \in Calls, NEW pc \in BotSteps \ {"idle"}, NEW m \in Places, NEW about,
         Bot!Become(u, [pc |-> pc, m |-> m, about |-> about]),
         UNCHANGED <<domain, large, chat, lastKey, posts>>,
         withdrawal' \in {"pending", "completed", "reversed", "rejected"},
         paid' \in Nat, refunds' \in Nat /\ garbled' \in BOOLEAN, echoed' \in BOOLEAN, UsTypes',
         confirms' \in [Keys -> Nat], ran' \in [Keys -> Nat],
         pc \in WdSteps => domain = "wd",
         pc = "edits" /\ about.says \in {"row", "confirm"} => domain = "wd"
  PROVE  /\ BotTypes' /\ update'[u].pc = pc /\ update'[u].m = m /\ update'[u].about = about
         /\ \A v \in Calls : v # u => update'[v] = update[v]
         /\ \A text : Spoken(text)' => Spoken(text) \/ (pc = "edits" /\ about.says = text)
<1> DEFINE q == [pc |-> pc, m |-> m, about |-> about]
<1>1. /\ update' = [v \in Calls |-> update'[v]] /\ update'[u] = q
      /\ \A v \in Calls : v # u => update'[v] = update[v]
      /\ \A text : Spoken(text)' => Spoken(text) \/ (pc = "edits" /\ about.says = text)
  BY UpdateSteps
<1>2. Spoken("row")' \/ Spoken("confirm")' => domain = "wd"
  BY <1>1 DEF BotTypes
<1>3. \A v \in Calls :
         /\ update'[v].pc \in BotSteps
         /\ update'[v].pc # "idle" =>
              /\ update'[v] = [pc |-> update'[v].pc, m |-> update'[v].m, about |-> update'[v].about]
              /\ update'[v].m \in Places
         /\ update'[v].pc \in WdSteps => domain = "wd"
  <2>1. q.pc = pc /\ q.m = m /\ q.about = about /\ q = [pc |-> q.pc, m |-> q.m, about |-> q.about]
    OBVIOUS
  <2> HIDE DEF q
  <2> QED BY <1>1, <2>1 DEF BotTypes
<1> QED BY <1>1, <1>2, <1>3 DEF BotTypes

\* The parts an action does not disturb.
LEMMA RunsStay ==
  ASSUME RunsAreFresh, UNCHANGED <<parked, confirms, ran, lastKey>>,
         \A v \in Calls : update'[v].pc = "runs" \/ update[v].pc = "runs" => update'[v] = update[v]
  PROVE  RunsAreFresh'
BY DEF RunsAreFresh, Running

LEMMA KicksStay ==
  ASSUME SomebodyKicks, UNCHANGED <<account, online, slipped>>,
         \A v \in Calls : update[v].pc = "kicks" => update'[v] = update[v]
  PROVE  SomebodyKicks'
BY DEF SomebodyKicks, Kicking

LEMMA SendsStay ==
  ASSUME OneSends, UNCHANGED <<withdrawal, paid, refunds, garbled>>,
         \A v \in Calls : update'[v].pc = "sends" \/ update[v].pc = "sends" => update'[v] = update[v],
         \A text \in {"approved", "rejected"} : Spoken(text)' => Spoken(text)
  PROVE  OneSends'
BY DEF OneSends, Sending

LEMMA EchoStays ==
  ASSUME EchoedFirst, UNCHANGED <<large, echoed>>, Paying' \subseteq Paying,
         Spoken("confirm")' => Spoken("confirm")
  PROVE  EchoedFirst'
BY DEF EchoedFirst

\* The steps of a withdrawal.
LEMMA WithdrawalsKeepBot ==
  ASSUME BotInv, NEW u \in Calls,
         \/ \E m \in Messages, a \in {"ok", "no", "cfm", "x"} : Bot!handleWithdrawalTap(u, m, a)
         \/ Bot!onApproveTap(u) \/ Bot!onCancelConfirm(u) \/ Bot!doApprove(u) \/ Bot!payoutNow(u)
         \/ Bot!doReject(u)
  PROVE  BotInv'
<1>1. BotTypes /\ OneSends /\ EchoedFirst /\ SomebodyKicks /\ RunsAreFresh
  BY DEF BotInv
<1> DEFINE m == update[u].m
           about == update[u].about
           text(t) == [says |-> t, about |-> 0]
<1>2. ASSUME update[u].pc \in WdSteps
      PROVE  /\ m \in Places /\ domain = "wd" /\ update[u].pc # "idle"
             /\ \A pc : Bot!Then(u, pc) => Bot!Become(u, [pc |-> pc, m |-> m, about |-> about])
             /\ \A t : Bot!Edits(u, t) => Bot!Become(u, [pc |-> "edits", m |-> m, about |-> text(t)])
             /\ \A t : text(t).says = t
  <2>1. update[u].pc # "idle"
    BY <1>2 DEF WdSteps
  <2>2. update[u] = [pc |-> update[u].pc, m |-> m, about |-> about] /\ m \in Places /\ domain = "wd"
    BY <1>1, <1>2, <2>1 DEF BotTypes
  <2> HIDE DEF m, about
  <2>3. ASSUME NEW pc, Bot!Then(u, pc) PROVE Bot!Become(u, [pc |-> pc, m |-> m, about |-> about])
    <3>1. [update[u] EXCEPT !.pc = pc] = [pc |-> pc, m |-> m, about |-> about]
      BY <2>2
    <3> QED BY <2>3, <3>1 DEF Bot!Then
  <2> QED BY <2>1, <2>2, <2>3 DEF Bot!Edits, Bot!At, m, about
<1>3. ASSUME NEW n \in Messages, NEW a \in {"ok", "no", "cfm", "x"}, Bot!handleWithdrawalTap(u, n, a)
      PROVE  BotInv'
  <2> DEFINE pc == IF a = "ok" THEN "finds" ELSE IF a = "cfm" THEN "approves"
                   ELSE IF a = "no" THEN "rejects" ELSE "restores"
  <2>1. /\ domain = "wd" /\ update[u].pc = "idle" /\ a \in Bot!Buttons(chat[n])
        /\ Bot!Become(u, [pc |-> pc, m |-> n, about |-> 0])
        /\ UNCHANGED <<domain, large, withdrawal, paid, refunds, garbled, echoed, account, online,
                       handshake, cached, slipped, parked, confirms, ran, lastKey, chat, posts>>
    BY <1>3 DEF Bot!handleWithdrawalTap, Bot!Idle, Bot!At, Bot!wdVars, Bot!usVars, Bot!paVars
  <2>2. pc \in WdSteps /\ pc \in BotSteps \ {"idle"} /\ pc \notin {"edits", "runs", "kicks", "sends"}
        /\ (pc = "approves" => a = "cfm")
    BY DEF WdSteps, BotSteps
  <2> HIDE DEF pc
  <2>3. /\ withdrawal' \in {"pending", "completed", "reversed", "rejected"}
        /\ paid' \in Nat /\ refunds' \in Nat /\ garbled' \in BOOLEAN /\ echoed' \in BOOLEAN /\ UsTypes'
        /\ confirms' \in [Keys -> Nat] /\ ran' \in [Keys -> Nat]
    BY <1>1, <2>1 DEF BotTypes, UsTypes
  <2>4. /\ BotTypes' /\ update'[u].pc = pc
        /\ \A v \in Calls : v # u => update'[v] = update[v]
        /\ \A t : Spoken(t)' => Spoken(t)
    BY <1>1, <2>1, <2>2, <2>3, BotTypesStep DEF Places
  <2>5. OneSends'
    BY <1>1, <2>1, <2>2, <2>4, SendsStay
  <2>6. EchoedFirst'
    <3>1. a = "cfm" => Spoken("confirm")
      BY <2>1 DEF Bot!Buttons, Bot!AccountStates, Spoken
    <3> QED BY <1>1, <2>1, <2>2, <2>4, <3>1 DEF EchoedFirst, Paying
  <2>7. SomebodyKicks' /\ RunsAreFresh'
    BY <1>1, <2>1, <2>2, <2>4, KicksStay, RunsStay
  <2> QED BY <2>4, <2>5, <2>6, <2>7 DEF BotInv
<1>4. CASE Bot!onApproveTap(u)
  <2>1. /\ update[u].pc = "finds"
        /\ \/ Bot!Edits(u, "stale") /\ echoed' \in {echoed, TRUE}
           \/ Bot!Edits(u, "confirm") /\ echoed' = TRUE
           \/ Bot!Then(u, "approves") /\ ~large /\ echoed' \in {echoed, TRUE}
        /\ UNCHANGED <<domain, large, withdrawal, paid, refunds, garbled, account, online, handshake,
                       cached, slipped, parked, confirms, ran, lastKey, chat, posts>>
    BY <1>1, <1>4 DEF Bot!onApproveTap, Bot!needsConfirm, Bot!usVars, Bot!paVars, BotTypes
  <2>2. update[u].pc \in WdSteps
    BY <2>1 DEF WdSteps
  <2>3. \E pc \in {"edits", "approves"} : \E t \in {"stale", "confirm"}, w \in {text("stale"), text("confirm"), about} :
          /\ Bot!Become(u, [pc |-> pc, m |-> m, about |-> w])
          /\ pc = "edits" => w = text(t) /\ w.says = t
          /\ pc = "edits" /\ t = "confirm" => echoed' = TRUE
          /\ pc = "approves" => ~large
          /\ echoed' \in {echoed, TRUE}
    BY <1>2, <2>1, <2>2
  <2>4. PICK pc \in {"edits", "approves"}, t \in {"stale", "confirm"}, w \in {text("stale"), text("confirm"), about} :
          /\ Bot!Become(u, [pc |-> pc, m |-> m, about |-> w])
          /\ pc = "edits" => w.says = t
          /\ pc = "edits" /\ t = "confirm" => echoed' = TRUE
          /\ pc = "approves" => ~large
          /\ echoed' \in {echoed, TRUE}
    BY <2>3
  <2>5. m \in Places /\ domain = "wd" /\ pc \in BotSteps \ {"idle"}
    BY <1>2, <2>2 DEF BotSteps, WdSteps
  <2>6. /\ withdrawal' \in {"pending", "completed", "reversed", "rejected"}
        /\ paid' \in Nat /\ refunds' \in Nat /\ garbled' \in BOOLEAN /\ echoed' \in BOOLEAN /\ UsTypes'
        /\ confirms' \in [Keys -> Nat] /\ ran' \in [Keys -> Nat]
    BY <1>1, <2>1, <2>4 DEF BotTypes, UsTypes
  <2> HIDE DEF m, about
  <2>7. /\ BotTypes' /\ update'[u].pc = pc
        /\ \A v \in Calls : v # u => update'[v] = update[v]
        /\ \A s : Spoken(s)' => Spoken(s) \/ (pc = "edits" /\ s = t)
    BY <1>1, <2>1, <2>4, <2>5, <2>6, BotTypesStep
  <2>8. OneSends'
    BY <1>1, <2>1, <2>4, <2>7, SendsStay
  <2>9. EchoedFirst'
    <3> SUFFICES ASSUME large, Spoken("confirm")' \/ Paying' # {} PROVE echoed' = TRUE
      BY <2>1 DEF EchoedFirst
    <3>1. CASE pc = "edits" /\ t = "confirm"
      BY <2>4, <3>1
    <3>2. CASE ~(pc = "edits" /\ t = "confirm")
      <4>1. Spoken("confirm")' => Spoken("confirm")
        BY <2>7, <3>2
      <4>2. pc = "edits"
        BY <2>4
      <4>3. Paying' \subseteq Paying
        BY <2>7, <4>2 DEF Paying
      <4>4. echoed = TRUE
        BY <1>1, <2>1, <4>1, <4>3 DEF EchoedFirst, BotTypes
      <4> QED BY <2>4, <4>4
    <3> QED BY <3>1, <3>2
  <2>10. SomebodyKicks' /\ RunsAreFresh'
    BY <1>1, <2>1, <2>4, <2>7, KicksStay, RunsStay
  <2> QED BY <2>7, <2>8, <2>9, <2>10 DEF BotInv
<1>5. CASE Bot!onCancelConfirm(u)
  <2>1. /\ update[u].pc = "restores"
        /\ \E t \in {"row", "stale"} : Bot!Edits(u, t)
        /\ UNCHANGED <<domain, large, withdrawal, paid, refunds, garbled, echoed, account, online,
                       handshake, cached, slipped, parked, confirms, ran, lastKey, chat, posts>>
    BY <1>5 DEF Bot!onCancelConfirm, Bot!wdVars, Bot!usVars, Bot!paVars
  <2>2. update[u].pc \in WdSteps
    BY <2>1 DEF WdSteps
  <2>3. PICK t \in {"row", "stale"} : Bot!Edits(u, t)
    BY <2>1
  <2>4. Bot!Become(u, [pc |-> "edits", m |-> m, about |-> text(t)]) /\ text(t).says = t
    BY <1>2, <2>2, <2>3
  <2>5. m \in Places /\ domain = "wd" /\ "edits" \in BotSteps \ {"idle"}
    BY <1>2, <2>2 DEF BotSteps
  <2>6. /\ withdrawal' \in {"pending", "completed", "reversed", "rejected"}
        /\ paid' \in Nat /\ refunds' \in Nat /\ garbled' \in BOOLEAN /\ echoed' \in BOOLEAN /\ UsTypes'
        /\ confirms' \in [Keys -> Nat] /\ ran' \in [Keys -> Nat]
    BY <1>1, <2>1 DEF BotTypes, UsTypes
  <2> HIDE DEF m, text
  <2>7. /\ BotTypes' /\ update'[u].pc = "edits"
        /\ \A v \in Calls : v # u => update'[v] = update[v]
        /\ \A s : Spoken(s)' => Spoken(s) \/ s = t
    BY <1>1, <2>1, <2>4, <2>5, <2>6, BotTypesStep
  <2>8. OneSends' /\ EchoedFirst' /\ SomebodyKicks' /\ RunsAreFresh'
    BY <1>1, <2>1, <2>7, SendsStay, EchoStays, KicksStay, RunsStay DEF Paying
  <2> QED BY <2>7, <2>8 DEF BotInv
<1>6. CASE Bot!doApprove(u)
  <2>1. /\ update[u].pc = "approves"
        /\ \/ withdrawal = "pending" /\ withdrawal' = "completed" /\ Bot!Then(u, "sends")
           \/ withdrawal' = withdrawal /\ Bot!Edits(u, "stale")
        /\ UNCHANGED <<domain, large, paid, refunds, garbled, echoed, account, online, handshake,
                       cached, slipped, parked, confirms, ran, lastKey, chat, posts>>
    BY <1>6 DEF Bot!doApprove, Bot!setStatusIfPending, Bot!usVars, Bot!paVars
  <2>2. update[u].pc \in WdSteps
    BY <2>1 DEF WdSteps
  <2>3. m \in Places /\ domain = "wd" /\ "edits" \in BotSteps \ {"idle"} /\ "sends" \in BotSteps \ {"idle"}
    BY <1>2, <2>2 DEF BotSteps, WdSteps
  <2>4. /\ withdrawal' \in {"pending", "completed", "reversed", "rejected"}
        /\ paid' \in Nat /\ refunds' \in Nat /\ garbled' \in BOOLEAN /\ echoed' \in BOOLEAN /\ UsTypes'
        /\ confirms' \in [Keys -> Nat] /\ ran' \in [Keys -> Nat]
    BY <1>1, <2>1 DEF BotTypes, UsTypes
  <2>5. CASE withdrawal = "pending" /\ withdrawal' = "completed" /\ Bot!Then(u, "sends")
    <3>1. Bot!Become(u, [pc |-> "sends", m |-> m, about |-> about])
      BY <1>2, <2>2, <2>5
    <3> HIDE DEF m, about
    <3>2. /\ BotTypes' /\ update'[u].pc = "sends" /\ update'[u].m = m
          /\ \A v \in Calls : v # u => update'[v] = update[v]
          /\ \A s : Spoken(s)' => Spoken(s)
      BY <1>1, <2>1, <2>3, <2>4, <3>1, BotTypesStep
    <3>3. OneSends'
      <4>1. Sending = {} /\ Sending' = {u} /\ paid = 0 /\ refunds = 0 /\ ~Spoken("approved") /\ ~Spoken("rejected")
        BY <1>1, <2>5, <3>2 DEF OneSends, Sending
      <4> QED BY <2>1, <2>5, <3>2, <4>1 DEF OneSends
    <3>4. EchoedFirst'
      <4>1. Paying' \subseteq Paying
        BY <2>1, <3>2 DEF Paying, m
      <4> QED BY <1>1, <2>1, <3>2, <4>1, EchoStays
    <3>5. SomebodyKicks' /\ RunsAreFresh'
      BY <1>1, <2>1, <3>2, KicksStay, RunsStay
    <3> QED BY <3>2, <3>3, <3>4, <3>5 DEF BotInv
  <2>6. CASE withdrawal' = withdrawal /\ Bot!Edits(u, "stale")
    <3>1. Bot!Become(u, [pc |-> "edits", m |-> m, about |-> text("stale")]) /\ text("stale").says = "stale"
      BY <1>2, <2>2, <2>6
    <3> HIDE DEF m, text
    <3>2. /\ BotTypes' /\ update'[u].pc = "edits"
          /\ \A v \in Calls : v # u => update'[v] = update[v]
          /\ \A s : Spoken(s)' => Spoken(s) \/ s = "stale"
      BY <1>1, <2>1, <2>3, <2>4, <3>1, BotTypesStep
    <3>3. OneSends' /\ EchoedFirst' /\ SomebodyKicks' /\ RunsAreFresh'
      BY <1>1, <2>1, <2>6, <3>2, SendsStay, EchoStays, KicksStay, RunsStay DEF Paying
    <3> QED BY <3>2, <3>3 DEF BotInv
  <2> QED BY <2>1, <2>5, <2>6
<1>7. CASE Bot!payoutNow(u)
  <2>1. /\ update[u].pc = "sends"
        /\ paid' \in {paid, paid + 1}
        /\ \/ paid' > paid /\ Bot!Edits(u, "approved") /\ UNCHANGED <<withdrawal, refunds, garbled>>
           \/ Bot!Edits(u, "failed") /\ UNCHANGED <<withdrawal, refunds, garbled>>
           \/ /\ withdrawal' \in {"reversed", withdrawal} /\ refunds' = refunds + 1 /\ Bot!Edits(u, "failed")
              /\ garbled' = (garbled \/ paid' > paid)
        /\ UNCHANGED <<domain, large, echoed, account, online, handshake, cached, slipped, parked,
                       confirms, ran, lastKey, chat, posts>>
    BY <1>7 DEF Bot!payoutNow, Bot!usVars, Bot!paVars
  <2>2. update[u].pc \in WdSteps /\ u \in Sending
    BY <2>1 DEF WdSteps, Sending
  <2>3. withdrawal = "completed" /\ paid = 0 /\ refunds = 0 /\ Sending = {u}
    BY <1>1, <2>2 DEF OneSends
  <2>4. PICK t \in {"approved", "failed"} :
          /\ Bot!Edits(u, t)
          /\ paid' \in {0, 1} /\ refunds' \in {0, 1} /\ withdrawal' \in {"completed", "reversed"}
          /\ t = "approved" => paid' = 1 /\ withdrawal' = "completed"
          /\ paid' = 1 /\ refunds' = 1 => garbled'
          /\ garbled' \in BOOLEAN
    <3>1. garbled \in BOOLEAN
      BY <1>1 DEF BotTypes
    <3>2. CASE paid' > paid /\ Bot!Edits(u, "approved") /\ UNCHANGED <<withdrawal, refunds, garbled>>
      BY <2>1, <2>3, <3>1, <3>2
    <3>3. CASE Bot!Edits(u, "failed") /\ UNCHANGED <<withdrawal, refunds, garbled>>
      BY <2>1, <2>3, <3>1, <3>3
    <3>4. CASE /\ withdrawal' \in {"reversed", withdrawal} /\ refunds' = refunds + 1 /\ Bot!Edits(u, "failed")
               /\ garbled' = (garbled \/ paid' > paid)
      <4>1. paid' \in {0, 1} /\ refunds' = 1 /\ withdrawal' \in {"completed", "reversed"}
        BY <2>1, <2>3, <3>4
      <4>2. paid' = 1 => garbled'
        <5>1. paid' = 1 => paid' > paid
          BY <2>3
        <5> QED BY Zenon, <3>4, <5>1
      <4>3. garbled' \in BOOLEAN
        BY <3>1, <3>4
      <4> QED BY <3>4, <4>1, <4>2, <4>3
    <3> QED BY <2>1, <3>2, <3>3, <3>4
  <2>5. Bot!Become(u, [pc |-> "edits", m |-> m, about |-> text(t)]) /\ text(t).says = t
    BY <1>2, <2>2, <2>4
  <2>6. m \in Places /\ domain = "wd" /\ "edits" \in BotSteps \ {"idle"}
    BY <1>2, <2>2 DEF BotSteps
  <2>7. /\ withdrawal' \in {"pending", "completed", "reversed", "rejected"}
        /\ paid' \in Nat /\ refunds' \in Nat /\ garbled' \in BOOLEAN /\ echoed' \in BOOLEAN /\ UsTypes'
        /\ confirms' \in [Keys -> Nat] /\ ran' \in [Keys -> Nat]
    BY <1>1, <2>1, <2>4 DEF BotTypes, UsTypes
  <2> HIDE DEF m, text
  <2>8. /\ BotTypes' /\ update'[u].pc = "edits"
        /\ \A v \in Calls : v # u => update'[v] = update[v]
        /\ \A s : Spoken(s)' => Spoken(s) \/ s = t
    BY <1>1, <2>1, <2>5, <2>6, <2>7, BotTypesStep
  <2>9. OneSends'
    <3>1. Sending' = {} /\ ~Spoken("approved") /\ ~Spoken("rejected")
      BY <1>1, <2>3, <2>8 DEF OneSends, Sending
    <3> QED BY <2>4, <2>8, <3>1 DEF OneSends
  <2>10. EchoedFirst'
    <3>1. Paying' \subseteq Paying
      BY <2>8 DEF Paying
    <3> QED BY <1>1, <2>1, <2>4, <2>8, <3>1, EchoStays
  <2>11. SomebodyKicks' /\ RunsAreFresh'
    BY <1>1, <2>1, <2>8, KicksStay, RunsStay
  <2> QED BY <2>8, <2>9, <2>10, <2>11 DEF BotInv
<1>8. CASE Bot!doReject(u)
  <2>1. /\ update[u].pc = "rejects"
        /\ \/ /\ withdrawal = "pending" /\ withdrawal' = "rejected" /\ refunds' = refunds + 1
              /\ \E t \in {"rejected", "failed"} : Bot!Edits(u, t)
           \/ UNCHANGED <<withdrawal, refunds>> /\ Bot!Edits(u, "stale")
        /\ UNCHANGED <<domain, large, paid, garbled, echoed, account, online, handshake, cached,
                       slipped, parked, confirms, ran, lastKey, chat, posts>>
    BY <1>8 DEF Bot!doReject, Bot!setStatusIfPending, Bot!usVars, Bot!paVars
  <2>2. update[u].pc \in WdSteps
    BY <2>1 DEF WdSteps
  <2>3. PICK t \in {"rejected", "failed", "stale"} :
          /\ Bot!Edits(u, t)
          /\ \/ withdrawal = "pending" /\ withdrawal' = "rejected" /\ refunds' = refunds + 1 /\ t # "stale"
             \/ UNCHANGED <<withdrawal, refunds>> /\ t = "stale"
    BY <2>1
  <2>4. Bot!Become(u, [pc |-> "edits", m |-> m, about |-> text(t)]) /\ text(t).says = t
    BY <1>2, <2>2, <2>3
  <2>5. m \in Places /\ domain = "wd" /\ "edits" \in BotSteps \ {"idle"}
    BY <1>2, <2>2 DEF BotSteps
  <2>6. /\ withdrawal' \in {"pending", "completed", "reversed", "rejected"}
        /\ paid' \in Nat /\ refunds' \in Nat /\ garbled' \in BOOLEAN /\ echoed' \in BOOLEAN /\ UsTypes'
        /\ confirms' \in [Keys -> Nat] /\ ran' \in [Keys -> Nat]
    BY <1>1, <2>1, <2>3 DEF BotTypes, UsTypes
  <2> HIDE DEF m, text
  <2>7. /\ BotTypes' /\ update'[u].pc = "edits"
        /\ \A v \in Calls : v # u => update'[v] = update[v]
        /\ \A s : Spoken(s)' => Spoken(s) \/ s = t
    BY <1>1, <2>1, <2>4, <2>5, <2>6, BotTypesStep
  <2>8. OneSends'
    <3>1. CASE t = "stale"
      BY <1>1, <2>1, <2>3, <2>7, <3>1, SendsStay
    <3>2. CASE withdrawal = "pending" /\ withdrawal' = "rejected" /\ refunds' = refunds + 1 /\ t # "stale"
      <4>1. paid = 0 /\ refunds = 0 /\ Sending = {} /\ ~Spoken("approved")
        BY <1>1, <3>2 DEF OneSends
      <4>2. Sending' = {}
        BY <2>7, <4>1 DEF Sending
      <4> QED BY <2>1, <2>7, <3>2, <4>1, <4>2 DEF OneSends
    <3> QED BY <2>3, <3>1, <3>2
  <2>9. EchoedFirst' /\ SomebodyKicks' /\ RunsAreFresh'
    BY <1>1, <2>1, <2>3, <2>7, EchoStays, KicksStay, RunsStay DEF Paying
  <2> QED BY <2>7, <2>8, <2>9 DEF BotInv
<1> QED BY <1>3, <1>4, <1>5, <1>6, <1>7, <1>8

\* A new message, in the words of its domain.
LEMMA PostsKeepTypes ==
  ASSUME BotTypes, NEW m \in Messages, NEW t \in {"row", "card", "staged"}, NEW about, Bot!Post(m, t, about),
         UNCHANGED <<domain, large, withdrawal, paid, refunds, garbled, echoed, online, handshake,
                     cached, slipped, update>>,
         lastKey' \in Nat, confirms' = confirms, ran' = ran,
         t = "row" => domain = "wd"
  PROVE  BotTypes' /\ \A s : Spoken(s)' => Spoken(s) \/ s = t
<1> DEFINE r == [says |-> t, about |-> about]
<1>1. chat' = [chat EXCEPT ![m] = r] /\ r.says = t
  BY DEF Bot!Post
<1> HIDE DEF r
<1>2. chat' = [n \in Messages |-> chat'[n]] /\ \A n \in Messages : chat'[n] = IF n = m THEN r ELSE chat[n]
  BY <1>1 DEF BotTypes
<1>3. \A s : Spoken(s)' => Spoken(s) \/ s = t
  BY <1>1, <1>2 DEF Spoken
<1>4. Spoken("row")' \/ Spoken("confirm")' => domain = "wd"
  BY <1>3 DEF BotTypes
<1> QED BY <1>2, <1>3, <1>4 DEF BotTypes, UsTypes

\* The steps of messages and accounts.
LEMMA AccountsKeepBot ==
  ASSUME BotInv,
         \/ \E m \in Messages : Bot!sendWithdrawals(m) \/ Bot!sendUser(m)
         \/ \E u \in Calls :
              \/ Bot!editMessage(u) \/ Bot!noAdmin(u) \/ Bot!applyAccountState(u) \/ Bot!kickUser(u)
              \/ \E s \in Bot!AccountStates :
                   Bot!panelDecides(u, "sets", s) \/ \E m \in Messages : Bot!handleAccountStateTap(u, m, s)
              \/ \E pc \in {"approves", "rejects"} : Bot!panelDecides(u, pc, 0)
         \/ Bot!checkSession \/ Bot!connects \/ Bot!connectsCached \/ Bot!cacheExpires
  PROVE  BotInv'
<1>1. BotTypes /\ OneSends /\ EchoedFirst /\ SomebodyKicks /\ RunsAreFresh
  BY DEF BotInv
<1>2. ASSUME NEW m \in Messages, Bot!sendWithdrawals(m) \/ Bot!sendUser(m) PROVE BotInv'
  <2>1. PICK t \in {"row", "card"} : Bot!Post(m, t, 0) /\ (t = "row" => domain = "wd")
    BY <1>2 DEF Bot!sendWithdrawals, Bot!sendUser
  <2>2. UNCHANGED <<domain, large, withdrawal, paid, refunds, garbled, echoed, account, online,
                    handshake, cached, slipped, parked, confirms, ran, lastKey, update>>
    BY <1>2 DEF Bot!sendWithdrawals, Bot!sendUser, Bot!wdVars, Bot!usVars, Bot!paVars
  <2>3. lastKey' \in Nat
    BY <1>1, <2>2 DEF BotTypes
  <2>4. BotTypes' /\ \A s : Spoken(s)' => Spoken(s) \/ s = t
    BY <1>1, <2>1, <2>2, <2>3, PostsKeepTypes
  <2>5. OneSends' /\ EchoedFirst' /\ SomebodyKicks' /\ RunsAreFresh'
    BY <1>1, <2>2, <2>4, SendsStay, EchoStays, KicksStay, RunsStay DEF Paying
  <2> QED BY <2>4, <2>5 DEF BotInv
<1>3. ASSUME NEW u \in Calls, Bot!editMessage(u) PROVE BotInv'
  <2> DEFINE m == update[u].m
             r == update[u].about
  <2>1. /\ update[u].pc = "edits" /\ chat' = [n \in Messages |-> IF n = m THEN r ELSE chat[n]]
        /\ Bot!Become(u, [pc |-> "idle"])
        /\ UNCHANGED <<domain, large, withdrawal, paid, refunds, garbled, echoed, account, online,
                       handshake, cached, slipped, parked, confirms, ran, lastKey>>
    BY <1>3 DEF Bot!editMessage, Bot!Idle, Bot!wdVars, Bot!usVars, Bot!paVars
  <2>3. /\ update' = [v \in Calls |-> update'[v]] /\ update'[u].pc = "idle"
        /\ \A v \in Calls : v # u => update'[v] = update[v]
    BY <1>1, <2>1, UpdateSteps
  <2>4. chat' = [n \in Messages |-> chat'[n]] /\ \A n \in Messages : chat'[n] = IF n = m THEN r ELSE chat[n]
    BY <2>1
  <2>5. \A s : Spoken(s)' => Spoken(s)
    BY <2>1, <2>3, <2>4 DEF Spoken
  <2>6. BotTypes'
    <3>1. \A v \in Calls :
            /\ update'[v].pc \in BotSteps
            /\ update'[v].pc # "idle" =>
                 /\ update'[v] = [pc |-> update'[v].pc, m |-> update'[v].m, about |-> update'[v].about]
                 /\ update'[v].m \in Places
            /\ update'[v].pc \in WdSteps => domain = "wd"
      BY <1>1, <2>3 DEF BotTypes, BotSteps, WdSteps
    <3> QED BY <1>1, <2>1, <2>3, <2>4, <2>5, <3>1 DEF BotTypes, UsTypes
  <2>7. OneSends' /\ EchoedFirst' /\ SomebodyKicks' /\ RunsAreFresh'
    BY <1>1, <2>1, <2>3, <2>5, SendsStay, EchoStays, KicksStay, RunsStay DEF Paying
  <2> QED BY <2>6, <2>7 DEF BotInv
<1>4. ASSUME NEW u \in Calls, NEW pc \in {"edits", "sets", "kicks", "approves", "rejects"}, NEW m \in Places, NEW about,
             Bot!Become(u, [pc |-> pc, m |-> m, about |-> about]),
             pc = "edits" => about.says \in {"failed", "card"},
             pc \in {"approves", "rejects"} => domain = "wd" /\ m = Bot!NoMessage,
             update[u].pc \notin {"sends", "runs"},
             UNCHANGED <<domain, large, withdrawal, paid, refunds, garbled, echoed, parked, confirms,
                         ran, lastKey, chat, posts>>,
             UsTypes'
      PROVE  /\ BotTypes' /\ OneSends' /\ EchoedFirst' /\ RunsAreFresh'
             /\ update'[u].pc = pc /\ update'[u].about = about
             /\ \A v \in Calls : v # u => update'[v] = update[v]
  <2>1. pc \in BotSteps \ {"idle"} /\ (pc \in WdSteps => domain = "wd") /\ pc \notin {"sends", "runs"}
    BY <1>4 DEF BotSteps, UsSteps, WdSteps
  <2>2. /\ withdrawal' \in {"pending", "completed", "reversed", "rejected"}
        /\ paid' \in Nat /\ refunds' \in Nat /\ garbled' \in BOOLEAN /\ echoed' \in BOOLEAN
        /\ confirms' \in [Keys -> Nat] /\ ran' \in [Keys -> Nat]
    BY <1>1, <1>4 DEF BotTypes
  <2>3. pc = "edits" /\ about.says \in {"row", "confirm"} => domain = "wd"
    BY <1>4
  <2>4. /\ BotTypes' /\ update'[u].pc = pc /\ update'[u].m = m /\ update'[u].about = about
        /\ \A v \in Calls : v # u => update'[v] = update[v]
        /\ \A s : Spoken(s)' => Spoken(s) \/ s \in {"failed", "card"}
    BY <1>1, <1>4, <2>1, <2>2, <2>3, BotTypesStep
  <2>5. Paying' \subseteq Paying
    BY <1>4, <2>4, DeskAssumption DEF Paying
  <2>6. OneSends' /\ EchoedFirst' /\ RunsAreFresh'
    BY <1>1, <1>4, <2>1, <2>4, <2>5, SendsStay, EchoStays, RunsStay
  <2> QED BY <2>4, <2>6
<1>5. ASSUME NEW u \in Calls, update[u].pc \in {"approves", "rejects", "sets", "kicks"}
      PROVE  /\ update[u].m \in Places
             /\ update[u] = [pc |-> update[u].pc, m |-> update[u].m, about |-> update[u].about]
  BY <1>1, <1>5 DEF BotTypes
<1>6. ASSUME NEW u \in Calls, Bot!noAdmin(u) PROVE BotInv'
  <2> DEFINE m == update[u].m
             w == [says |-> "failed", about |-> 0]
  <2>1. /\ update[u].pc \in {"approves", "rejects", "sets"}
        /\ Bot!Become(u, [pc |-> "edits", m |-> m, about |-> w]) /\ w.says = "failed"
        /\ UNCHANGED <<domain, large, withdrawal, paid, refunds, garbled, echoed, account, online,
                       handshake, cached, slipped, parked, confirms, ran, lastKey, chat, posts>>
    BY <1>6 DEF Bot!noAdmin, Bot!Edits, Bot!At, Bot!wdVars, Bot!usVars, Bot!paVars
  <2>2. m \in Places /\ UsTypes'
    BY <1>1, <1>5, <2>1 DEF BotTypes, UsTypes
  <2> HIDE DEF m, w
  <2>3. /\ BotTypes' /\ OneSends' /\ EchoedFirst' /\ RunsAreFresh'
        /\ \A v \in Calls : v # u => update'[v] = update[v]
    BY <1>4, <2>1, <2>2
  <2>4. SomebodyKicks'
    BY <1>1, <2>1, <2>3, KicksStay
  <2> QED BY <2>3, <2>4 DEF BotInv
<1>7. ASSUME NEW u \in Calls, Bot!applyAccountState(u) PROVE BotInv'
  <2> DEFINE m == update[u].m
             state == update[u].about
             w == [says |-> "failed", about |-> 0]
  <2>1. /\ update[u].pc = "sets"
        /\ \/ account' = state /\ Bot!Then(u, "kicks") /\ slipped' = slipped
           \/ /\ Bot!Become(u, [pc |-> "edits", m |-> m, about |-> w])
              /\ \/ slipped' = (slipped \/ online)
                 \/ UNCHANGED <<account, slipped>>
        /\ w.says = "failed"
        /\ UNCHANGED <<domain, large, withdrawal, paid, refunds, garbled, echoed, online, handshake,
                       cached, parked, confirms, ran, lastKey, chat, posts>>
    BY <1>7 DEF Bot!applyAccountState, Bot!Edits, Bot!At, Bot!wdVars, Bot!paVars
  <2>2. m \in Places /\ UsTypes'
    <3>1. m \in Places
      BY <1>5, <2>1
    <3>2. slipped' \in BOOLEAN
      BY <1>1, <2>1 DEF BotTypes, UsTypes
    <3> QED BY <1>1, <2>1, <3>1, <3>2 DEF BotTypes, UsTypes
  <2>3. CASE account' = state /\ Bot!Then(u, "kicks") /\ slipped' = slipped
    <3>1. Bot!Become(u, [pc |-> "kicks", m |-> m, about |-> state])
      <4>1. update[u] = [pc |-> update[u].pc, m |-> m, about |-> state]
        BY <1>5, <2>1
      <4> HIDE DEF m, state
      <4>2. [update[u] EXCEPT !.pc = "kicks"] = [pc |-> "kicks", m |-> m, about |-> state]
        BY <4>1
      <4> QED BY <2>3, <4>2 DEF Bot!Then
    <3> HIDE DEF m, state, w
    <3>2. /\ BotTypes' /\ OneSends' /\ EchoedFirst' /\ RunsAreFresh'
          /\ update'[u].pc = "kicks" /\ update'[u].about = state
      BY <1>4, <2>1, <2>2, <3>1
    <3>3. SomebodyKicks'
      BY <2>3, <3>2 DEF SomebodyKicks, Kicking, Bot!Blocked
    <3> QED BY <3>2, <3>3 DEF BotInv
  <2>4. CASE /\ Bot!Become(u, [pc |-> "edits", m |-> m, about |-> w])
             /\ (slipped' = (slipped \/ online)) \/ (account' = account /\ slipped' = slipped)
    <3> HIDE DEF m, w
    <3>1. /\ BotTypes' /\ OneSends' /\ EchoedFirst' /\ RunsAreFresh'
          /\ \A v \in Calls : v # u => update'[v] = update[v]
      BY <1>4, <2>1, <2>2, <2>4
    <3>2. CASE slipped' = (slipped \/ online)
      <4>1. online' => slipped'
        BY <2>1, <3>2
      <4> QED BY <3>1, <4>1 DEF BotInv, SomebodyKicks
    <3>3. CASE account' = account /\ slipped' = slipped
      <4>1. SomebodyKicks'
        BY <1>1, <2>1, <3>1, <3>3, KicksStay
      <4> QED BY <3>1, <4>1 DEF BotInv
    <3> QED BY <2>4, <3>2, <3>3
  <2> QED BY <2>1, <2>3, <2>4
<1>8. ASSUME NEW u \in Calls, Bot!kickUser(u) PROVE BotInv'
  <2> DEFINE m == update[u].m
             w == [says |-> "card", about |-> 0]
  <2>1. /\ update[u].pc = "kicks"
        /\ online' = (online /\ ~(update[u].about \in Bot!Blocked))
        /\ slipped' = (slipped /\ ~(update[u].about \in Bot!Blocked))
        /\ Bot!Become(u, [pc |-> "edits", m |-> m, about |-> w]) /\ w.says = "card"
        /\ UNCHANGED <<domain, large, withdrawal, paid, refunds, garbled, echoed, account, handshake,
                       cached, parked, confirms, ran, lastKey, chat, posts>>
    BY <1>8 DEF Bot!kickUser, Bot!kicks, Bot!At, Bot!wdVars, Bot!paVars
  <2>2. m \in Places /\ UsTypes'
    BY <1>1, <1>5, <2>1 DEF BotTypes, UsTypes
  <2> HIDE DEF m, w
  <2>3. /\ BotTypes' /\ OneSends' /\ EchoedFirst' /\ RunsAreFresh'
        /\ \A v \in Calls : v # u => update'[v] = update[v]
    BY <1>4, <2>1, <2>2
  <2>4. SomebodyKicks'
    <3> SUFFICES ASSUME account \in Bot!Blocked, online', ~slipped' PROVE Kicking' # {}
      BY <2>1 DEF SomebodyKicks, Bot!Blocked
    <3>1. online /\ ~slipped /\ update[u].about \notin Bot!Blocked
      BY <2>1
    <3>2. PICK v \in Calls : v \in Kicking
      BY <1>1, <3>1 DEF SomebodyKicks, Kicking
    <3>3. v # u
      BY <3>1, <3>2 DEF Kicking
    <3> QED BY <2>3, <3>2, <3>3 DEF Kicking, Bot!Blocked
  <2> QED BY <2>3, <2>4 DEF BotInv
<1>9. ASSUME NEW u \in Calls, NEW m \in Messages, NEW s \in Bot!AccountStates, Bot!handleAccountStateTap(u, m, s)
      PROVE  BotInv'
  <2>1. /\ update[u].pc = "idle" /\ Bot!Become(u, [pc |-> "sets", m |-> m, about |-> s])
        /\ UNCHANGED <<domain, large, withdrawal, paid, refunds, garbled, echoed, account, online,
                       handshake, cached, slipped, parked, confirms, ran, lastKey, chat, posts>>
    BY <1>9 DEF Bot!handleAccountStateTap, Bot!Idle, Bot!At, Bot!wdVars, Bot!usVars, Bot!paVars
  <2>2. UsTypes'
    BY <1>1, <2>1 DEF BotTypes, UsTypes
  <2>3. /\ BotTypes' /\ OneSends' /\ EchoedFirst' /\ RunsAreFresh'
        /\ \A v \in Calls : v # u => update'[v] = update[v]
    BY <1>4, <2>1, <2>2 DEF Places
  <2>4. SomebodyKicks'
    BY <1>1, <2>1, <2>3, KicksStay
  <2> QED BY <2>3, <2>4 DEF BotInv
<1>10. ASSUME NEW u \in Calls, NEW pc \in {"sets", "approves", "rejects"}, NEW about, Bot!panelDecides(u, pc, about)
       PROVE  BotInv'
  <2>1. /\ update[u].pc = "idle" /\ Bot!Become(u, [pc |-> pc, m |-> Bot!NoMessage, about |-> about])
        /\ pc \in {"approves", "rejects"} => domain = "wd"
        /\ UNCHANGED <<domain, large, withdrawal, paid, refunds, garbled, echoed, account, online,
                       handshake, cached, slipped, parked, confirms, ran, lastKey, chat, posts>>
    BY <1>10 DEF Bot!panelDecides, Bot!Idle, Bot!At, Bot!wdVars, Bot!usVars, Bot!paVars
  <2>2. UsTypes' /\ Bot!NoMessage \in Places
    BY <1>1, <2>1 DEF BotTypes, UsTypes, Places
  <2>3. /\ BotTypes' /\ OneSends' /\ EchoedFirst' /\ RunsAreFresh'
        /\ \A v \in Calls : v # u => update'[v] = update[v]
    BY <1>4, <2>1, <2>2
  <2>4. SomebodyKicks'
    BY <1>1, <2>1, <2>3, KicksStay
  <2> QED BY <2>3, <2>4 DEF BotInv
<1>11. CASE Bot!checkSession \/ Bot!connects \/ Bot!connectsCached \/ Bot!cacheExpires
  <2>1. UNCHANGED <<domain, large, withdrawal, paid, refunds, garbled, echoed, account, parked,
                    confirms, ran, lastKey, chat, posts, update>>
    BY <1>11 DEF Bot!checkSession, Bot!connects, Bot!connectsCached, Bot!cacheExpires, Bot!wdVars, Bot!paVars
  <2>2. UsTypes
    BY <1>1 DEF BotTypes
  <2>3. UsTypes' /\ SomebodyKicks'
    <3>1. CASE Bot!checkSession \/ Bot!cacheExpires
      <4>1. UsTypes' /\ UNCHANGED <<online, slipped>>
        BY <2>2, <3>1 DEF Bot!checkSession, Bot!cacheExpires, UsTypes
      <4> QED BY <1>1, <2>1, <4>1, KicksStay
    <3>2. CASE Bot!connects
      <4>1. /\ handshake' = "none" /\ cached' = (handshake = "clear")
            /\ online' = (online \/ handshake = "clear")
            /\ slipped' = (slipped \/ (handshake = "clear" /\ account \in Bot!Blocked))
        BY <3>2 DEF Bot!connects, Bot!admits
      <4>2. UsTypes'
        BY <2>2, <4>1 DEF UsTypes
      <4> QED BY <1>1, <2>1, <4>1, <4>2 DEF SomebodyKicks, Kicking, Bot!Blocked
    <3>3. CASE Bot!connectsCached
      <4>1. /\ online' = TRUE /\ slipped' = (slipped \/ account \in Bot!Blocked)
            /\ UNCHANGED <<handshake, cached>>
        BY <3>3 DEF Bot!connectsCached
      <4>2. UsTypes'
        BY <2>2, <4>1 DEF UsTypes
      <4> QED BY <2>1, <4>1, <4>2 DEF SomebodyKicks, Bot!Blocked
    <3> QED BY <1>11, <3>1, <3>2, <3>3
  <2>4. \A s : Spoken(s)' <=> Spoken(s)
    BY <2>1 DEF Spoken
  <2>5. BotTypes'
    BY <1>1, <2>1, <2>3, <2>4 DEF BotTypes
  <2>6. OneSends' /\ EchoedFirst' /\ RunsAreFresh'
    BY <1>1, <2>1, <2>4, SendsStay, EchoStays, RunsStay DEF Paying
  <2> QED BY <2>3, <2>5, <2>6 DEF BotInv
<1> QED BY <1>2, <1>3, <1>6, <1>7, <1>8, <1>9, <1>10, <1>11

\* The steps of staged actions.
LEMMA StagedKeepBot ==
  ASSUME BotInv,
         \/ \E m \in Messages : Bot!stagePending(m)
         \/ \E u \in Calls :
              \/ Bot!run(u)
              \/ \E m \in Messages, a \in {"ok", "no", "cfm", "x"} : Bot!handlePendingTap(u, m, a)
         \/ \E k \in Keys : Bot!grows(k)
  PROVE  BotInv'
<1>1. BotTypes /\ OneSends /\ EchoedFirst /\ SomebodyKicks /\ RunsAreFresh
  BY DEF BotInv
<1>2. ASSUME NEW m \in Messages, Bot!stagePending(m) PROVE BotInv'
  <2> DEFINE key == lastKey + 1
  <2>1. /\ key \in Keys /\ lastKey' = key /\ Bot!Post(m, "staged", key)
        /\ parked' = [k \in {j \in DOMAIN parked : parked[j] = "new"} \cup {key} |-> "new"]
        /\ UNCHANGED <<domain, large, withdrawal, paid, refunds, garbled, echoed, account, online,
                       handshake, cached, slipped, confirms, ran, update>>
    BY <1>2 DEF Bot!stagePending, Bot!wdVars, Bot!usVars
  <2>2. lastKey \in Nat /\ lastKey' \in Nat /\ lastKey < key /\ ran \in [Keys -> Nat]
    BY <1>1, <2>1 DEF BotTypes
  <2> HIDE DEF key
  <2>3. BotTypes' /\ \A s : Spoken(s)' => Spoken(s) \/ s = "staged"
    BY <1>1, <2>1, <2>2, PostsKeepTypes
  <2>4. RunsAreFresh'
    <3>1. DOMAIN parked' \subseteq DOMAIN parked \cup {key}
      BY <2>1
    <3>2. \A k \in Keys : k \in Nat /\ (k <= lastKey => k <= lastKey')
      BY <2>1, <2>2, DeskAssumption
    <3>3. key \in Nat /\ ~(key <= lastKey)
      BY <2>1, <2>2
    <3>4. ran[key] = 0 /\ Running(key) = {}
      BY <1>1, <2>1, <2>2, <3>3 DEF RunsAreFresh, Running
    <3>5. key <= lastKey'
      BY <2>1, <3>3
    <3>6. \A k : Running(k)' = Running(k)
      BY <2>1 DEF Running
    <3>7. \A k \in DOMAIN parked' : k \in Keys /\ k <= lastKey' /\ ran'[k] = 0 /\ Running(k)' = {}
      <4> TAKE k \in DOMAIN parked'
      <4>1. CASE k = key
        BY <2>1, <3>4, <3>5, <3>6, <4>1
      <4>2. CASE k # key
        <5>1. k \in Keys /\ k <= lastKey /\ ran[k] = 0 /\ Running(k) = {}
          BY <1>1, <3>1, <4>2 DEF RunsAreFresh
        <5> QED BY <2>1, <3>2, <3>6, <5>1
      <4> QED BY <4>1, <4>2
    <3>8. /\ \A u \in Calls : update'[u].pc = "runs" => update'[u].about \in Keys
          /\ \A u \in Calls, k \in Keys : u \in Running(k)' =>
               k <= lastKey' /\ ran'[k] = 0 /\ confirms'[k] >= 1 /\ Running(k)' = {u}
      BY <1>1, <2>1, <3>2, <3>6 DEF RunsAreFresh
    <3>9. \A k \in Keys : ran'[k] <= 1 /\ ran'[k] <= confirms'[k] /\ (ran'[k] > 0 => k <= lastKey')
      BY <1>1, <2>1, <3>2 DEF RunsAreFresh
    <3> QED BY <3>7, <3>8, <3>9 DEF RunsAreFresh
  <2>5. OneSends' /\ EchoedFirst' /\ SomebodyKicks'
    BY <1>1, <2>1, <2>3, SendsStay, EchoStays, KicksStay DEF Paying
  <2> QED BY <2>3, <2>4, <2>5 DEF BotInv
<1>3. ASSUME NEW k \in Keys, Bot!grows(k) PROVE BotInv'
  <2>1. /\ parked' = [parked EXCEPT ![k] = "old"]
        /\ UNCHANGED <<domain, large, withdrawal, paid, refunds, garbled, echoed, account, online,
                       handshake, cached, slipped, confirms, ran, lastKey, chat, posts, update>>
    BY <1>3 DEF Bot!grows, Bot!wdVars, Bot!usVars
  <2>2. \A s : Spoken(s)' <=> Spoken(s)
    BY <2>1 DEF Spoken
  <2>3. BotTypes'
    BY <1>1, <2>1, <2>2 DEF BotTypes, UsTypes
  <2>4. RunsAreFresh'
    <3>1. DOMAIN parked' = DOMAIN parked
      BY <2>1
    <3> QED BY <1>1, <2>1, <3>1 DEF RunsAreFresh, Running
  <2>5. OneSends' /\ EchoedFirst' /\ SomebodyKicks'
    BY <1>1, <2>1, <2>2, SendsStay, EchoStays, KicksStay DEF Paying
  <2> QED BY <2>3, <2>4, <2>5 DEF BotInv
<1>4. ASSUME NEW u \in Calls, Bot!run(u) PROVE BotInv'
  <2> DEFINE m == update[u].m
             k == update[u].about
             text(t) == [says |-> t, about |-> 0]
  <2>1. /\ update[u].pc = "runs"
        /\ \E t \in {"done", "failed"} :
             /\ Bot!Become(u, [pc |-> "edits", m |-> m, about |-> text(t)])
             /\ ran' \in {ran, [ran EXCEPT ![k] = @ + 1]}
        /\ UNCHANGED <<domain, large, withdrawal, paid, refunds, garbled, echoed, account, online,
                       handshake, cached, slipped, parked, confirms, lastKey, chat, posts>>
    BY <1>4 DEF Bot!run, Bot!Edits, Bot!At, Bot!wdVars, Bot!usVars
  <2>2. PICK t \in {"done", "failed"} :
             /\ Bot!Become(u, [pc |-> "edits", m |-> m, about |-> text(t)])
             /\ ran' \in {ran, [ran EXCEPT ![k] = @ + 1]}
    BY <2>1
  <2>3. m \in Places /\ "edits" \in BotSteps \ {"idle"} /\ "edits" \notin WdSteps
        /\ text(t).says = t /\ t \notin {"row", "confirm"}
    BY <1>1, <2>1 DEF BotTypes, BotSteps, WdSteps
  <2>4. k \in Keys /\ k <= lastKey /\ ran[k] = 0 /\ confirms[k] >= 1 /\ Running(k) = {u}
    <3>1. k \in Keys /\ u \in Running(k)
      BY <1>1, <2>1 DEF RunsAreFresh, Running
    <3> QED BY <1>1, <3>1 DEF RunsAreFresh
  <2> HIDE DEF m, k, text
  <2>5. ran' \in [Keys -> Nat] /\ ran'[k] \in {0, 1} /\ \A j \in Keys : j # k => ran'[j] = ran[j]
    BY <1>1, <2>2, <2>4 DEF BotTypes
  <2>6. /\ withdrawal' \in {"pending", "completed", "reversed", "rejected"}
        /\ paid' \in Nat /\ refunds' \in Nat /\ garbled' \in BOOLEAN /\ echoed' \in BOOLEAN /\ UsTypes'
        /\ confirms' \in [Keys -> Nat]
    BY <1>1, <2>1 DEF BotTypes, UsTypes
  <2>7. /\ BotTypes' /\ update'[u].pc = "edits"
        /\ \A v \in Calls : v # u => update'[v] = update[v]
        /\ \A s : Spoken(s)' => Spoken(s) \/ s = t
    BY <1>1, <2>1, <2>2, <2>3, <2>5, <2>6, BotTypesStep
  <2>8. RunsAreFresh'
    <3>1. \A j : Running(j)' = Running(j) \ {u}
      BY <2>7 DEF Running
    <3>2. k \notin DOMAIN parked
      BY <1>1, <2>4 DEF RunsAreFresh
    <3>3. \A v \in Calls : v # u /\ update[v].pc = "runs" => update[v].about # k
      BY <2>4 DEF Running
    <3>4. \A j \in DOMAIN parked : j \in Keys /\ j <= lastKey /\ ran'[j] = 0 /\ Running(j)' = {}
      BY <1>1, <2>5, <3>1, <3>2 DEF RunsAreFresh
    <3>5. /\ \A v \in Calls : update'[v].pc = "runs" => update'[v].about \in Keys
          /\ \A v \in Calls, j \in Keys : v \in Running(j)' =>
               j <= lastKey /\ ran'[j] = 0 /\ confirms[j] >= 1 /\ Running(j)' = {v}
      <4>1. \A v \in Calls : update'[v].pc = "runs" => update'[v].about \in Keys
        BY <1>1, <2>7 DEF RunsAreFresh
      <4>2. ASSUME NEW v \in Calls, NEW j \in Keys, v \in Running(j)'
            PROVE  j <= lastKey /\ ran'[j] = 0 /\ confirms[j] >= 1 /\ Running(j)' = {v}
        <5>1. v # u /\ v \in Running(j)
          BY <3>1, <4>2
        <5>2. j # k
          BY <3>3, <5>1 DEF Running
        <5>3. j <= lastKey /\ ran[j] = 0 /\ confirms[j] >= 1 /\ Running(j) = {v}
          BY <1>1, <5>1 DEF RunsAreFresh
        <5> QED BY <2>5, <3>1, <5>1, <5>2, <5>3
      <4> QED BY <4>1, <4>2
    <3>6. \A j \in Keys : ran'[j] <= 1 /\ ran'[j] <= confirms[j] /\ (ran'[j] > 0 => j <= lastKey)
      <4> TAKE j \in Keys
      <4>1. confirms[j] \in Nat
        BY <1>1 DEF BotTypes
      <4> QED BY <1>1, <2>4, <2>5, <4>1 DEF RunsAreFresh
    <3> QED BY <2>1, <3>4, <3>5, <3>6 DEF RunsAreFresh
  <2>9. OneSends' /\ EchoedFirst' /\ SomebodyKicks'
    BY <1>1, <2>1, <2>7, SendsStay, EchoStays, KicksStay DEF Paying
  <2> QED BY <2>7, <2>8, <2>9 DEF BotInv
<1>5. ASSUME NEW u \in Calls, NEW m \in Messages, NEW a \in {"ok", "no", "cfm", "x"}, Bot!handlePendingTap(u, m, a)
      PROVE  BotInv'
  <2> DEFINE k == chat[m].about
             w == [says |-> IF a = "x" THEN "cancelled" ELSE "expired", about |-> 0]
  <2>1. /\ domain = "pa" /\ update[u].pc = "idle" /\ a \in Bot!Buttons(chat[m])
        /\ confirms' = [confirms EXCEPT ![k] = IF a = "ok" THEN @ + 1 ELSE @]
        /\ parked' = [j \in DOMAIN parked \ {k} |-> parked[j]]
        /\ \/ Bot!Become(u, [pc |-> "edits", m |-> m, about |-> w])
           \/ a # "x" /\ k \in DOMAIN parked /\ Bot!Become(u, [pc |-> "runs", m |-> m, about |-> k])
        /\ UNCHANGED <<domain, large, withdrawal, paid, refunds, garbled, echoed, account, online,
                       handshake, cached, slipped, ran, lastKey, chat, posts>>
    BY <1>5 DEF Bot!handlePendingTap, Bot!unstages, Bot!Idle, Bot!At, Bot!wdVars, Bot!usVars
  <2>2. a \in {"ok", "x"}
    <3>1. chat[m].says \notin {"row", "confirm"}
      BY <1>1, <2>1 DEF BotTypes, Spoken
    <3> QED BY <2>1, <3>1 DEF Bot!Buttons, Bot!AccountStates
  <2>3. w.says \in {"cancelled", "expired"} /\ w.says \notin {"row", "confirm"} /\ "edits" \notin WdSteps
    BY DEF WdSteps
  <2> HIDE DEF k, w
  <2>4. /\ confirms' \in [Keys -> Nat]
        /\ \A j \in Keys : confirms'[j] >= confirms[j]
        /\ a = "ok" /\ k \in Keys => confirms'[k] >= 1
    <3>1. confirms \in [Keys -> Nat]
      BY <1>1 DEF BotTypes
    <3>2. CASE k \in Keys
      <4>1. confirms'[k] = (IF a = "ok" THEN confirms[k] + 1 ELSE confirms[k])
            /\ (\A j \in Keys : j # k => confirms'[j] = confirms[j])
            /\ DOMAIN confirms' = Keys /\ confirms' = [j \in Keys |-> confirms'[j]]
        BY <2>1, <3>1, <3>2
      <4>2. confirms'[k] \in Nat /\ confirms'[k] >= confirms[k] /\ (a = "ok" => confirms'[k] >= 1)
        BY <3>1, <3>2, <4>1
      <4> QED BY <3>1, <4>1, <4>2
    <3>3. CASE k \notin Keys
      <4>1. confirms' = confirms
        BY <2>1, <3>1, <3>3
      <4>2. \A j \in Keys : confirms[j] \in Nat
        BY <3>1
      <4> QED BY <3>1, <3>3, <4>1, <4>2
    <3> QED BY <3>2, <3>3
  <2>5. /\ withdrawal' \in {"pending", "completed", "reversed", "rejected"}
        /\ paid' \in Nat /\ refunds' \in Nat /\ garbled' \in BOOLEAN /\ echoed' \in BOOLEAN /\ UsTypes'
        /\ ran' \in [Keys -> Nat]
    BY <1>1, <2>1 DEF BotTypes, UsTypes
  <2>6. \A j \in Keys : ran[j] \in Nat /\ confirms[j] \in Nat /\ confirms'[j] \in Nat
    BY <1>1, <2>4 DEF BotTypes
  <2>7. DOMAIN parked' = DOMAIN parked \ {k}
    BY <2>1
  <2>8. \A j \in Keys : ran[j] <= 1 /\ ran[j] <= confirms'[j] /\ (ran[j] > 0 => j <= lastKey)
    BY <1>1, <2>4, <2>6 DEF RunsAreFresh
  <2>9. /\ \A v \in Calls : update[v].pc = "runs" => update[v].about \in Keys
        /\ \A v \in Calls, j \in Keys : v \in Running(j) =>
             j <= lastKey /\ ran[j] = 0 /\ confirms'[j] >= 1 /\ Running(j) = {v}
    BY <1>1, <2>4, <2>6 DEF RunsAreFresh
  <2>10. CASE Bot!Become(u, [pc |-> "edits", m |-> m, about |-> w])
    <3>1. "edits" \in BotSteps \ {"idle"}
      BY DEF BotSteps
    <3>2. /\ BotTypes' /\ update'[u].pc = "edits"
          /\ \A v \in Calls : v # u => update'[v] = update[v]
          /\ \A s : Spoken(s)' => Spoken(s) \/ s \in {"cancelled", "expired"}
      BY <1>1, <2>1, <2>3, <2>4, <2>5, <2>10, <3>1, BotTypesStep DEF Places
    <3>3. \A j : Running(j)' = Running(j)
      BY <2>1, <3>2 DEF Running
    <3>4. RunsAreFresh'
      BY <1>1, <2>1, <2>7, <2>8, <2>9, <3>2, <3>3 DEF RunsAreFresh
    <3>5. OneSends' /\ EchoedFirst' /\ SomebodyKicks'
      BY <1>1, <2>1, <3>2, SendsStay, EchoStays, KicksStay DEF Paying
    <3> QED BY <3>2, <3>4, <3>5 DEF BotInv
  <2>11. CASE a # "x" /\ k \in DOMAIN parked /\ Bot!Become(u, [pc |-> "runs", m |-> m, about |-> k])
    <3>1. "runs" \in BotSteps \ {"idle"} /\ "runs" \notin WdSteps
      BY DEF BotSteps, WdSteps
    <3>2. /\ BotTypes' /\ update'[u].pc = "runs" /\ update'[u].about = k
          /\ \A v \in Calls : v # u => update'[v] = update[v]
          /\ \A s : Spoken(s)' => Spoken(s)
      BY <1>1, <2>1, <2>4, <2>5, <2>11, <3>1, BotTypesStep DEF Places
    <3>3. k \in Keys /\ k <= lastKey /\ ran[k] = 0 /\ Running(k) = {}
      BY <1>1, <2>11 DEF RunsAreFresh
    <3>4. confirms'[k] >= 1
      BY <2>2, <2>4, <2>11, <3>3
    <3> DEFINE runners(j) == {v \in Calls : update'[v].pc = "runs" /\ update'[v].about = j}
    <3>5. runners(k) = {u} /\ \A j : j # k => runners(j) = Running(j)
      BY <2>1, <3>2, <3>3 DEF Running
    <3>6. \A v \in Calls : update'[v].pc = "runs" => update'[v].about \in Keys
      BY <2>9, <3>2, <3>3
    <3>7. \A j \in DOMAIN parked' : j \in Keys /\ j <= lastKey /\ ran[j] = 0 /\ runners(j) = {}
      BY <1>1, <2>7, <3>5 DEF RunsAreFresh
    <3>8. \A v \in Calls, j \in Keys : v \in runners(j) =>
            j <= lastKey /\ ran[j] = 0 /\ confirms'[j] >= 1 /\ runners(j) = {v}
      BY <2>9, <3>3, <3>4, <3>5
    <3> HIDE DEF k
    <3>9. RunsAreFresh'
      BY <2>1, <2>8, <3>6, <3>7, <3>8 DEF RunsAreFresh, Running
    <3>10. OneSends' /\ EchoedFirst' /\ SomebodyKicks'
      BY <1>1, <2>1, <3>2, SendsStay, EchoStays, KicksStay DEF Paying
    <3> QED BY <3>2, <3>9, <3>10 DEF BotInv
  <2> QED BY <2>1, <2>10, <2>11
<1> QED BY <1>2, <1>3, <1>4, <1>5

LEMMA BotStep == BotInv /\ Bot!Next => BotInv'
BY WithdrawalsKeepBot, AccountsKeepBot, StagedKeepBot DEF Bot!Next

LEMMA BotHolds == BotInv => Bot!DecidedOnce /\ Bot!LargeIsEchoed /\ Bot!BlockedAreOut /\ Bot!StagedRunOnce
<1> SUFFICES ASSUME BotInv PROVE Bot!DecidedOnce /\ Bot!LargeIsEchoed /\ Bot!BlockedAreOut /\ Bot!StagedRunOnce
  OBVIOUS
<1>1. Bot!DecidedOnce
  <2>1. paid + refunds <= 1 + (IF garbled THEN 1 ELSE 0)
    <3>1. paid \in {0, 1} /\ refunds \in {0, 1} /\ (paid = 1 /\ refunds = 1 => garbled)
      BY DEF BotInv, BotTypes, OneSends
    <3> QED BY <3>1
  <2>2. \A t : Bot!Says(t) # {} => Spoken(t)
    BY DEF Bot!Says, Spoken
  <2> QED BY <2>1, <2>2 DEF BotInv, OneSends, Bot!DecidedOnce
<1>2. Bot!LargeIsEchoed /\ Bot!StagedRunOnce
  BY DEF BotInv, EchoedFirst, Paying, RunsAreFresh, Bot!LargeIsEchoed, Bot!StagedRunOnce
<1>3. Bot!BlockedAreOut
  BY DEF BotInv, SomebodyKicks, Kicking, Bot!BlockedAreOut
<1> QED BY <1>1, <1>2, <1>3

-----------------------------------------------------------------------------
(* The parts in one specification: a step is of one part, and the others   *)
(* stay.                                                                   *)

LEMMA AuthStays == AuthInv /\ UNCHANGED authVars => AuthInv'
BY DEF AuthInv, authVars, AuthTypes, VersionsTell, Current, CallsKnowTheirRow, FamiliesBegin,
       Succeeds, SuccessorIsAwaited, Auth!OneLiveToken, Auth!Rows

LEMMA PrizesStay == PrizesInv /\ UNCHANGED prizesVars => PrizesInv'
<1> SUFFICES ASSUME PrizesInv, UNCHANGED prizesVars PROVE PrizesInv'
  OBVIOUS
<1>1. PrizesTypes' /\ LockIsHeld' /\ GiftIsFresh'
  BY DEF PrizesInv, prizesVars, PrizesTypes, LockIsHeld, GiftIsFresh
<1>2. XpIsRecorded' /\ OnceRecorded' /\ Prizes!PaidIsOwned'
  BY DEF PrizesInv, prizesVars, XpIsRecorded, OnceRecorded, Due, At, Prizes!PaidIsOwned
<1> QED BY <1>1, <1>2 DEF PrizesInv

LEMMA PanelStays == PanelInv /\ UNCHANGED panelVars => PanelInv'
<1> SUFFICES ASSUME PanelInv, UNCHANGED panelVars PROVE PanelInv'
  OBVIOUS
<1>1. PanelTypes' /\ StagedIsFresh'
  BY DEF PanelInv, panelVars, PanelTypes, StagedIsFresh, Adjustments, Panel!Accounts
<1>2. MovesFit'
  BY DEF PanelInv, panelVars, MovesFit, Moves, Ceiling, Panel!Accounts
<1>3. ChangesAreBounded' /\ PowersHold'
  BY DEF PanelInv, panelVars, ChangesAreBounded, PowersHold, Powers, AnotherIsFull, Panel!Accounts
<1> QED BY <1>1, <1>2, <1>3 DEF PanelInv

LEMMA GateStays == GateInv /\ UNCHANGED limitsVars => GateInv'
BY DEF GateInv, limitsVars, GateTypes, LossesFit, VowsStand, Bets

LEMMA WatchStays == WatchInv /\ UNCHANGED watchVars => WatchInv'
BY DEF WatchInv, watchVars, WatchTypes, Limits!PairsAreFlagged, Limits!Filed

LEMMA DeskStays == DeskInv /\ UNCHANGED deskVars => DeskInv'
<1> SUFFICES ASSUME DeskInv, UNCHANGED deskVars PROVE DeskInv'
  OBVIOUS
<1>1. BotSideInv'
  BY DEF DeskInv, deskVars, BotSideInv, BotSideTypes, Desk!OnePromptOneAnswer, Desk!AnswersAreTold
<1>2. PageSideInv'
  BY PageSideKept DEF DeskInv, deskVars
<1> QED BY <1>1, <1>2 DEF DeskInv

LEMMA BotStays == BotInv /\ UNCHANGED botVars => BotInv'
<1> SUFFICES ASSUME BotInv, UNCHANGED botVars PROVE BotInv'
  OBVIOUS
<1>1. UNCHANGED <<domain, large, withdrawal, paid, refunds, garbled, echoed, account, online, handshake,
                  cached, slipped, parked, confirms, ran, lastKey, chat, update>>
  BY DEF botVars
<1>2. \A text : Spoken(text)' <=> Spoken(text)
  BY <1>1 DEF Spoken
<1>3. BotTypes'
  BY <1>1, <1>2 DEF BotInv, BotTypes, UsTypes
<1>4. OneSends' /\ EchoedFirst' /\ SomebodyKicks' /\ RunsAreFresh'
  BY <1>1, <1>2, SendsStay, EchoStays, KicksStay, RunsStay DEF BotInv, Paying
<1> QED BY <1>3, <1>4 DEF BotInv

PeopleInv ==
    /\ AuthInv /\ PrizesInv /\ PanelInv /\ Deals!FairnessInv
    /\ GateInv /\ WatchInv /\ DeskInv /\ BotInv

LEMMA PeopleInvHolds == PeopleSpec => []PeopleInv
<1>1. PeopleInit => PeopleInv
  BY AuthInit, PrizesInit, PanelInit, FairnessInit, GateInitial, WatchInitial, DeskInit, BotInit
     DEF PeopleInit, PeopleInv
<1>2. PeopleInv /\ [PeopleNext]_peopleVars => PeopleInv'
  <2> SUFFICES ASSUME PeopleInv, [PeopleNext]_peopleVars PROVE PeopleInv'
    OBVIOUS
  <2>1. AuthInv'
    BY AuthStep, AuthStays DEF PeopleNext, peopleVars, PeopleInv
  <2>2. PrizesInv'
    BY PrizesStep, PrizesStay DEF PeopleNext, peopleVars, PeopleInv
  <2>3. PanelInv'
    BY PanelStep, PanelStays DEF PeopleNext, peopleVars, PeopleInv
  <2>4. Deals!FairnessInv'
    <3>1. [Deals!Next]_Deals!fairVars
      BY DEF PeopleNext, peopleVars, dealsVars, Deals!fairVars
    <3> QED BY <3>1, FairnessStep DEF PeopleInv
  <2>5. GateInv'
    BY GateStep, GateStays DEF PeopleNext, peopleVars, PeopleInv
  <2>6. WatchInv'
    BY WatchStep, WatchStays DEF PeopleNext, peopleVars, PeopleInv
  <2>7. DeskInv'
    BY DeskStep, DeskStays DEF PeopleNext, peopleVars, PeopleInv
  <2>8. BotInv'
    BY BotStep, BotStays DEF PeopleNext, peopleVars, PeopleInv
  <2> QED BY <2>1, <2>2, <2>3, <2>4, <2>5, <2>6, <2>7, <2>8 DEF PeopleInv
<1> QED BY <1>1, <1>2, PTL DEF PeopleSpec

\* authService.ts refresh() and revokeAllSessions(), tokenService.ts: no session outlives
\* what ended it, and of a family of refresh tokens one is live, however rotations,
\* logins, logouts and resets overlap and fail half way.
THEOREM SessionsEndForGood == PeopleSpec => []SessionsAreSound
BY PeopleInvHolds, SessionsEnd, PTL DEF PeopleInv, SessionsAreSound

\* rewardsService.ts, claims and purchases: a claim grants its XP once, and once more for
\* each record that was lost after it, whether the failure ended the claim or was
\* swallowed; what was charged is owned.
THEOREM RewardsGrantedOnce == PeopleSpec => []RewardsAreExact
BY PeopleInvHolds, PrizesAreExact, PTL DEF PeopleInv, RewardsAreExact

\* adminAdjustPolicy.ts, adminRoutes.ts, adminBot.ts: what one administrator credits or
\* debits in a day stays under the ceiling, passed only by what was let through while the
\* day's sum could not be read; a deposit is credited and a staged action run once, the
\* owner stays an administrator and scoped administrators together make no full one.
THEOREM PowersAreKept == PeopleSpec => []AdminsAreBounded
BY PeopleInvHolds, PanelIsBounded, PTL DEF PeopleInv, AdminsAreBounded

\* gateway.ts maybeStartCountdown() and startMatch(), compliance/ and antiCheat/: a deal
\* follows its commitment, exclusions and limits hold as they were confirmed, and no
\* pair of opponents gets past the threshold unflagged.
THEOREM DealsAndLimitsAreFair == PeopleSpec => []PlayIsFair
BY PeopleInvHolds, FairnessInvImplies, GateHolds, PTL DEF PeopleInv, WatchInv, PlayIsFair

\* supportRoutes.ts, SupportView.tsx and adminBot.ts: a prompt takes one answer, the
\* player is told what the ticket shows but for a quick answer that could not be audited,
\* and no list is ready unread; a withdrawal is decided once, and echoed first when it is
\* large and pressed; a staged action runs once; who is blocked is put out, but for whom
\* an answer from before let in or nobody was told to drop.
THEOREM DesksAnswerTruly == PeopleSpec => []DesksAreSound
BY PeopleInvHolds, DeskHolds, BotHolds, PTL DEF PeopleInv, DesksAreSound
=============================================================================
