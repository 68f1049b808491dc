--------------------------- MODULE SessionsProofs ---------------------------
(***************************************************************************)
(* Proofs about Sessions, for any pairs, requests, lifetimes and faults.   *)
(***************************************************************************)
EXTENDS Sessions, FiniteSetTheorems, TLAPS

(***************************************************************************)
(* Times.                                                                  *)
(***************************************************************************)
LEMMA DivNat ==
    ASSUME NEW m \in Nat \ {0}, NEW a \in Nat
    PROVE  /\ a \div m \in Nat
           /\ (a \div m) * m \in Nat
           /\ (a \div m) * m <= a
           /\ a < (a \div m) * m + m
  OBVIOUS

\* Rounding down to a minute keeps the order of two times.
LEMMA FloorMonotone ==
    ASSUME NEW m \in Nat \ {0}, NEW a \in Nat, NEW b \in Nat, a <= b
    PROVE  (a \div m) * m <= (b \div m) * m
  <1> DEFINE x == a \div m
             y == b \div m
  <1>1. x \in Nat /\ y \in Nat /\ x * m <= a /\ b < y * m + m
    BY DivNat
  <1> HIDE DEF x, y
  <1>2. CASE x <= y
    BY <1>1, <1>2
  <1>3. CASE y + 1 <= x
    <2>1. (y + 1) * m <= x * m
      BY <1>1, <1>3
    <2>2. (y + 1) * m = y * m + m
      BY <1>1
    <2>3. y * m \in Nat /\ x * m \in Nat
      BY <1>1
    <2> QED BY <1>1, <2>1, <2>2, <2>3
  <1>4. x * m <= y * m
    BY <1>1, <1>2, <1>3
  <1> QED BY <1>4 DEF x, y

LEMMA TimesNat ==
    ASSUME TypeOK, NEW t \in Tokens
    PROVE  /\ t[2] \in Pairs /\ t[1] \in {"access", "refresh"} /\ t = <<t[1], t[2]>>
           /\ TTL(t) \in Nat /\ Exp(t) \in Nat /\ HoldsUntil(t) \in Nat
  <1>1. t[2] \in Pairs /\ t[1] \in {"access", "refresh"} /\ t = <<t[1], t[2]>>
    BY DEF Tokens
  <1>2. TTL(t) \in Nat
    BY SessionBounds DEF TTL
  <1>3. iat[t[2]] \in Nat
    BY <1>1, SessionBounds DEF TypeOK
  <1>4. Exp(t) \in Nat
    BY <1>2, <1>3 DEF Exp
  <1>5. (Exp(t) \div Minute) * Minute \in Nat
    BY <1>4, DivNat, SessionBounds
  <1> QED BY <1>1, <1>2, <1>4, <1>5 DEF HoldsUntil

LEMMA MinusNat ==
    ASSUME NEW a \in Nat, NEW b \in Nat
    PROVE  Minus(a, b) \in Nat /\ b + Minus(a, b) >= a
  BY DEF Minus

(***************************************************************************)
(* A stored revocation holds: the entry of a token revoked for at least    *)
(* its remaining lifetime lapses no earlier than HoldsUntil says, in       *)
(* either deployment and wherever in the minute SQLite drops it.           *)
(***************************************************************************)
LEMMA LapsesHold ==
    ASSUME TypeOK, NEW t \in Tokens, NEW e \in Nat, e >= Exp(t), NEW l \in Lapses(e)
    PROVE  l \in Nat /\ HoldsUntil(t) <= l
  <1>1. Exp(t) \in Nat /\ Minute \in Nat \ {0}
    BY TimesNat, SessionBounds
  <1>2. CASE mode = "full"
    BY <1>1, <1>2 DEF Lapses, HoldsUntil
  <1>3. CASE mode # "full"
    <2> DEFINE x == (e \div Minute) * Minute
               y == (Exp(t) \div Minute) * Minute
    <2>1. x \in Nat /\ y \in Nat
      BY <1>1, DivNat
    <2>2. y <= x
      BY <1>1, FloorMonotone
    <2>3. PICK s \in 1 .. Minute : l = x + s
      BY <1>3 DEF Lapses
    <2>4. HoldsUntil(t) = y + 1
      BY <1>3 DEF HoldsUntil
    <2> HIDE DEF x, y
    <2> QED BY <1>1, <2>1, <2>2, <2>3, <2>4
  <1> QED BY <1>2, <1>3

LEMMA RevokeFacts ==
    ASSUME TypeOK, NEW t \in Tokens, NEW ttl \in Nat, clock + ttl >= Exp(t), Revoke(t, ttl)
    PROVE  /\ until' \in [Tokens -> Nat]
           /\ faults' \in 0 .. MaxFaults
           /\ lost' \subseteq Pairs
           /\ revoked' \subseteq Tokens
           /\ \/ until' = until /\ revoked' = revoked
              \/ /\ revoked' = revoked \cup {t}
                 /\ HoldsUntil(t) <= until'[t]
                 /\ \A s \in Tokens \ {t} : until'[s] = until[s]
  <1>1. CASE \E e \in Lapses(clock + ttl) :
                /\ until' = [until EXCEPT ![t] = e]
                /\ revoked' = revoked \cup {t} /\ faults' = faults /\ lost' = lost
    <2>1. clock + ttl \in Nat
      BY SessionBounds DEF TypeOK
    <2>2. PICK e \in Lapses(clock + ttl) : until' = [until EXCEPT ![t] = e]
      BY <1>1
    <2>3. e \in Nat /\ HoldsUntil(t) <= e
      BY <2>1, <2>2, LapsesHold
    <2> QED BY <1>1, <2>2, <2>3 DEF TypeOK
  <1>2. CASE until' = until /\ revoked' = revoked /\ faults' = faults /\ lost' = lost
    BY <1>2 DEF TypeOK
  <1>3. CASE Fault /\ lost' = lost \cup {t[2]} /\ until' = until /\ revoked' = revoked
    BY <1>3, SessionBounds, TimesNat DEF Fault, TypeOK
  <1> QED BY <1>1, <1>2, <1>3 DEF Revoke

(***************************************************************************)
(* The invariant: what a refresh will hand out is signed, its clock        *)
(* reading is past, and every stored revocation is of a signed token and   *)
(* lasts long enough.                                                      *)
(***************************************************************************)
RotatedSigned == \A r \in Requests : pc[r] = "rotated" => new[r] \in issued

ReadingPast == \A r \in Requests : now[r] <= clock

EntriesHold == \A t \in revoked : t[2] \in issued /\ HoldsUntil(t) <= until[t]

SessionInv == TypeOK /\ RotatedSigned /\ ReadingPast /\ EntriesHold /\ RevokedRefused

LEMMA SessionInit == Init => SessionInv
  <1> SUFFICES ASSUME Init PROVE SessionInv
    OBVIOUS
  <1>1. faults \in 0 .. MaxFaults /\ clock \in 0 .. MaxClock
    BY SessionBounds DEF Init
  <1>2. /\ until \in [Tokens -> Nat] /\ iat \in [Pairs -> 0 .. MaxClock]
        /\ now \in [Requests -> 0 .. MaxClock] /\ children \in [Pairs -> Nat]
    BY SessionBounds DEF Init
  <1>3. pc \in [Requests -> {"idle", "checked", "rotated"}] /\ \A r \in Requests : pc[r] = "idle"
    BY DEF Init
  <1>4. TypeOK
    BY <1>1, <1>2, <1>3 DEF Init, TypeOK
  <1>5. RotatedSigned /\ ReadingPast /\ EntriesHold /\ RevokedRefused
    BY <1>3 DEF Init, RotatedSigned, ReadingPast, EntriesHold, RevokedRefused
  <1> QED BY <1>4, <1>5 DEF SessionInv

\* A token is accepted only if no stored revocation should stop it.
LEMMA AcceptHolds ==
    ASSUME SessionInv, NEW t \in Tokens, ~Listed(t), Accept(t)
    PROVE  RevokedRefused'
  <1>1. clock \in Nat /\ HoldsUntil(t) \in Nat /\ until[t] \in Nat
    BY TimesNat, SessionBounds DEF SessionInv, TypeOK
  <1>2. ~(t \in revoked /\ clock < HoldsUntil(t))
    BY <1>1 DEF SessionInv, EntriesHold, Listed
  <1> QED BY <1>2 DEF Accept, SessionInv, RevokedRefused

\* Entries still hold after a step that signs at most a fresh pair and revokes at
\* most one signed token for long enough.
LEMMA EntriesKept ==
    ASSUME SessionInv, mode' = mode, issued \subseteq issued',
           \A p \in issued : iat'[p] = iat[p],
           NEW t \in Tokens, t[2] \in issued,
           \/ until' = until /\ revoked' = revoked
           \/ /\ revoked' = revoked \cup {t}
              /\ HoldsUntil(t) <= until'[t]
              /\ \A s \in Tokens \ {t} : until'[s] = until[s]
    PROVE  EntriesHold'
  <1> SUFFICES ASSUME NEW s \in revoked' PROVE s[2] \in issued' /\ HoldsUntil(s)' <= until'[s]
    BY DEF EntriesHold
  <1>1. s[2] \in issued
    BY DEF SessionInv, EntriesHold
  <1>2. HoldsUntil(s)' = HoldsUntil(s)
    BY <1>1 DEF HoldsUntil, Exp, TTL
  <1>3. HoldsUntil(s) <= until'[s]
    BY DEF SessionInv, EntriesHold, TypeOK
  <1> QED BY <1>1, <1>2, <1>3

\* The same for a step that revokes nothing.
LEMMA EntriesSame ==
    ASSUME SessionInv, mode' = mode, issued \subseteq issued',
           \A p \in issued : iat'[p] = iat[p], until' = until, revoked' = revoked
    PROVE  EntriesHold'
  <1> SUFFICES ASSUME NEW s \in revoked' PROVE s[2] \in issued' /\ HoldsUntil(s)' <= until'[s]
    BY DEF EntriesHold
  <1>1. s[2] \in issued /\ HoldsUntil(s) <= until[s]
    BY DEF SessionInv, EntriesHold
  <1>2. HoldsUntil(s)' = HoldsUntil(s)
    BY <1>1 DEF HoldsUntil, Exp, TTL
  <1> QED BY <1>1, <1>2

\* Signing a pair.
LEMMA SignFacts ==
    ASSUME TypeOK, NEW p \in Pairs, Sign(p)
    PROVE  /\ issued \subseteq issued' /\ issued' \subseteq Pairs /\ p \in issued'
           /\ iat' \in [Pairs -> 0 .. MaxClock]
           /\ \A q \in issued : iat'[q] = iat[q]
  BY DEF Sign, TypeOK

\* Ending a request: the others keep what they know.
LEMMA DoneFacts ==
    ASSUME SessionInv, NEW r \in Requests, Done(r), clock' = clock,
           issued' = issued, held \subseteq held'
    PROVE  /\ pc' \in [Requests -> {"idle", "checked", "rotated"}]
           /\ old' \in [Requests -> Pairs \cup {None}]
           /\ new' \in [Requests -> Pairs \cup {None}]
           /\ now' \in [Requests -> 0 .. MaxClock]
           /\ \A q \in Requests : pc'[q] # "idle" => old'[q] \in held'
           /\ RotatedSigned' /\ ReadingPast'
  <1>1. /\ pc' \in [Requests -> {"idle", "checked", "rotated"}]
        /\ old' \in [Requests -> Pairs \cup {None}]
        /\ new' \in [Requests -> Pairs \cup {None}]
    BY DEF Done, SessionInv, TypeOK
  <1>2. now' \in [Requests -> 0 .. MaxClock]
    BY SessionBounds DEF Done, SessionInv, TypeOK
  <1>3. ASSUME NEW q \in Requests
        PROVE /\ pc'[q] # "idle" => old'[q] \in held'
              /\ pc'[q] = "rotated" => new'[q] \in issued'
              /\ now'[q] <= clock'
    <2>1. CASE q = r
      BY <2>1, SessionBounds DEF Done, SessionInv, TypeOK
    <2>2. CASE q # r
      BY <2>2 DEF Done, SessionInv, TypeOK, RotatedSigned, ReadingPast
    <2> QED BY <2>1, <2>2
  <1> QED BY <1>1, <1>2, <1>3 DEF RotatedSigned, ReadingPast

LEMMA SessionNext == SessionInv /\ [Next]_vars => SessionInv'
  <1> SUFFICES ASSUME SessionInv, [Next]_vars PROVE SessionInv'
    OBVIOUS
  <1>0. TypeOK /\ RotatedSigned /\ ReadingPast /\ EntriesHold /\ RevokedRefused
    BY DEF SessionInv
  <1>1. ASSUME NEW p \in Pairs, Login(p) PROVE SessionInv'
    <2>1. Sign(p) /\ held' = held \cup {p}
      BY <1>1 DEF Login
    <2>2. TypeOK'
      BY <1>0, <1>1, <2>1, SignFacts DEF Login, TypeOK, requests, traces
    <2>3. EntriesHold'
      BY <1>0, <1>1, <2>1, SignFacts, EntriesSame DEF Login
    <2>4. RotatedSigned' /\ ReadingPast' /\ RevokedRefused'
      BY <1>0, <1>1, <2>1, SignFacts DEF Login, requests, traces, RotatedSigned, ReadingPast, RevokedRefused
    <2> QED BY <2>2, <2>3, <2>4 DEF SessionInv
  <1>2. ASSUME NEW r \in Requests, NEW p \in Pairs, RefreshCheck(r, p) PROVE SessionInv'
    <2> DEFINE t == <<"refresh", p>>
    <2>1. t \in Tokens /\ ~Listed(t) /\ Accept(t) /\ Presented(r, p) /\ p \in held
      BY <1>2 DEF RefreshCheck, Presented, Tokens
    <2>2. RevokedRefused'
      BY <2>1, AcceptHolds
    <2>3. defied' \subseteq Tokens
      BY <2>2 DEF RevokedRefused
    <2>4. TypeOK'
      BY <1>0, <1>2, <2>1, <2>3 DEF RefreshCheck, Presented, tokens, TypeOK
    <2>5. EntriesHold'
      BY <1>0, <2>1, EntriesSame DEF Presented, tokens
    <2>6. RotatedSigned' /\ ReadingPast'
      BY <1>0, <2>1 DEF Presented, tokens, RotatedSigned, ReadingPast, TypeOK
    <2> QED BY <2>2, <2>4, <2>5, <2>6 DEF SessionInv
  <1>3. ASSUME NEW r \in Requests, RefreshNoUser(r) PROVE SessionInv'
    <2>1. Done(r) /\ UNCHANGED <<mode, clock, tokens, until, faults, revoked, lost, traces>>
      BY <1>3 DEF RefreshNoUser
    <2>2. issued' = issued /\ held' = held /\ iat' = iat
      BY <2>1 DEF tokens
    <2>3. TypeOK'
      BY <1>0, <2>1, <2>2, DoneFacts DEF TypeOK, traces
    <2>4. EntriesHold' /\ RevokedRefused'
      BY <1>0, <2>1, <2>2, EntriesSame DEF traces, RevokedRefused
    <2>5. RotatedSigned' /\ ReadingPast'
      BY <2>1, <2>2, DoneFacts
    <2> QED BY <2>3, <2>4, <2>5 DEF SessionInv
  <1>4. ASSUME NEW r \in Requests, NEW p \in Pairs, RefreshRevoke(r, p) PROVE SessionInv'
    <2> DEFINE t == <<"refresh", old[r]>>
               ttl == Minus(Exp(t), clock)
    <2>1. /\ Exchange(r, p) /\ Revoke(t, ttl) /\ pc[r] = "checked" /\ Sign(p)
          /\ old[r] \in held /\ old[r] \in issued /\ old[r] \in Pairs
      BY <1>0, <1>4 DEF RefreshRevoke, Exchange, TypeOK
    <2>2. t \in Tokens /\ t[2] \in issued
      BY <2>1 DEF Tokens
    <2>3. ttl \in Nat /\ clock + ttl >= Exp(t)
      BY <1>0, <2>2, TimesNat, MinusNat, SessionBounds DEF TypeOK
    <2> HIDE DEF t, ttl
    <2>4. /\ until' \in [Tokens -> Nat]
          /\ faults' \in 0 .. MaxFaults
          /\ lost' \subseteq Pairs
          /\ revoked' \subseteq Tokens
          /\ \/ until' = until /\ revoked' = revoked
             \/ /\ revoked' = revoked \cup {t}
                /\ HoldsUntil(t) <= until'[t]
                /\ \A s \in Tokens \ {t} : until'[s] = until[s]
      BY <1>0, <2>1, <2>2, <2>3, RevokeFacts
    <2>5. EntriesHold'
      <3>1. mode' = mode /\ issued \subseteq issued' /\ \A q \in issued : iat'[q] = iat[q]
        BY <1>0, <2>1, SignFacts DEF Exchange
      <3> QED BY <2>2, <2>4, <3>1, EntriesKept
    <2>6. children' \in [Pairs -> Nat]
      BY <1>0, <2>1 DEF Exchange, TypeOK
    <2>7. TypeOK'
      BY <1>0, <2>1, <2>4, <2>6, SignFacts DEF Exchange, TypeOK
    <2>8. RotatedSigned' /\ ReadingPast' /\ RevokedRefused'
      BY <1>0, <2>1, SignFacts DEF Exchange, TypeOK, RotatedSigned, ReadingPast, RevokedRefused
    <2> QED BY <2>5, <2>7, <2>8 DEF SessionInv
  <1>5. ASSUME NEW r \in Requests, RefreshAnswer(r) PROVE SessionInv'
    <2> DEFINE t == <<"access", old[r]>>
               ttl == Minus(Exp(t), now[r])
    <2>1. /\ Done(r) /\ pc[r] = "rotated" /\ old[r] \in issued /\ old[r] \in Pairs
          /\ held' = held \cup {new[r]} /\ new[r] \in issued
          /\ UNCHANGED <<mode, clock, issued, iat, traces>>
      BY <1>0, <1>5 DEF RefreshAnswer, TypeOK, RotatedSigned
    <2>2. t \in Tokens /\ t[2] \in issued
      BY <2>1 DEF Tokens
    <2>3. ttl \in Nat /\ clock + ttl >= Exp(t)
      <3>1. Exp(t) \in Nat /\ now[r] \in Nat /\ clock \in Nat /\ now[r] <= clock
        BY <1>0, <2>2, TimesNat, SessionBounds DEF TypeOK, ReadingPast
      <3>2. ttl \in Nat /\ now[r] + ttl >= Exp(t)
        BY <3>1, MinusNat
      <3> HIDE DEF ttl, t
      <3> QED BY <3>1, <3>2
    <2>4. IF ttl > 0 THEN Revoke(t, ttl) ELSE UNCHANGED <<until, revoked, faults, lost>>
      BY <1>5 DEF RefreshAnswer
    <2> HIDE DEF t, ttl
    <2>5. /\ until' \in [Tokens -> Nat]
          /\ faults' \in 0 .. MaxFaults
          /\ lost' \subseteq Pairs
          /\ revoked' \subseteq Tokens
          /\ \/ until' = until /\ revoked' = revoked
             \/ /\ revoked' = revoked \cup {t}
                /\ HoldsUntil(t) <= until'[t]
                /\ \A s \in Tokens \ {t} : until'[s] = until[s]
      <3>1. CASE ttl > 0
        BY <1>0, <2>2, <2>3, <2>4, <3>1, RevokeFacts
      <3>2. CASE ~(ttl > 0)
        BY <1>0, <2>4, <3>2 DEF TypeOK
      <3> QED BY <3>1, <3>2
    <2>6. EntriesHold'
      BY <2>1, <2>2, <2>5, EntriesKept
    <2>7. TypeOK'
      BY <1>0, <2>1, <2>5, DoneFacts DEF TypeOK, traces
    <2>8. RotatedSigned' /\ ReadingPast'
      BY <2>1, DoneFacts
    <2>9. RevokedRefused'
      BY <1>0, <2>1 DEF traces, RevokedRefused
    <2> QED BY <2>6, <2>7, <2>8, <2>9 DEF SessionInv
  <1>6. ASSUME NEW r \in Requests, RequestStops(r) PROVE SessionInv'
    <2>1. /\ Done(r) /\ pc[r] # "idle" /\ Fault
          /\ UNCHANGED <<mode, clock, tokens, until, revoked, traces>>
      BY <1>6 DEF RequestStops
    <2>2. issued' = issued /\ held' = held /\ iat' = iat
      BY <2>1 DEF tokens
    <2>3. faults' \in 0 .. MaxFaults /\ lost' \subseteq Pairs
      BY <1>0, <1>6, SessionBounds DEF RequestStops, Fault, TypeOK
    <2>4. TypeOK'
      BY <1>0, <2>1, <2>2, <2>3, DoneFacts DEF TypeOK, traces
    <2>5. EntriesHold' /\ RevokedRefused'
      BY <1>0, <2>1, <2>2, EntriesSame DEF traces, RevokedRefused
    <2>6. RotatedSigned' /\ ReadingPast'
      BY <2>1, <2>2, DoneFacts
    <2> QED BY <2>4, <2>5, <2>6 DEF SessionInv
  <1>7. ASSUME NEW p \in Pairs, Logout(p) PROVE SessionInv'
    <2> DEFINE t == <<"access", p>>
               ttl == Minus(Exp(t), clock)
    <2>1. /\ p \in held /\ p \in issued /\ Revoke(t, ttl)
          /\ UNCHANGED <<mode, clock, tokens, requests, traces>>
      BY <1>0, <1>7 DEF Logout, TypeOK
    <2>2. t \in Tokens /\ t[2] \in issued
      BY <2>1 DEF Tokens
    <2>3. ttl \in Nat /\ clock + ttl >= Exp(t)
      BY <1>0, <2>2, TimesNat, MinusNat, SessionBounds DEF TypeOK
    <2> HIDE DEF t, ttl
    <2>4. /\ until' \in [Tokens -> Nat]
          /\ faults' \in 0 .. MaxFaults
          /\ lost' \subseteq Pairs
          /\ revoked' \subseteq Tokens
          /\ \/ until' = until /\ revoked' = revoked
             \/ /\ revoked' = revoked \cup {t}
                /\ HoldsUntil(t) <= until'[t]
                /\ \A s \in Tokens \ {t} : until'[s] = until[s]
      BY <1>0, <2>1, <2>2, <2>3, RevokeFacts
    <2>5. EntriesHold'
      <3>1. mode' = mode /\ issued \subseteq issued' /\ \A q \in issued : iat'[q] = iat[q]
        BY <2>1 DEF tokens
      <3> QED BY <2>2, <2>4, <3>1, EntriesKept
    <2>6. TypeOK'
      BY <1>0, <2>1, <2>4 DEF TypeOK, tokens, requests, traces
    <2>7. RotatedSigned' /\ ReadingPast' /\ RevokedRefused'
      BY <1>0, <2>1 DEF tokens, requests, traces, RotatedSigned, ReadingPast, RevokedRefused
    <2> QED BY <2>5, <2>6, <2>7 DEF SessionInv
  <1>8. ASSUME NEW t \in Tokens, Authenticate(t) PROVE SessionInv'
    <2>1. RevokedRefused'
      BY <1>8, AcceptHolds DEF Authenticate
    <2>2. defied' \subseteq Tokens
      BY <2>1 DEF RevokedRefused
    <2>3. TypeOK'
      BY <1>0, <1>8, <2>2 DEF Authenticate, TypeOK, tokens, requests
    <2>4. EntriesHold'
      BY <1>8, EntriesSame DEF Authenticate, tokens
    <2>5. RotatedSigned' /\ ReadingPast'
      BY <1>0, <1>8 DEF Authenticate, tokens, requests, RotatedSigned, ReadingPast
    <2> QED BY <2>1, <2>3, <2>4, <2>5 DEF SessionInv
  <1>9. ASSUME NEW t \in Tokens, CheckFails(t) PROVE SessionInv'
    <2>1. faults' \in 0 .. MaxFaults
      BY <1>0, <1>9, SessionBounds DEF CheckFails, Fault, TypeOK
    <2>2. TypeOK'
      BY <1>0, <1>9, <2>1 DEF CheckFails, TypeOK, tokens, requests, traces
    <2>3. EntriesHold'
      BY <1>9, EntriesSame DEF CheckFails, tokens
    <2>4. RotatedSigned' /\ ReadingPast' /\ RevokedRefused'
      BY <1>0, <1>9 DEF CheckFails, tokens, requests, traces, RotatedSigned, ReadingPast, RevokedRefused
    <2> QED BY <2>2, <2>3, <2>4 DEF SessionInv
  <1>10. CASE Tick
    <2>1. clock' \in 0 .. MaxClock /\ clock <= clock'
      BY <1>0, <1>10, SessionBounds DEF Tick, TypeOK
    <2>2. TypeOK'
      BY <1>0, <1>10, <2>1 DEF Tick, TypeOK, tokens, requests, traces
    <2>3. EntriesHold'
      BY <1>10, EntriesSame DEF Tick, tokens
    <2>4. ReadingPast'
      BY <1>0, <1>10, <2>1, SessionBounds DEF Tick, TypeOK, requests, ReadingPast
    <2>5. RotatedSigned' /\ RevokedRefused'
      BY <1>0, <1>10 DEF Tick, tokens, requests, traces, RotatedSigned, RevokedRefused
    <2> QED BY <2>2, <2>3, <2>4, <2>5 DEF SessionInv
  <1>11. CASE UNCHANGED vars
    <2>1. TypeOK'
      BY <1>0, <1>11 DEF vars, TypeOK, tokens, requests, traces
    <2>2. EntriesHold'
      BY <1>11, EntriesSame DEF vars, tokens
    <2>3. RotatedSigned' /\ ReadingPast' /\ RevokedRefused'
      BY <1>0, <1>11 DEF vars, tokens, requests, traces, RotatedSigned, ReadingPast, RevokedRefused
    <2> QED BY <2>1, <2>2, <2>3 DEF SessionInv
  <1> QED BY <1>1, <1>2, <1>3, <1>4, <1>5, <1>6, <1>7, <1>8, <1>9, <1>10, <1>11
          DEF Next, RequestStep

LEMMA SessionAlways == Spec => []SessionInv
  BY SessionInit, SessionNext, PTL DEF Spec

\* Every reachable state is well typed: the client holds signed pairs only, and a
\* refresh past its check works on one of them.
THEOREM TypeCorrect == Spec => []TypeOK
  <1>1. SessionInv => TypeOK
    BY DEF SessionInv
  <1> QED BY <1>1, SessionAlways, PTL

\* A stored revocation is never overruled, with any lifetimes, leeway and number
\* of concurrent refreshes, in either deployment.
THEOREM RevokedRefusedCorrect == Spec => []RevokedRefused
  <1>1. SessionInv => RevokedRefused
    BY DEF SessionInv
  <1> QED BY <1>1, SessionAlways, PTL

(***************************************************************************)
(* A refresh token is exchanged once.  The invariant says when a refresh   *)
(* may be between its check and its exchange: a pair outside the three     *)
(* excuses is checked by at most one request, by none once it has a child, *)
(* and its child comes with a revocation that is stored or a lifetime that *)
(* is over, so the next check fails or is late.                            *)
(***************************************************************************)
RefreshOf(p) == <<"refresh", p>>

Excused == overlap \cup lost \cup late

Checked(r, p) == pc[r] = "checked" /\ old[r] = p

Spent(p) == RefreshOf(p) \in revoked \/ clock >= HoldsUntil(RefreshOf(p))

OnceOnly(p) ==
    /\ \A q, r \in Requests : Checked(q, p) /\ Checked(r, p) => q = r
    /\ \A r \in Requests : Checked(r, p) => children[p] = 0
    /\ children[p] > 0 => children[p] = 1 /\ Spent(p)

RotationAt(p) ==
    /\ children[p] > 0 => p \in issued
    /\ p \notin Excused => OnceOnly(p)

RotationInv == \A p \in Pairs : RotationAt(p)

LEMMA RotationInit == Init => RotationInv
  BY DEF Init, RotationInv, RotationAt, OnceOnly, Checked

\* What is spent stays spent: the time a revocation must hold is fixed when the
\* pair is signed.
LEMMA SpentKept ==
    ASSUME TypeOK, TypeOK', NEW p \in issued, Spent(p),
           mode' = mode, clock <= clock', iat'[p] = iat[p], revoked \subseteq revoked'
    PROVE  Spent(p)'
  <1>1. RefreshOf(p) \in Tokens /\ RefreshOf(p)[2] = p
    BY DEF RefreshOf, Tokens, TypeOK
  <1>2. HoldsUntil(RefreshOf(p))' = HoldsUntil(RefreshOf(p))
    BY <1>1 DEF HoldsUntil, Exp, TTL, RefreshOf
  <1>3. HoldsUntil(RefreshOf(p)) \in Nat /\ clock \in Int /\ clock' \in Int
    BY <1>1, TimesNat, SessionBounds DEF TypeOK
  <1>4. RefreshOf(p)' = RefreshOf(p)
    BY DEF RefreshOf
  <1>5. CASE RefreshOf(p) \in revoked
    BY <1>4, <1>5 DEF Spent
  <1>6. CASE clock >= HoldsUntil(RefreshOf(p))
    <2>1. clock' >= HoldsUntil(RefreshOf(p))
      BY <1>3, <1>6
    <2> QED BY <1>2, <2>1 DEF Spent
  <1> QED BY <1>5, <1>6 DEF Spent

\* A pair that gets no child and no new check is as it was.
LEMMA RotationSame ==
    ASSUME TypeOK, TypeOK', NEW p \in Pairs, RotationAt(p),
           mode' = mode, clock <= clock', \A q \in issued : iat'[q] = iat[q],
           issued \subseteq issued', revoked \subseteq revoked', Excused \subseteq Excused',
           children'[p] = children[p],
           \A r \in Requests : Checked(r, p)' => Checked(r, p)
    PROVE  RotationAt(p)'
  <1>1. children[p] > 0 => p \in issued /\ p \in issued'
    BY DEF RotationAt
  <1>2. ASSUME p \notin Excused' PROVE OnceOnly(p)'
    <2>1. OnceOnly(p)
      BY <1>2 DEF RotationAt
    <2>2. children[p] > 0 => Spent(p)'
      BY <1>1, <2>1, SpentKept DEF OnceOnly
    <2> QED BY <2>1, <2>2 DEF OnceOnly
  <1> QED BY <1>1, <1>2 DEF RotationAt

LEMMA RevokeGrows ==
    ASSUME NEW t, NEW ttl, Revoke(t, ttl)
    PROVE  revoked \subseteq revoked' /\ lost \subseteq lost'
  BY DEF Revoke, Fault

\* A check that finds the pair exchanged before comes late: a stored revocation
\* outlasts the clock up to HoldsUntil.
LEMMA CheckedFresh ==
    ASSUME SessionInv, NEW p \in Pairs, ~Listed(RefreshOf(p)), clock < HoldsUntil(RefreshOf(p))
    PROVE  ~Spent(p)
  <1>1. RefreshOf(p) \in Tokens
    BY DEF RefreshOf, Tokens
  <1>2. HoldsUntil(RefreshOf(p)) \in Nat /\ clock \in Nat /\ until[RefreshOf(p)] \in Nat
    BY <1>1, TimesNat, SessionBounds DEF SessionInv, TypeOK
  <1>3. RefreshOf(p) \notin revoked
    BY <1>2 DEF SessionInv, EntriesHold, Listed
  <1> QED BY <1>2, <1>3 DEF Spent

\* The revocation of an exchange is stored, not needed any more or lost.
LEMMA ExchangeSpends ==
    ASSUME TypeOK, NEW p \in Pairs, clock' = clock, iat'[p] = iat[p], mode' = mode,
           Revoke(RefreshOf(p), Minus(Exp(RefreshOf(p)), clock))
    PROVE  p \in lost' \/ Spent(p)'
  <1>1. RefreshOf(p) \in Tokens /\ RefreshOf(p)[2] = p /\ RefreshOf(p)' = RefreshOf(p)
    BY DEF RefreshOf, Tokens
  <1>2. Exp(RefreshOf(p)) \in Nat /\ clock \in Nat
    BY <1>1, TimesNat, SessionBounds DEF TypeOK
  <1>3. HoldsUntil(RefreshOf(p))' = HoldsUntil(RefreshOf(p))
    BY <1>1 DEF HoldsUntil, Exp, TTL, RefreshOf
  <1>4. CASE RefreshOf(p) \in revoked'
    BY <1>1, <1>4 DEF Spent
  <1>5. CASE mode = "full" /\ Minus(Exp(RefreshOf(p)), clock) = 0
    <2>1. clock >= Exp(RefreshOf(p))
      BY <1>2, <1>5 DEF Minus
    <2>2. clock' >= HoldsUntil(RefreshOf(p))'
      BY <1>3, <1>5, <2>1 DEF HoldsUntil
    <2> QED BY <2>2 DEF Spent
  <1>6. CASE lost' = lost \cup {RefreshOf(p)[2]}
    BY <1>1, <1>6
  <1> QED BY <1>4, <1>5, <1>6 DEF Revoke

LEMMA RotationNext == SessionInv /\ SessionInv' /\ RotationInv /\ [Next]_vars => RotationInv'
  <1> SUFFICES ASSUME SessionInv, SessionInv', RotationInv, [Next]_vars, NEW p \in Pairs
               PROVE  RotationAt(p)'
    BY DEF RotationInv
  <1>0. TypeOK /\ TypeOK' /\ RotationAt(p) /\ clock \in Nat
    BY SessionBounds DEF SessionInv, RotationInv, TypeOK
  <1> DEFINE Same == /\ mode' = mode /\ clock <= clock'
                     /\ \A q \in issued : iat'[q] = iat[q]
                     /\ issued \subseteq issued' /\ revoked \subseteq revoked'
                     /\ Excused \subseteq Excused' /\ children'[p] = children[p]
                     /\ \A r \in Requests : Checked(r, p)' => Checked(r, p)
             Kept == RotationAt(p)'
  <1> SUFFICES Kept
    OBVIOUS
  <1>a. ASSUME Same PROVE Kept
    BY <1>0, <1>a, RotationSame
  <1> HIDE DEF Kept
  <1>1. ASSUME NEW q \in Pairs, Login(q) PROVE Kept
    <2>1. \A x \in issued : iat'[x] = iat[x]
      BY <1>0, <1>1, SignFacts DEF Login
    <2>2. Same
      BY <1>0, <1>1, <2>1 DEF Login, Sign, requests, traces, Excused, Checked
    <2> QED BY <2>2, <1>a
  <1>2. ASSUME NEW r \in Requests, NEW q \in Pairs, RefreshCheck(r, q) PROVE Kept
    <2>1. /\ pc[r] = "idle" /\ q \in held /\ ~Listed(RefreshOf(q))
          /\ pc' = [pc EXCEPT ![r] = "checked"] /\ old' = [old EXCEPT ![r] = q]
          /\ overlap' = IF Rotating(q) THEN overlap \cup {q} ELSE overlap
          /\ late' = IF clock >= HoldsUntil(RefreshOf(q)) THEN late \cup {q} ELSE late
          /\ mode' = mode /\ clock' = clock /\ iat' = iat /\ issued' = issued
          /\ revoked' = revoked /\ lost' = lost /\ children' = children
      BY <1>2 DEF RefreshCheck, Presented, tokens, RefreshOf
    <2>2. pc'[r] = "checked" /\ old'[r] = q
      BY <1>0, <2>1 DEF TypeOK
    <2>3. \A x \in Requests \ {r} : pc'[x] = pc[x] /\ old'[x] = old[x]
      BY <1>0, <2>1 DEF TypeOK
    <2>4. Excused \subseteq Excused'
      BY <2>1 DEF Excused
    <2>5. CASE q # p
      <3>1. \A x \in Requests : Checked(x, p)' => Checked(x, p)
        BY <2>2, <2>3, <2>5 DEF Checked
      <3> QED BY <1>0, <1>a, <2>1, <2>4, <3>1
    <2>6. CASE q = p
      <3>1. children'[p] > 0 => p \in issued'
        BY <1>0, <2>1 DEF RotationAt
      <3>2. ASSUME p \notin Excused' PROVE OnceOnly(p)'
        <4>1. p \notin Excused /\ p \notin overlap' /\ p \notin late'
          BY <3>2, <2>4 DEF Excused
        <4>2. ~Rotating(p) /\ ~(clock >= HoldsUntil(RefreshOf(p)))
          BY <2>1, <2>6, <4>1
        <4>3. HoldsUntil(RefreshOf(p)) \in Nat
          BY <1>0, TimesNat DEF RefreshOf, Tokens
        <4>4. ~Spent(p)
          BY <1>0, <2>1, <2>6, <4>2, <4>3, CheckedFresh
        <4>5. ~(children[p] > 0)
          BY <1>0, <4>1, <4>4 DEF RotationAt, OnceOnly
        <4>6. children[p] = 0
          BY <1>0, <4>5 DEF TypeOK
        <4>7. \A x \in Requests : Checked(x, p)' => x = r
          BY <2>3, <4>2 DEF Checked, Rotating
        <4> QED BY <2>1, <4>5, <4>6, <4>7 DEF OnceOnly
      <3> QED BY <3>1, <3>2 DEF Kept, RotationAt
    <2> QED BY <2>5, <2>6
  <1>3. ASSUME NEW r \in Requests, RefreshNoUser(r) PROVE Kept
    <2>1. Same
      BY <1>0, <1>3 DEF RefreshNoUser, Done, tokens, traces, Excused, Checked, TypeOK
    <2> QED BY <2>1, <1>a
  <1>4. ASSUME NEW r \in Requests, NEW n \in Pairs, RefreshRevoke(r, n) PROVE Kept
    <2>0. PICK o \in Pairs : o = old[r]
      BY <1>0, <1>4 DEF RefreshRevoke, Exchange, TypeOK
    <2>1. /\ pc[r] = "checked" /\ Sign(n) /\ o \in issued
          /\ Revoke(RefreshOf(o), Minus(Exp(RefreshOf(o)), clock))
          /\ pc' = [pc EXCEPT ![r] = "rotated"] /\ old' = old
          /\ children' = [children EXCEPT ![o] = @ + 1]
          /\ mode' = mode /\ clock' = clock /\ overlap' = overlap /\ late' = late
      BY <1>0, <1>4, <2>0 DEF RefreshRevoke, Exchange, RefreshOf, TypeOK
    <2>2. /\ issued \subseteq issued' /\ \A x \in issued : iat'[x] = iat[x]
          /\ revoked \subseteq revoked' /\ lost \subseteq lost' /\ Excused \subseteq Excused'
      BY <1>0, <2>1, SignFacts, RevokeGrows DEF Excused
    <2>3. \A x \in Requests : Checked(x, p)' => Checked(x, p) /\ x # r
      BY <1>0, <2>1 DEF Checked, TypeOK
    <2>4. CASE o # p
      <3>1. children'[p] = children[p]
        BY <1>0, <2>1, <2>4 DEF TypeOK
      <3> QED BY <1>0, <1>a, <2>1, <2>2, <2>3, <3>1
    <2>5. CASE o = p
      <3>1. p \in issued'
        BY <2>1, <2>2, <2>5
      <3>2. ASSUME p \notin Excused' PROVE OnceOnly(p)'
        <4>1. OnceOnly(p)
          BY <1>0, <2>2, <3>2 DEF RotationAt
        <4>2. Checked(r, p)
          BY <2>0, <2>1, <2>5 DEF Checked
        <4>3. children[p] = 0
          BY <4>1, <4>2 DEF OnceOnly
        <4>4. children'[p] = 1
          BY <1>0, <2>1, <2>5, <4>3 DEF TypeOK
        <4>5. \A x \in Requests : ~Checked(x, p)'
          BY <2>3, <4>1, <4>2 DEF OnceOnly
        <4>6. Spent(p)'
          BY <1>0, <2>1, <2>2, <2>5, <3>2, ExchangeSpends DEF Excused
        <4> QED BY <4>4, <4>5, <4>6 DEF OnceOnly
      <3> QED BY <3>1, <3>2 DEF Kept, RotationAt
    <2> QED BY <2>4, <2>5
  <1>5. ASSUME NEW r \in Requests, RefreshAnswer(r) PROVE Kept
    <2>1. revoked \subseteq revoked' /\ lost \subseteq lost'
      BY <1>5, RevokeGrows DEF RefreshAnswer
    <2>2. Same
      BY <1>0, <1>5, <2>1 DEF RefreshAnswer, Done, traces, Excused, Checked, TypeOK
    <2> QED BY <2>2, <1>a
  <1>6. ASSUME NEW r \in Requests, RequestStops(r) PROVE Kept
    <2>1. Same
      BY <1>0, <1>6 DEF RequestStops, Done, tokens, traces, Excused, Checked, TypeOK
    <2> QED BY <2>1, <1>a
  <1>7. ASSUME NEW q \in Pairs, Logout(q) PROVE Kept
    <2>1. revoked \subseteq revoked' /\ lost \subseteq lost'
      BY <1>7, RevokeGrows DEF Logout
    <2>2. Same
      BY <1>0, <1>7, <2>1 DEF Logout, tokens, requests, traces, Excused, Checked
    <2> QED BY <2>2, <1>a
  <1>8. ASSUME NEW t \in Tokens, Authenticate(t) PROVE Kept
    <2>1. Same
      BY <1>0, <1>8 DEF Authenticate, tokens, requests, Excused, Checked
    <2> QED BY <2>1, <1>a
  <1>9. ASSUME NEW t \in Tokens, CheckFails(t) PROVE Kept
    <2>1. Same
      BY <1>0, <1>9 DEF CheckFails, tokens, requests, traces, Excused, Checked
    <2> QED BY <2>1, <1>a
  <1>10. CASE Tick
    <2>1. clock <= clock'
      BY <1>0, <1>10 DEF Tick
    <2>2. Same
      BY <1>0, <1>10, <2>1 DEF Tick, tokens, requests, traces, Excused, Checked
    <2> QED BY <2>2, <1>a
  <1>11. CASE UNCHANGED vars
    <2>1. Same
      BY <1>0, <1>11 DEF vars, tokens, requests, traces, Excused, Checked
    <2> QED BY <2>1, <1>a
  <1> QED BY <1>1, <1>2, <1>3, <1>4, <1>5, <1>6, <1>7, <1>8, <1>9, <1>10, <1>11
          DEF Next, RequestStep

LEMMA RotationCounts == TypeOK /\ RotationInv => RotationOnce
  <1> SUFFICES ASSUME TypeOK, RotationInv, NEW p \in Pairs, p \notin Excused
               PROVE  ~(children[p] + Cardinality({r \in Requests : pc[r] = "checked" /\ old[r] = p}) > 1)
    BY DEF RotationOnce, Excused
  <1> DEFINE C == {r \in Requests : pc[r] = "checked" /\ old[r] = p}
  <1> SUFFICES ~(children[p] + Cardinality(C) > 1)
    OBVIOUS
  <1>1. OnceOnly(p) /\ children[p] \in Nat
    BY DEF RotationInv, RotationAt, TypeOK
  <1>2. \A r \in C : Checked(r, p)
    BY DEF Checked
  <1>3. CASE C = {}
    <2>1. Cardinality(C) = 0
      BY <1>3, FS_EmptySet
    <2>2. children[p] = 0 \/ children[p] = 1
      BY <1>1 DEF OnceOnly
    <2> HIDE DEF C
    <2> QED BY <2>1, <2>2
  <1>4. CASE C # {}
    <2>1. PICK r \in C : TRUE
      BY <1>4
    <2>2. C = {r}
      BY <1>1, <1>2, <2>1 DEF OnceOnly
    <2>3. Cardinality(C) = 1
      BY <2>2, FS_Singleton
    <2>4. children[p] = 0
      BY <1>1, <1>2, <2>1 DEF OnceOnly
    <2> HIDE DEF C
    <2> QED BY <2>3, <2>4
  <1> QED BY <1>3, <1>4

\* However refreshes interleave, fail and come late, a refresh token is accepted
\* for more than one exchange only for one of the three reasons RotationOnce
\* names, for any number of requests, pairs and faults.
THEOREM RotationOnceCorrect == Spec => []RotationOnce
  <1>1. Init => SessionInv /\ RotationInv
    BY SessionInit, RotationInit
  <1>2. SessionInv /\ RotationInv /\ [Next]_vars => (SessionInv /\ RotationInv)'
    BY SessionNext, RotationNext
  <1>3. SessionInv /\ RotationInv => RotationOnce
    BY RotationCounts DEF SessionInv
  <1> QED BY <1>1, <1>2, <1>3, PTL DEF Spec
=============================================================================
