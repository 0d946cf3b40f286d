------------------------- MODULE Credentials_proofs -------------------------
(***************************************************************************)
(* Proofs about Credentials, for all lifetimes of tokens, any number of    *)
(* rounds of the refresh goroutine, and any of the failures of Scenarios.  *)
(***************************************************************************)
EXTENDS Credentials, TLAPS

(***************************************************************************)
(* RefreshDuration is a duration (never negative, for a token that has     *)
(* expired too), leaves at least a second before the expiry if there is    *)
(* one, and is zero only in the last second: the goroutine of run() does   *)
(* not spin before that.                                                   *)
(***************************************************************************)
THEOREM RefreshLeavesMargin ==
    ASSUME NEW left \in Int
    PROVE  /\ RefreshDuration(left) \in Nat
           /\ left >= Second => RefreshDuration(left) + Second =< left
           /\ left > Second => RefreshDuration(left) > 0
<1>1. Second \in Nat /\ Second >= 1
  BY SecondAssumption
<1>2. CASE left < 0
  BY <1>1, <1>2 DEF RefreshDuration
<1>3. CASE left > 4 * Second
  <2>1. RefreshDuration(left) = (3 * left) \div 4
    BY <1>1, <1>3 DEF RefreshDuration
  <2>2. left > 4 /\ 4 * ((3 * left) \div 4) =< 3 * left /\ 3 * left < 4 * ((3 * left) \div 4) + 4
    BY <1>1, <1>3
  <2>3. (3 * left) \div 4 \in Int
    OBVIOUS
  <2> QED
    BY <1>1, <1>3, <2>1, <2>2, <2>3
<1>4. CASE left \in 0 .. 4 * Second
  <2>1. RefreshDuration(left) = IF left - Second < 0 THEN 0 ELSE left - Second
    BY <1>1, <1>4 DEF RefreshDuration
  <2> QED
    BY <1>1, <1>4, <2>1
<1> QED
  BY <1>1, <1>2, <1>3, <1>4
-----------------------------------------------------------------------------

(* A round is on: the goroutine is between its timer and its next wait. *)
InRound == {"gcloud", "scopes", "post", "sed", "write"}

(* It has a new token that it has not handed on to all. *)
HasToken == InRound \ {"gcloud"}

(* The contents of config.json, as far as they matter. *)
Configs == [auth : Nat \cup {None}, logins : 0 .. 1]

(***************************************************************************)
(* The inductive invariant.  Time: a round begins when the timer fires and *)
(* takes at most Latency, and its token is one that gcloud has handed out  *)
(* in this round.                                                          *)
(***************************************************************************)
TimeInv ==
    /\ now =< wake + Latency
    /\ pc \in InRound => wake =< now
    /\ pc \in HasToken => \E l \in Lefts : tok - l \in wake .. now
    /\ pc = "write" => sed \in Configs
    /\ main \in {"token", "set", "server", "spawn"} => wake = 0 /\ pc = "none"
    /\ main = "building" => pc \notin {"none", "gone"}

(* Who logs in, and what the files that sed and docker login have read hold. *)
LoginInv ==
    /\ main \in {"token", "set", "server", "spawn"} => login = None /\ logins = 0
    /\ login # None => logins = 0 /\ login.logins = 0
    /\ logins = 0 => cfg.logins = 0 /\ (pc = "write" => sed.logins = 0)
    /\ UserLoginKept

(***************************************************************************)
(* The copies: each is good until the end of the round that will renew it, *)
(* wake + Latency at the latest, unless a command that it depends on has   *)
(* failed; and the next sed finds what it is to replace at all times.      *)
(***************************************************************************)
CopiesInv ==
    /\ main = "set" => tok \in Nat /\ tok >= 2 * Latency
    /\ main \in {"server", "spawn"} => source \in Nat /\ source >= 2 * Latency
    /\ main \in {"server", "spawn"} => cfg.auth = source /\ prev = source
    /\ mishaps \cap {"late", "race"} = {} => cfg.auth = prev
    /\ main = "building" =>
          /\ source # None /\ prev # None
          /\ "gcloud" \notin mishaps => source >= wake + Latency
          /\ mishaps \cap {"gcloud", "docker", "late", "race"} = {} => cfg.auth >= wake + Latency
          /\ (mishaps \cap {"gcloud", "metadata"} = {} /\ md # None) => md >= wake + Latency
    /\ main \in {"token", "set", "server", "spawn"} \/ server = "gce" => md = None
    /\ (pc \in {"sed", "write"} /\ "metadata" \notin mishaps /\ md # None) => md = tok

IInv == TypeOK /\ TimeInv /\ LoginInv /\ CopiesInv

(* What the constants are. *)
LEMMA Numbers == Latency \in Nat /\ MaxTime \in Nat /\ Lefts \subseteq Nat
  BY LatencyAssumption

(* A token lasts for two rounds at least: LatencyAssumption for a round    *)
(* that takes all of Latency.                                              *)
LEMMA LeftsLong == Latency \in Nat /\ \A l \in Lefts : l \in Nat /\ l >= 2 * Latency
<1> SUFFICES ASSUME NEW l \in Lefts PROVE l \in Nat /\ l >= 2 * Latency
  BY LatencyAssumption
<1>1. Latency \in Nat /\ l \in Nat /\ RefreshDuration(l - Latency) + Latency =< l - Latency
  BY LatencyAssumption
<1>2. RefreshDuration(l - Latency) \in Nat
  BY <1>1, RefreshLeavesMargin
<1> QED  BY <1>1, <1>2

(* The round that ends now: its timer will fire, and the next round will   *)
(* be over, before the token of this one expires.                          *)
LEMMA RoundLeavesLatency ==
    ASSUME TypeOK, TimeInv, pc \in HasToken
    PROVE  /\ tok \in Nat
           /\ RefreshDuration(tok - now) \in Nat
           /\ now + RefreshDuration(tok - now) + Latency =< tok
<1>1. PICK l \in Lefts : tok - l \in wake .. now
  BY DEF TimeInv
<1>2. now \in Nat /\ wake \in Nat /\ Latency \in Nat /\ l \in Nat /\ now =< wake + Latency
  BY LatencyAssumption DEF TypeOK, TimeInv
<1>3. tok \in Nat
  <2>1. tok \in Nat \cup {None}
    BY DEF TypeOK
  <2> QED  BY <1>1, <1>2, <2>1
<1>4. now - (tok - l) \in 0 .. Latency /\ tok - now = l - (now - (tok - l))
  BY <1>1, <1>2, <1>3
<1>5. RefreshDuration(tok - now) + Latency =< tok - now
  BY <1>4, LatencyAssumption
<1>6. RefreshDuration(tok - now) \in Nat
  BY <1>2, <1>3, RefreshLeavesMargin
<1> QED  BY <1>2, <1>3, <1>5, <1>6

(* gcloud.AccessToken returns a token that lasts, or an error. *)
LEMMA TokenLasts ==
    ASSUME TypeOK, NEW o \in Outputs, ~ AccessTokenError(o)
    PROVE  o.left \in Lefts /\ AccessToken(o) \in Nat /\ AccessToken(o) - o.left = now
<1>1. o.left \in Lefts
  BY NoneAssumption DEF Outputs, AccessTokenError
<1>2. now \in Nat
  BY Numbers DEF TypeOK
<1>3. o.left \in Nat
  BY <1>1, Numbers
<1> QED  BY <1>1, <1>2, <1>3 DEF AccessToken

(* sed changes the token it looks for, and nothing else. *)
LEMMA ReplacesTokenOnly ==
    ASSUME NEW file \in Configs, tok \in Nat
    PROVE  /\ Replaced(file) \in Configs
           /\ Replaced(file).logins = file.logins
           /\ file.auth = prev => Replaced(file).auth = tok
  BY DEF Replaced, Configs

(* Before run() has a token. *)
LEMMA IInvInit == Init => IInv
  BY LatencyAssumption
     DEF Init, IInv, TypeOK, Config, MaxTries, TimeInv, LoginInv, UserLoginKept, CopiesInv,
         InRound, HasToken, Configs

(* The types. *)
LEMMA TypeOKStep ==
    ASSUME IInv, [Next]_vars
    PROVE  TypeOK'
<1> USE DEF IInv, TypeOK, MaxTries, mainVars, loopVars, stepVars, HasToken, InRound, Configs
<1>1. CASE InitialToken
  <2>1. PICK o \in Outputs : IF AccessTokenError(o)
                              THEN main' = "over" /\ tok' = tok
                              ELSE main' = "set" /\ tok' = AccessToken(o)
    BY <1>1 DEF InitialToken
  <2>2. CASE AccessTokenError(o)
    BY <1>1, <2>1, <2>2 DEF InitialToken
  <2>3. CASE ~ AccessTokenError(o)
    <3>1. o.left \in Lefts /\ tok' \in Nat /\ tok' - o.left = now /\ now \in Nat
      BY <2>1, <2>3, TokenLasts, Numbers
    <3> QED  BY <1>1, <2>1, <2>3, <3>1 DEF InitialToken
  <2> QED  BY <2>2, <2>3
<1>2. CASE SetDockerAccessToken
  BY <1>2 DEF SetDockerAccessToken, Config
<1>3. CASE SetupFails
  BY <1>3 DEF SetupFails
<1>4. CASE StartServer
  BY <1>4 DEF StartServer
<1>5. CASE SpawnRefresh
  BY <1>5 DEF SpawnRefresh
<1>6. CASE TimerFires
  BY <1>6 DEF TimerFires
<1>7. CASE LoopReturns
  BY <1>7 DEF LoopReturns
<1>8. CASE RefreshToken
  <2>1. PICK o \in Outputs : ~ AccessTokenError(o) /\ tok' = AccessToken(o)
    BY <1>8 DEF RefreshToken
  <2>2. o.left \in Lefts /\ tok' \in Nat /\ tok' - o.left = now
    BY <2>1, TokenLasts
  <2> QED  BY <1>8, <2>2 DEF RefreshToken
<1>9. CASE RefreshFails
  BY <1>9 DEF RefreshFails
<1>10. CASE GotScopes
  BY <1>10 DEF GotScopes
<1>11. CASE ScopesFail
  <2>1. tries' \in 0 .. 2
    BY <1>11 DEF ScopesFail
  <2>2. pc' \in {"scopes", "sed"} /\ mishaps' \in {mishaps, mishaps \cup {"metadata"}}
    BY <1>11 DEF ScopesFail
  <2>3. UNCHANGED <<events, now, mainVars, md, cfg, prev, source, wake, refresh, tok, sed, stepVars>>
    BY <1>11 DEF ScopesFail
  <2> QED  BY <2>1, <2>2, <2>3
<1>12. CASE PostToken
  BY <1>12 DEF PostToken, CanPost
<1>13. CASE SedReads
  BY <1>13 DEF SedReads
<1>14. CASE UpdateDocker
  <2>1. tok \in Nat /\ RefreshDuration(tok - now) \in Nat
    BY <1>14, RoundLeavesLatency DEF UpdateDocker
  <2>2. sed \in Configs
    BY <1>14 DEF UpdateDocker, TimeInv
  <2>3. cfg' \in Configs
    BY <1>14, <2>1, <2>2, ReplacesTokenOnly DEF UpdateDocker
  <2> QED  BY <1>14, <2>1, <2>3 DEF UpdateDocker, EndRound, Races
<1>15. CASE UpdateDockerFails
  BY <1>15, RoundLeavesLatency DEF UpdateDockerFails, EndRound
<1>16. CASE UpdateDockerFailsLate
  <2>1. tok \in Nat /\ RefreshDuration(tok - now) \in Nat
    BY <1>16, RoundLeavesLatency DEF UpdateDockerFailsLate
  <2>2. sed \in Configs
    BY <1>16 DEF UpdateDockerFailsLate, TimeInv
  <2>3. cfg' \in Configs
    BY <1>16, <2>1, <2>2, ReplacesTokenOnly DEF UpdateDockerFailsLate
  <2> QED  BY <1>16, <2>1, <2>3 DEF UpdateDockerFailsLate, EndRound, Races
<1>17. CASE GetKMSClient
  BY <1>17 DEF GetKMSClient
<1>18. CASE LoginReads
  BY <1>18 DEF LoginReads
<1>19. CASE LoginWrites
  <2>1. login \in Configs /\ login.logins = 0 /\ logins = 0
    BY <1>19 DEF LoginWrites, LoginInv
  <2>2. cfg' \in Configs
    BY <1>19, <2>1 DEF LoginWrites
  <2> QED  BY <1>19, <2>1, <2>2 DEF LoginWrites, Races
<1>20. CASE BuildEnds
  BY <1>20 DEF BuildEnds
<1>21. CASE ServerListens
  BY <1>21 DEF ServerListens
<1>22. CASE Tick
  BY <1>22, LatencyAssumption DEF Tick
<1>23. CASE UNCHANGED vars
  BY <1>23 DEF vars
<1> QED  BY <1>1, <1>2, <1>3, <1>4, <1>5, <1>6, <1>7, <1>8, <1>9, <1>10, <1>11, <1>12, <1>13, <1>14, <1>15, <1>16, <1>17, <1>18, <1>19, <1>20, <1>21, <1>22, <1>23
         DEF Next, RunStep, LoopStep, BuildStep

(* The times of the rounds. *)
LEMMA TimeInvStep ==
    ASSUME IInv, [Next]_vars
    PROVE  TimeInv'
<1> USE DEF IInv, TypeOK, TimeInv, mainVars, loopVars, stepVars, HasToken, InRound, Configs
<1>1. CASE InitialToken
  BY <1>1, LatencyAssumption DEF InitialToken, Outputs, AccessTokenError, AccessToken
<1>2. CASE SetDockerAccessToken
  BY <1>2, LatencyAssumption DEF SetDockerAccessToken, Config
<1>3. CASE SetupFails
  BY <1>3, LatencyAssumption DEF SetupFails
<1>4. CASE StartServer
  BY <1>4, LatencyAssumption DEF StartServer
<1>5. CASE SpawnRefresh
  BY <1>5, LatencyAssumption DEF SpawnRefresh
<1>6. CASE TimerFires
  BY <1>6 DEF TimerFires
<1>7. CASE LoopReturns
  BY <1>7 DEF LoopReturns
<1>8. CASE RefreshToken
  <2>1. PICK o \in Outputs : ~ AccessTokenError(o) /\ tok' = AccessToken(o)
    BY <1>8 DEF RefreshToken
  <2>2. o.left \in Lefts /\ tok' \in Nat /\ tok' - o.left = now
    BY <2>1, TokenLasts
  <2> QED  BY <1>8, <2>2 DEF RefreshToken
<1>9. CASE RefreshFails
  BY <1>9, LatencyAssumption DEF RefreshFails
<1>10. CASE GotScopes
  BY <1>10 DEF GotScopes
<1>11. CASE ScopesFail
  BY <1>11 DEF ScopesFail, MaxTries
<1>12. CASE PostToken
  BY <1>12 DEF PostToken, CanPost
<1>13. CASE SedReads
  BY <1>13 DEF SedReads
<1>14. CASE UpdateDocker
  BY <1>14, LatencyAssumption, RoundLeavesLatency DEF UpdateDocker, EndRound, Replaced, Races
<1>15. CASE UpdateDockerFails
  BY <1>15, LatencyAssumption, RoundLeavesLatency DEF UpdateDockerFails, EndRound
<1>16. CASE UpdateDockerFailsLate
  BY <1>16, LatencyAssumption, RoundLeavesLatency DEF UpdateDockerFailsLate, EndRound, Replaced, Races
<1>17. CASE GetKMSClient
  BY <1>17 DEF GetKMSClient
<1>18. CASE LoginReads
  BY <1>18 DEF LoginReads
<1>19. CASE LoginWrites
  BY <1>19 DEF LoginWrites, Races
<1>20. CASE BuildEnds
  BY <1>20 DEF BuildEnds
<1>21. CASE ServerListens
  BY <1>21 DEF ServerListens
<1>22. CASE Tick
  BY <1>22, LatencyAssumption DEF Tick
<1>23. CASE UNCHANGED vars
  BY <1>23 DEF vars
<1> QED  BY <1>1, <1>2, <1>3, <1>4, <1>5, <1>6, <1>7, <1>8, <1>9, <1>10, <1>11, <1>12, <1>13, <1>14, <1>15, <1>16, <1>17, <1>18, <1>19, <1>20, <1>21, <1>22, <1>23
         DEF Next, RunStep, LoopStep, BuildStep

(* The logins. *)
LEMMA LoginInvStep ==
    ASSUME IInv, [Next]_vars
    PROVE  LoginInv'
<1> USE DEF IInv, TypeOK, TimeInv, LoginInv, UserLoginKept, mainVars, loopVars, stepVars, Configs
<1>1. CASE InitialToken
  BY <1>1 DEF InitialToken, Outputs, AccessTokenError, AccessToken
<1>2. CASE SetDockerAccessToken
  BY <1>2 DEF SetDockerAccessToken, Config
<1>3. CASE SetupFails
  BY <1>3 DEF SetupFails
<1>4. CASE StartServer
  BY <1>4 DEF StartServer
<1>5. CASE SpawnRefresh
  BY <1>5 DEF SpawnRefresh
<1>6. CASE TimerFires
  BY <1>6 DEF TimerFires
<1>7. CASE LoopReturns
  BY <1>7 DEF LoopReturns
<1>8. CASE RefreshToken
  BY <1>8 DEF RefreshToken, Outputs, AccessTokenError, AccessToken
<1>9. CASE RefreshFails
  BY <1>9 DEF RefreshFails
<1>10. CASE GotScopes
  BY <1>10 DEF GotScopes
<1>11. CASE ScopesFail
  BY <1>11 DEF ScopesFail, MaxTries
<1>12. CASE PostToken
  BY <1>12 DEF PostToken, CanPost
<1>13. CASE SedReads
  BY <1>13 DEF SedReads
<1>14. CASE UpdateDocker
  <2>1. tok \in Nat /\ sed \in Configs
    BY <1>14, RoundLeavesLatency DEF UpdateDocker, HasToken, InRound
  <2>2. cfg'.logins = sed.logins
    BY <1>14, <2>1, ReplacesTokenOnly DEF UpdateDocker
  <2> QED  BY <1>14, <2>1, <2>2 DEF UpdateDocker, EndRound, Races
<1>15. CASE UpdateDockerFails
  BY <1>15 DEF UpdateDockerFails, EndRound
<1>16. CASE UpdateDockerFailsLate
  <2>1. tok \in Nat /\ sed \in Configs
    BY <1>16, RoundLeavesLatency DEF UpdateDockerFailsLate, HasToken, InRound
  <2>2. cfg'.logins = sed.logins
    BY <1>16, <2>1, ReplacesTokenOnly DEF UpdateDockerFailsLate
  <2> QED  BY <1>16, <2>1, <2>2 DEF UpdateDockerFailsLate, EndRound, Races
<1>17. CASE GetKMSClient
  BY <1>17 DEF GetKMSClient
<1>18. CASE LoginReads
  BY <1>18 DEF LoginReads
<1>19. CASE LoginWrites
  BY <1>19 DEF LoginWrites, Races
<1>20. CASE BuildEnds
  BY <1>20 DEF BuildEnds
<1>21. CASE ServerListens
  BY <1>21 DEF ServerListens
<1>22. CASE Tick
  BY <1>22 DEF Tick
<1>23. CASE UNCHANGED vars
  BY <1>23 DEF vars
<1> QED  BY <1>1, <1>2, <1>3, <1>4, <1>5, <1>6, <1>7, <1>8, <1>9, <1>10, <1>11, <1>12, <1>13, <1>14, <1>15, <1>16, <1>17, <1>18, <1>19, <1>20, <1>21, <1>22, <1>23
         DEF Next, RunStep, LoopStep, BuildStep

(* The copies of the token. *)
LEMMA CopiesInvStep ==
    ASSUME IInv, [Next]_vars
    PROVE  CopiesInv'
<1> USE DEF IInv, TypeOK, TimeInv, CopiesInv, mainVars, loopVars, stepVars, HasToken, InRound, Configs
<1>1. CASE InitialToken
  <2>1. PICK o \in Outputs : IF AccessTokenError(o)
                              THEN main' = "over" /\ tok' = tok
                              ELSE main' = "set" /\ tok' = AccessToken(o)
    BY <1>1 DEF InitialToken
  <2>2. CASE AccessTokenError(o)
    BY <1>1, <2>1, <2>2 DEF InitialToken
  <2>3. CASE ~ AccessTokenError(o)
    <3>1. o.left \in Lefts /\ tok' \in Nat /\ tok' - o.left = now /\ now \in Nat
      BY <2>1, <2>3, TokenLasts, Numbers
    <3> QED  BY <1>1, <2>1, <2>3, <3>1, LeftsLong DEF InitialToken
  <2> QED  BY <2>2, <2>3
<1>2. CASE SetDockerAccessToken
  BY <1>2 DEF SetDockerAccessToken, Config
<1>3. CASE SetupFails
  BY <1>3 DEF SetupFails
<1>4. CASE StartServer
  BY <1>4 DEF StartServer
<1>5. CASE SpawnRefresh
  <2>1. now \in Nat /\ now =< Latency /\ Latency \in Nat /\ wake' = now
    BY <1>5, Numbers DEF SpawnRefresh
  <2>2. source \in Nat /\ source >= wake' + Latency /\ cfg.auth = source /\ prev = source
    BY <1>5, <2>1 DEF SpawnRefresh
  <2>3. md = None
    BY <1>5 DEF SpawnRefresh
  <2> QED  BY <1>5, <2>2, <2>3, NoneAssumption DEF SpawnRefresh
<1>6. CASE TimerFires
  BY <1>6 DEF TimerFires
<1>7. CASE LoopReturns
  BY <1>7 DEF LoopReturns
<1>8. CASE RefreshToken
  BY <1>8, LatencyAssumption, NoneAssumption, LeftsLong DEF RefreshToken, Outputs, AccessTokenError, AccessToken
<1>9. CASE RefreshFails
  BY <1>9, LatencyAssumption, NoneAssumption, LeftsLong DEF RefreshFails
<1>10. CASE GotScopes
  BY <1>10 DEF GotScopes
<1>11. CASE ScopesFail
  BY <1>11 DEF ScopesFail, MaxTries
<1>12. CASE PostToken
  BY <1>12, LatencyAssumption, NoneAssumption, LeftsLong DEF PostToken, CanPost
<1>13. CASE SedReads
  BY <1>13 DEF SedReads
<1>14. CASE UpdateDocker
  <2>1. tok \in Nat /\ source' = tok /\ prev' = tok /\ wake' \in Nat /\ wake' + Latency =< tok
    BY <1>14, RoundLeavesLatency, Numbers DEF UpdateDocker, EndRound
  <2>2. mishaps' \cap {"late", "race"} = {} => cfg'.auth = tok
    <3> SUFFICES ASSUME mishaps' \cap {"late", "race"} = {} PROVE cfg'.auth = tok
      OBVIOUS
    <3>1. mishaps \cap {"late", "race"} = {} /\ cfg = sed /\ cfg' = Replaced(sed)
      BY <1>14 DEF UpdateDocker, Races
    <3>2. sed \in Configs /\ sed.auth = prev
      BY <3>1
    <3> QED  BY <2>1, <3>1, <3>2, ReplacesTokenOnly
  <2>3. (md # None /\ "metadata" \notin mishaps) => md = tok
    BY <1>14 DEF UpdateDocker
  <2>4. /\ UNCHANGED <<main, server, md>>
        /\ pc' = "wait"
        /\ mishaps \subseteq mishaps'
        /\ main \notin {"set", "server", "spawn"}
    BY <1>14 DEF UpdateDocker, EndRound
  <2> QED  BY <2>1, <2>2, <2>3, <2>4, NoneAssumption
<1>15. CASE UpdateDockerFails
  <2>1. tok \in Nat /\ source' = tok /\ wake' \in Nat /\ wake' + Latency =< tok
    BY <1>15, RoundLeavesLatency, Numbers DEF UpdateDockerFails, EndRound
  <2>2. (md # None /\ "metadata" \notin mishaps) => md = tok
    BY <1>15 DEF UpdateDockerFails
  <2>3. /\ UNCHANGED <<main, server, md, cfg, prev>>
        /\ pc' = "wait"
        /\ mishaps' = mishaps \cup {"docker"}
        /\ main \notin {"set", "server", "spawn"}
    BY <1>15 DEF UpdateDockerFails, EndRound
  <2> QED  BY <2>1, <2>2, <2>3, NoneAssumption
<1>16. CASE UpdateDockerFailsLate
  <2>1. tok \in Nat /\ source' = tok /\ wake' \in Nat /\ wake' + Latency =< tok
    BY <1>16, RoundLeavesLatency, Numbers DEF UpdateDockerFailsLate, EndRound
  <2>2. (md # None /\ "metadata" \notin mishaps) => md = tok
    BY <1>16 DEF UpdateDockerFailsLate
  <2>3. /\ UNCHANGED <<main, server, md, prev>>
        /\ pc' = "wait"
        /\ mishaps \subseteq mishaps' /\ "late" \in mishaps'
        /\ main \notin {"set", "server", "spawn"}
    BY <1>16 DEF UpdateDockerFailsLate, EndRound
  <2> QED  BY <2>1, <2>2, <2>3, NoneAssumption
<1>17. CASE GetKMSClient
  BY <1>17 DEF GetKMSClient
<1>18. CASE LoginReads
  BY <1>18 DEF LoginReads
<1>19. CASE LoginWrites
  <2>1. "race" \notin mishaps' => cfg'.auth = cfg.auth
    BY <1>19 DEF LoginWrites, Races
  <2>2. mishaps' \in {mishaps, mishaps \cup {"race"}}
    BY <1>19 DEF LoginWrites, Races
  <2>3. main \notin {"server", "spawn"}
    BY <1>19 DEF LoginWrites, LoginInv
  <2> QED  BY <1>19, <2>1, <2>2, <2>3 DEF LoginWrites
<1>20. CASE BuildEnds
  BY <1>20 DEF BuildEnds
<1>21. CASE ServerListens
  BY <1>21 DEF ServerListens
<1>22. CASE Tick
  BY <1>22 DEF Tick
<1>23. CASE UNCHANGED vars
  BY <1>23 DEF vars
<1> QED  BY <1>1, <1>2, <1>3, <1>4, <1>5, <1>6, <1>7, <1>8, <1>9, <1>10, <1>11, <1>12, <1>13, <1>14, <1>15, <1>16, <1>17, <1>18, <1>19, <1>20, <1>21, <1>22, <1>23
         DEF Next, RunStep, LoopStep, BuildStep

(* The four parts together are inductive. *)
LEMMA IInvStep == IInv /\ [Next]_vars => IInv'
  BY TypeOKStep, TimeInvStep, LoginInvStep, CopiesInvStep DEF IInv

(* What the refresh goroutine knows of its time, its token and the copies  *)
(* holds in every state.                                                   *)
THEOREM InductiveInvariant == Spec => []IInv
  BY IInvInit, IInvStep, PTL DEF Spec

(***************************************************************************)
(* Every variable keeps its type: the durations that the goroutine waits   *)
(* are never negative, and getScopes is tried MaxTries times at most.      *)
(***************************************************************************)
THEOREM TypeCorrect == Spec => []TypeOK
<1>1. IInv => TypeOK
  BY DEF IInv
<1> QED  BY <1>1, InductiveInvariant, PTL

(***************************************************************************)
(* While the build runs, the token source, the docker config and the       *)
(* metadata server have valid tokens, unless a command on which that copy  *)
(* depends has failed: in every round, however Latency is spent.           *)
(***************************************************************************)
THEOREM TokensStayFresh == Spec => []CredentialsFresh
<1>1. IInv => CredentialsFresh
  <2> SUFFICES ASSUME IInv, main = "building" PROVE CredentialsFresh
    BY DEF CredentialsFresh
  <2>1. now \in Nat /\ wake \in Nat /\ Latency \in Nat /\ now =< wake + Latency
    BY Numbers DEF IInv, TypeOK, TimeInv
  <2>2. "gcloud" \notin mishaps => source \in Nat /\ source >= wake + Latency
    BY DEF IInv, TypeOK, CopiesInv
  <2>3. mishaps \cap {"gcloud", "docker", "late", "race"} = {}
        => cfg.auth \in Nat /\ cfg.auth >= wake + Latency
    BY DEF IInv, TypeOK, CopiesInv
  <2>4. (mishaps \cap {"gcloud", "metadata"} = {} /\ md # None)
        => md \in Nat /\ md >= wake + Latency
    BY DEF IInv, TypeOK, CopiesInv
  <2> QED  BY <2>1, <2>2, <2>3, <2>4 DEF CredentialsFresh, Valid
<1> QED  BY <1>1, InductiveInvariant, PTL

(***************************************************************************)
(* UpdateDockerAccessToken finds prevGCRAuth in the config whenever it is  *)
(* called, unless sed and a login have raced or docker has failed after    *)
(* sed had written.                                                        *)
(***************************************************************************)
THEOREM SedFindsToken == Spec => []ChainWhole
<1>1. IInv => ChainWhole
  BY DEF IInv, CopiesInv, ChainWhole
<1> QED  BY <1>1, InductiveInvariant, PTL

(***************************************************************************)
(* No refresh removes what a step's docker login has written, but in a     *)
(* race on the file.                                                       *)
(***************************************************************************)
THEOREM LoginsSurvive == Spec => []UserLoginKept
<1>1. IInv => UserLoginKept
  BY DEF IInv, LoginInv
<1> QED  BY <1>1, InductiveInvariant, PTL

(***************************************************************************)
(* LatencyAssumption is no more than RefreshDuration gives: it holds when  *)
(* a round takes up to a second and tokens last for a second beyond it.    *)
(***************************************************************************)
THEOREM SecondsOfLatency ==
    ASSUME NEW latency \in Nat, latency =< Second,
           NEW l \in Nat, l >= latency + Second, NEW k \in 0 .. latency
    PROVE  RefreshDuration(l - k) + latency =< l - k
<1>1. Second \in Nat /\ l - k \in Int /\ l - k >= Second
  BY SecondAssumption
<1>2. RefreshDuration(l - k) \in Nat /\ RefreshDuration(l - k) + Second =< l - k
  BY <1>1, RefreshLeavesMargin
<1> QED  BY <1>1, <1>2
=============================================================================
