--------------------------- MODULE StartupProofs ---------------------------
(***************************************************************************)
(* The configuration loader for all limits, names and numbers: what it     *)
(* accepts can be used, and the callback that reads the routes without a   *)
(* stack refuses a document exactly at the event that breaks a rule.       *)
(***************************************************************************)
EXTENDS Startup, SequenceTheorems, TLAPS

----------------------------------------------------------------------------
(* What the loader accepts.                                                *)

\* What the checks of an entry let through, the constructors take: the sizes of a
\* pool, the numbers of a bucket, the interval of the probes, the number of keys.
LEMMA AcceptedIsTaken ==
    /\ \A u \in UpstreamShapes : UpstreamsAccepted(u) => AdmissionTakes(u)
    /\ \A l \in RateLimitShapes : RateLimitAccepted(l) => TokenBucketTakes(l)
    /\ \A h \in HealthCheckShapes : HealthCheckAccepted(h) => ProbeScheduleTakes(h)
    /\ \A a \in AuthShapes : AuthAccepted(a) => DigestsFit(a)
<1>1. ASSUME NEW u \in UpstreamShapes, UpstreamsAccepted(u)
      PROVE  AdmissionTakes(u)
  <2>1. u.pool \in BOOLEAN /\ u.single \in BOOLEAN /\ (u.single /\ ~u.pool => u.count = 1)
    BY DEF UpstreamShapes
  <2>2. max_upstreams \in Nat \ {0}
    BY DocumentAssumption
  <2> QED
    BY <1>1, <2>1, <2>2 DEF UpstreamsAccepted, AdmissionTakes
<1>2. ASSUME NEW l \in RateLimitShapes, RateLimitAccepted(l)
      PROVE  TokenBucketTakes(l)
  <2>1. l.requests_per_second \in Int /\ l.burst \in Int
    BY NumberAssumption DEF RateLimitShapes
  <2> QED
    BY <1>2, <2>1, SMT DEF RateLimitAccepted, TokenBucketTakes, RouteInteger
<1>3. ASSUME NEW h \in HealthCheckShapes, HealthCheckAccepted(h)
      PROVE  ProbeScheduleTakes(h)
  <2>1. h.interval_ms \in Int
    BY NumberAssumption DEF HealthCheckShapes
  <2> QED
    BY <1>3, <2>1, SMT DEF HealthCheckAccepted, ProbeScheduleTakes, HealthNumber, RouteInteger, Default,
                      Absent
<1>4. ASSUME NEW a \in AuthShapes, AuthAccepted(a)
      PROVE  DigestsFit(a)
  BY <1>4 DEF AuthAccepted, DigestsFit
<1> QED
  BY <1>1, <1>2, <1>3, <1>4

\* The stages in which no upstream is known yet, and in which an entry is checked.
Early   == {"command_line", "tls", "settings", "upstreams"}
Entries == {"pool", "rate_limit", "health_check", "auth", "routes"}

\* The inductive invariant: what main() has found out by each of its stages.
LoadInv ==
    /\ unusable = FALSE
    /\ stage # "exited" => exit = "none"
    /\ exit = "arguments" => ~tls /\ proxy = "none"
    /\ stage \in {"command_line", "tls"} => ~tls
    /\ stage \in Early => proxy = "none"
    /\ stage \in Early \cup {"document"} => prefixes = {} /\ ~protected /\ ~https
    /\ stage \in Entries \cup {"document", "prefix"} => proxy = "routes"
    /\ stage \in Entries => prefixes # {}
    /\ stage \in {"trust", "loaded", "running"} =>
         (protected => tls) /\ (proxy = "routes" <=> prefixes # {})
    /\ stage \in {"loaded", "running"} => (https => trust)

\* Leaving with an error of the configuration keeps it.
LEMMA ConfigErrorInv ==
    ASSUME LoadInv, stage # "exited", ConfigError
    PROVE  LoadInv'
BY DEF LoadInv, ConfigError, Leave, loadVars, Early, Entries

\* Every step of main() keeps it.
LEMMA LoadStepInv ==
    ASSUME LoadInv, [StartupNext]_startupVars
    PROVE  LoadInv'
<1> USE DEF Early, Entries, Goto, Leave, loadVars
<1>1. CASE CommandLine
  BY <1>1 DEF LoadInv, CommandLine
<1>2. CASE LoadTls
  <2>1. PICK certificate, key \in Classes :
          CASE "empty" \in {certificate, key} -> ConfigError
            [] {certificate, key} = {"unset"} -> Goto("settings") /\ UNCHANGED loadVars
            [] {certificate, key} = {"good"} ->
                  Goto("settings") /\ tls' = TRUE
                  /\ UNCHANGED <<trust, proxy, prefixes, protected, https, unusable>>
            [] OTHER -> ConfigError
    BY <1>2 DEF LoadTls
  <2>2. \/ ConfigError
        \/ Goto("settings") /\ UNCHANGED loadVars
        \/ Goto("settings") /\ UNCHANGED <<trust, proxy, prefixes, protected, https, unusable>>
    BY <2>1
  <2>3. stage = "tls"
    BY <1>2 DEF LoadTls
  <2>8. CASE ConfigError
    BY <2>2, <2>3, <2>8, ConfigErrorInv
  <2>9. CASE ~ConfigError
    BY <2>2, <2>3, <2>9 DEF LoadInv
  <2> QED
    BY <2>8, <2>9
<1>3. CASE LoadSettings
  <2>1. stage = "settings" /\ (ConfigError \/ (Goto("upstreams") /\ UNCHANGED loadVars))
    BY <1>3 DEF LoadSettings
  <2>8. CASE ConfigError
    BY <2>1, <2>8, ConfigErrorInv
  <2>9. CASE ~ConfigError
    BY <2>1, <2>9 DEF LoadInv
  <2> QED
    BY <2>8, <2>9
<1>4. CASE LoadUpstreams
  <2>1. /\ stage = "upstreams"
        /\ \/ ConfigError
           \/ /\ Goto("trust") /\ proxy' \in {"none", "legacy"}
              /\ UNCHANGED <<tls, trust, prefixes, protected, https, unusable>>
           \/ /\ Goto("document") /\ proxy' = "routes"
              /\ UNCHANGED <<tls, trust, prefixes, protected, https, unusable>>
    BY <1>4 DEF LoadUpstreams, LegacyUpstream
  <2>8. CASE ConfigError
    BY <2>1, <2>8, ConfigErrorInv
  <2>9. CASE ~ConfigError
    BY <2>1, <2>9 DEF LoadInv
  <2> QED
    BY <2>8, <2>9
<1>5. CASE ReadRoutes
  BY <1>5 DEF LoadInv, ReadRoutes
<1>6. CASE EndRoutes
  <2>1. stage = "document" /\ (ConfigError \/ (Goto("prefix") /\ UNCHANGED loadVars))
    BY <1>6 DEF EndRoutes
  <2> QED
    BY <2>1, ConfigErrorInv DEF LoadInv
<1>7. CASE CheckPrefix
  <2>1. /\ stage = "prefix"
        /\ \/ ConfigError
           \/ /\ Goto("pool") /\ prefixes' # {}
              /\ UNCHANGED <<tls, trust, proxy, protected, https, unusable>>
    BY <1>7 DEF CheckPrefix
  <2> QED
    BY <2>1, ConfigErrorInv DEF LoadInv
<1>8. CASE CheckUpstreams
  <2>1. PICK u \in UpstreamShapes :
          IF UpstreamsAccepted(u)
          THEN /\ Goto("rate_limit")
               /\ https' = (https \/ u.https) /\ unusable' = (unusable \/ ~AdmissionTakes(u))
               /\ UNCHANGED <<tls, trust, proxy, prefixes, protected>>
          ELSE ConfigError
    BY <1>8 DEF CheckUpstreams
  <2>2. stage = "pool"
    BY <1>8 DEF CheckUpstreams
  <2>3. CASE UpstreamsAccepted(u)
    <3>1. unusable' = FALSE
      BY <2>1, <2>3, AcceptedIsTaken DEF LoadInv
    <3> QED
      BY <2>1, <2>2, <2>3, <3>1 DEF LoadInv
  <2> QED
    BY <2>1, <2>2, <2>3, ConfigErrorInv
<1>9. CASE CheckRateLimit
  <2>1. PICK limit \in Optional(RateLimitShapes) :
          IF \A l \in limit : RateLimitAccepted(l)
          THEN /\ Goto("health_check")
               /\ unusable' = (unusable \/ \E l \in limit : ~TokenBucketTakes(l))
               /\ UNCHANGED <<tls, trust, proxy, prefixes, protected, https>>
          ELSE ConfigError
    BY <1>9 DEF CheckRateLimit
  <2>2. stage = "rate_limit" /\ limit \subseteq RateLimitShapes
    BY <1>9 DEF CheckRateLimit, Optional
  <2>3. CASE \A l \in limit : RateLimitAccepted(l)
    <3>1. unusable' = FALSE
      BY <2>1, <2>2, <2>3, AcceptedIsTaken DEF LoadInv
    <3> QED
      BY <2>1, <2>2, <2>3, <3>1 DEF LoadInv
  <2> QED
    BY <2>1, <2>2, <2>3, ConfigErrorInv
<1>10. CASE CheckHealthCheck
  <2>1. PICK health \in Optional(HealthCheckShapes) :
          IF \A h \in health : HealthCheckAccepted(h)
          THEN /\ Goto("auth")
               /\ unusable' = (unusable \/ \E h \in health : ~ProbeScheduleTakes(h))
               /\ UNCHANGED <<tls, trust, proxy, prefixes, protected, https>>
          ELSE ConfigError
    BY <1>10 DEF CheckHealthCheck
  <2>2. stage = "health_check" /\ health \subseteq HealthCheckShapes
    BY <1>10 DEF CheckHealthCheck, Optional
  <2>3. CASE \A h \in health : HealthCheckAccepted(h)
    <3>1. unusable' = FALSE
      BY <2>1, <2>2, <2>3, AcceptedIsTaken DEF LoadInv
    <3> QED
      BY <2>1, <2>2, <2>3, <3>1 DEF LoadInv
  <2> QED
    BY <2>1, <2>2, <2>3, ConfigErrorInv
<1>11. CASE CheckAuth
  <2>1. PICK auth \in Optional(AuthShapes) :
          IF \A a \in auth : AuthAccepted(a)
          THEN /\ Goto("prefix") \/ Goto("routes")
               /\ protected' = (protected \/ auth # {})
               /\ unusable' = (unusable \/ \E a \in auth : ~DigestsFit(a))
               /\ UNCHANGED <<tls, trust, proxy, prefixes, https>>
          ELSE ConfigError
    BY <1>11 DEF CheckAuth
  <2>2. stage = "auth" /\ auth \subseteq AuthShapes
    BY <1>11 DEF CheckAuth, Optional
  <2>3. CASE \A a \in auth : AuthAccepted(a)
    <3>1. unusable' = FALSE
      BY <2>1, <2>2, <2>3, AcceptedIsTaken DEF LoadInv
    <3> QED
      BY <2>1, <2>2, <2>3, <3>1 DEF LoadInv
  <2> QED
    BY <2>1, <2>2, <2>3, ConfigErrorInv
<1>12. CASE AcceptRoutes
  <2>1. /\ stage = "routes"
        /\ ConfigError \/ ((protected => tls) /\ Goto("trust") /\ UNCHANGED loadVars)
    BY <1>12 DEF AcceptRoutes
  <2>8. CASE ConfigError
    BY <2>1, <2>8, ConfigErrorInv
  <2>9. CASE ~ConfigError
    BY <2>1, <2>9 DEF LoadInv
  <2> QED
    BY <2>8, <2>9
<1>13. CASE LoadTrust
  <2>1. /\ stage = "trust"
        /\ \/ ConfigError
           \/ ~https /\ Goto("loaded") /\ UNCHANGED loadVars
           \/ /\ Goto("loaded") /\ trust' = TRUE
              /\ UNCHANGED <<tls, proxy, prefixes, protected, https, unusable>>
    BY <1>13 DEF LoadTrust, Classes
  <2>8. CASE ConfigError
    BY <2>1, <2>8, ConfigErrorInv
  <2>9. CASE ~ConfigError
    BY <2>1, <2>9 DEF LoadInv
  <2> QED
    BY <2>8, <2>9
<1>14. CASE Start
  BY <1>14 DEF LoadInv, Start
<1>15. CASE Over \/ UNCHANGED startupVars
  BY <1>15 DEF LoadInv, Over, startupVars
<1> QED
  BY <1>1, <1>2, <1>3, <1>4, <1>5, <1>6, <1>7, <1>8, <1>9, <1>10, <1>11, <1>12, <1>13, <1>14, <1>15
     DEF StartupNext

\* What load_config_from_environment accepts, Application and its parts can use:
\* for every limit on pools and keys, every set of prefixes and all numbers.
THEOREM LoadedTheorem == StartupSpec => []LoadedIsUsable
<1>1. StartupInit => LoadInv
  BY DEF StartupInit, LoadInv, Early, Entries
<1>2. LoadInv /\ [StartupNext]_startupVars => LoadInv'
  BY LoadStepInv
<1>3. LoadInv => LoadedIsUsable
  BY DEF LoadInv, LoadedIsUsable
<1> QED
  BY <1>1, <1>2, <1>3, PTL DEF StartupSpec

----------------------------------------------------------------------------
(* The callback.                                                           *)

Names  == {Nothing, Element} \cup RouteKeys \cup SettingKeys \cup UpstreamKeys
Frames == [kind : {"array", "object"}, label : Names, fields : SUBSET Names, field : Names, count : Nat]

IsAt(k, kind, label) == frames[k].kind = kind /\ frames[k].label = label

\* What the callback remembers, level by level, is what the parser's stack holds.
Level1 == IsAt(1, "array", Nothing) /\ frames[1].count = object_count /\ object_count <= max_routes
Level2 ==
    /\ IsAt(2, "object", Element) /\ keys[0] = frames[2].fields
    /\ frames[2].field # "" => route_key = frames[2].field
InPool ==
    IsAt(3, "array", "upstreams") /\ frames[3].count = upstream_count /\ upstream_count <= max_upstreams
InSettings ==
    /\ frames[3].kind = "object" /\ frames[3].label \in Settings /\ keys[1] = frames[3].fields
    /\ frames[3].label = "auth" /\ frames[3].field # "" => auth_key = frames[3].field
Level3 == frames[2].field = "" /\ route_key = frames[3].label /\ (InPool \/ InSettings)
InUpstream == frames[3].kind = "array" /\ IsAt(4, "object", Element) /\ keys[2] = frames[4].fields
InKeyEnvs ==
    /\ IsAt(3, "object", "auth") /\ frames[3].field = "" /\ IsAt(4, "array", "api_key_envs")
    /\ frames[4].count = reference_count /\ reference_count <= max_keys

Remembered ==
    /\ frames \in Seq(Frames) /\ Depth <= 4
    /\ keys \in [0 .. 2 -> SUBSET Names]
    /\ {object_count, upstream_count, reference_count} \subseteq Nat
    /\ Depth = 0 => object_count = 0
    /\ Depth >= 1 => Level1
    /\ Depth >= 2 => Level2
    /\ Depth >= 3 => Level3
    /\ Depth >= 4 => InUpstream \/ InKeyEnvs
    /\ in_upstreams <=> (Depth >= 3 /\ frames[3].kind = "array")
    /\ in_key_envs <=> (Depth >= 4 /\ frames[4].kind = "array")

DocumentInv ==
    /\ verdict \in {"reading", "read", "refused"} /\ flaw \in BOOLEAN
    /\ in_upstreams \in BOOLEAN /\ in_key_envs \in BOOLEAN
    /\ verdict = "reading" => ~flaw /\ Remembered
    /\ verdict = "read" => ~flaw
    /\ verdict = "refused" => flaw

\* The open container is one.
LEMMA OpenIs ==
    ASSUME frames \in Seq(Frames), Depth > 0
    PROVE  /\ Depth \in Nat /\ Depth \in 1 .. Len(frames) /\ Open \in Frames
           /\ Open.kind \in {"array", "object"} /\ Open.label \in Names /\ Open.field \in Names
           /\ Open.fields \in SUBSET Names /\ Open.count \in Nat
<1>1. Depth \in Nat /\ Depth \in 1 .. Len(frames)
  BY DEF Depth
<1>2. Open \in Frames
  BY <1>1, ElementOfSeq DEF Open
<1> QED
  BY <1>1, <1>2 DEF Frames

\* A frame on the stack is replaced.
LEMMA ReplacedIs ==
    ASSUME frames \in Seq(Frames), Depth > 0, NEW top \in Frames,
           NEW f, f = [frames EXCEPT ![Depth] = top]
    PROVE  f \in Seq(Frames) /\ Len(f) = Depth /\ f[Depth] = top /\ \A k \in 1 .. Depth - 1 : f[k] = frames[k]
<1>1. Depth \in 1 .. Len(frames) /\ Depth = Len(frames)
  BY OpenIs DEF Depth
<1> HIDE DEF Depth
<1> QED
  BY <1>1

\* What a value does to the open container.
LEMMA FedIs ==
    ASSUME frames \in Seq(Frames), Depth > 0, NEW counted \in {0, 1}
    PROVE  LET f == Fed(counted) IN
           /\ f \in Seq(Frames) /\ Len(f) = Depth /\ \A k \in 1 .. Depth - 1 : f[k] = frames[k]
           /\ f[Depth].kind = Open.kind /\ f[Depth].label = Open.label
           /\ f[Depth].fields = Open.fields /\ f[Depth].field = Nothing
           /\ f[Depth].count = Open.count + counted
<1> DEFINE top == [Open EXCEPT !.field = "", !.count = @ + counted]
           f == Fed(counted)
<1>1. Open \in Frames
  BY OpenIs
<1>2. Nothing \in Names
  BY DEF Names
<1>3. /\ top \in Frames
      /\ top.kind = Open.kind /\ top.label = Open.label
      /\ top.fields = Open.fields /\ top.field = Nothing
      /\ top.count = Open.count + counted
  <2>1. top = [Open EXCEPT !.field = Nothing, !.count = @ + counted]
    BY Zenon DEF Nothing
  <2>2. counted \in Nat
    OBVIOUS
  <2> HIDE DEF top
  <2>3. top \in Frames
    <3>1. Open.count + counted \in Nat
      BY <2>2, OpenIs
    <3>2. \A n \in Nat : [Open EXCEPT !.field = Nothing, !.count = n] \in Frames
      BY <1>1, <1>2 DEF Frames
    <3> QED
      BY <2>1, <3>1, <3>2
  <2> QED
    BY <1>1, <2>1, <2>2, <2>3 DEF Frames
<1>4. f = [frames EXCEPT ![Depth] = top]
  BY DEF Fed
<1> HIDE DEF top, f
<1>5. f \in Seq(Frames) /\ Len(f) = Depth /\ f[Depth] = top /\ \A k \in 1 .. Depth - 1 : f[k] = frames[k]
  BY <1>3, <1>4, ReplacedIs
<1> QED
  BY <1>3, <1>5 DEF f

\* A new container on the stack, after the one below has had its value.
LEMMA PushedIs ==
    ASSUME frames \in Seq(Frames), NEW kind \in {"array", "object"}, NextLabel \in Names
    PROVE  LET f == Pushed(kind) IN
           /\ f \in Seq(Frames) /\ Len(f) = Depth + 1
           /\ \A k \in 1 .. Depth - 1 : f[k] = frames[k]
           /\ f[Depth + 1] = Frame(kind, NextLabel)
           /\ Depth > 0 =>
                /\ f[Depth].kind = Open.kind /\ f[Depth].label = Open.label
                /\ f[Depth].fields = Open.fields /\ f[Depth].field = Nothing
                /\ f[Depth].count = Open.count + (IF kind = "object" /\ Open.kind = "array" THEN 1 ELSE 0)
<1> DEFINE top == Frame(kind, NextLabel)
           f == Pushed(kind)
<1>1. top \in Frames
  BY DEF Frame, Frames, Names, Nothing
<1>2. Depth \in Nat /\ Depth = Len(frames)
  BY DEF Depth
<1>3. CASE Depth = 0
  <2>1. f = Append(<<>>, top)
    BY <1>3 DEF Pushed
  <2> HIDE DEF top, f
  <2>2. f \in Seq(Frames) /\ Len(f) = 1 /\ f[1] = top
    BY <1>1, <2>1
  <2> QED
    BY <1>3, <2>2 DEF top, f
<1>4. CASE Depth > 0
  <2> DEFINE counted == IF kind = "object" /\ Open.kind = "array" THEN 1 ELSE 0
             fed == Fed(counted)
  <2>1. counted \in {0, 1}
    OBVIOUS
  <2>2. f = Append(fed, top)
    BY <1>2, <1>4 DEF Pushed
  <2> HIDE DEF counted
  <2>3. /\ fed \in Seq(Frames) /\ Len(fed) = Depth /\ \A k \in 1 .. Depth - 1 : fed[k] = frames[k]
        /\ fed[Depth].kind = Open.kind /\ fed[Depth].label = Open.label
        /\ fed[Depth].fields = Open.fields /\ fed[Depth].field = Nothing
        /\ fed[Depth].count = Open.count + counted
    BY <1>4, <2>1, FedIs
  <2> HIDE DEF fed, top, f
  <2>4. /\ f \in Seq(Frames) /\ Len(f) = Depth + 1 /\ f[Depth + 1] = top
        /\ \A k \in 1 .. Depth : f[k] = fed[k]
    BY <1>1, <1>2, <2>2, <2>3
  <2>5. Depth \in 1 .. Depth /\ \A k \in 1 .. Depth - 1 : k \in 1 .. Depth
    BY <1>2, <1>4
  <2>6. f[Depth] = fed[Depth] /\ \A k \in 1 .. Depth - 1 : f[k] = frames[k]
    BY <2>3, <2>4, <2>5
  <2> QED
    BY <1>4, <2>3, <2>4, <2>6 DEF top, f, counted
<1> QED
  BY <1>2, <1>3, <1>4

\* The stack below the open container.
LEMMA PoppedIs ==
    ASSUME frames \in Seq(Frames), Depth > 0
    PROVE  /\ Popped \in Seq(Frames) /\ Len(Popped) = Depth - 1
           /\ \A k \in 1 .. Depth - 1 : Popped[k] = frames[k]
<1>1. Depth \in Nat /\ Depth = Len(frames)
  BY DEF Depth
<1> QED
  BY <1>1 DEF Popped

\* A field of the open object.
LEMMA KeyedIs ==
    ASSUME frames \in Seq(Frames), Depth > 0, NEW k \in Names
    PROVE  LET f == [frames EXCEPT ![Depth] = [Open EXCEPT !.field = k, !.fields = @ \cup {k}]] IN
           /\ f \in Seq(Frames) /\ Len(f) = Depth /\ \A j \in 1 .. Depth - 1 : f[j] = frames[j]
           /\ f[Depth].kind = Open.kind /\ f[Depth].label = Open.label
           /\ f[Depth].fields = Open.fields \cup {k} /\ f[Depth].field = k
           /\ f[Depth].count = Open.count
<1> DEFINE top == [Open EXCEPT !.field = k, !.fields = @ \cup {k}]
           f == [frames EXCEPT ![Depth] = [Open EXCEPT !.field = k, !.fields = @ \cup {k}]]
<1>1. Open \in Frames
  BY OpenIs
<1>2. /\ top \in Frames
      /\ top.kind = Open.kind /\ top.label = Open.label
      /\ top.fields = Open.fields \cup {k} /\ top.field = k
      /\ top.count = Open.count
  BY <1>1 DEF Frames
<1>3. f = [frames EXCEPT ![Depth] = top]
  OBVIOUS
<1> HIDE DEF top, f
<1>4. f \in Seq(Frames) /\ Len(f) = Depth /\ f[Depth] = top /\ \A j \in 1 .. Depth - 1 : f[j] = frames[j]
  BY <1>2, <1>3, ReplacedIs
<1> QED
  BY <1>2, <1>4 DEF f

\* The label of what comes next.
LEMMA NextLabelIs ==
    ASSUME frames \in Seq(Frames)
    PROVE  NextLabel \in Names
<1>1. CASE Depth = 0
  BY <1>1 DEF NextLabel, Names
<1>2. CASE Depth > 0
  BY <1>2, OpenIs DEF NextLabel, Names
<1> QED
  BY <1>1, <1>2 DEF Depth

\* Sequences of three and of four elements.
LEMMA TripleIs ==
    ASSUME NEW S, NEW p \in Seq(S), NEW a, NEW b, NEW c
    PROVE  p = <<a, b, c>> <=> Len(p) = 3 /\ p[1] = a /\ p[2] = b /\ p[3] = c
<1>1. ASSUME Len(p) = 3
      PROVE  p = <<p[1], p[2], p[3]>>
  <2> DEFINE t == <<p[1], p[2], p[3]>>
  <2>1. \A i \in 1 .. Len(p) : p[i] \in S
    BY ElementOfSeq
  <2>2. p[1] \in S /\ p[2] \in S /\ p[3] \in S
    BY <1>1, <2>1
  <2>3. t \in Seq(S) /\ Len(t) = 3 /\ t[1] = p[1] /\ t[2] = p[2] /\ t[3] = p[3]
    BY <2>2
  <2> HIDE DEF t
  <2>4. \A i \in 1 .. Len(p) : p[i] = t[i]
    BY <1>1, <2>3
  <2>5. p = t
    BY <1>1, <2>3, <2>4, SeqEqual
  <2> QED
    BY <2>5 DEF t
<1>2. ASSUME p = <<a, b, c>>
      PROVE  Len(p) = 3 /\ p[1] = a /\ p[2] = b /\ p[3] = c
  BY <1>2
<1> QED
  BY <1>1, <1>2, Zenon

\* As before, with one more.
LEMMA QuadrupleIs ==
    ASSUME NEW S, NEW p \in Seq(S), NEW a, NEW b, NEW c, NEW d
    PROVE  p = <<a, b, c, d>> <=> Len(p) = 4 /\ p[1] = a /\ p[2] = b /\ p[3] = c /\ p[4] = d
<1>1. ASSUME Len(p) = 4
      PROVE  p = <<p[1], p[2], p[3], p[4]>>
  <2> DEFINE t == <<p[1], p[2], p[3], p[4]>>
  <2>1. \A i \in 1 .. Len(p) : p[i] \in S
    BY ElementOfSeq
  <2>2. p[1] \in S /\ p[2] \in S /\ p[3] \in S /\ p[4] \in S
    BY <1>1, <2>1
  <2>3. t \in Seq(S) /\ Len(t) = 4 /\ t[1] = p[1] /\ t[2] = p[2] /\ t[3] = p[3] /\ t[4] = p[4]
    BY <2>2
  <2> HIDE DEF t
  <2>4. \A i \in 1 .. Len(p) : p[i] = t[i]
    BY <1>1, <2>3
  <2>5. p = t
    BY <1>1, <2>3, <2>4, SeqEqual
  <2> QED
    BY <2>5 DEF t
<1>2. ASSUME p = <<a, b, c, d>>
      PROVE  Len(p) = 4 /\ p[1] = a /\ p[2] = b /\ p[3] = c /\ p[4] = d
  BY <1>2
<1> QED
  BY <1>1, <1>2, Zenon

\* Where a container may stand, told by its depth and the labels above it.
LEMMA PlacesByDepth ==
    ASSUME frames \in Seq(Frames), NEW l \in Names
    PROVE  /\ Append(Place, l) \in ArrayPlaces <=>
                \/ Depth = 0 /\ l = Nothing
                \/ /\ Depth = 2 /\ frames[1].label = Nothing /\ frames[2].label = Element
                   /\ l = "upstreams"
                \/ /\ Depth = 3 /\ frames[1].label = Nothing /\ frames[2].label = Element
                   /\ frames[3].label = "auth" /\ l = "api_key_envs"
           /\ Append(Place, l) \in ObjectPlaces <=>
                \/ Depth = 1 /\ frames[1].label = Nothing /\ l = Element
                \/ /\ Depth = 2 /\ frames[1].label = Nothing /\ frames[2].label = Element
                   /\ l \in Settings
                \/ /\ Depth = 3 /\ frames[1].label = Nothing /\ frames[2].label = Element
                   /\ frames[3].label = "upstreams" /\ l = Element
<1> DEFINE p == Append(Place, l)
<1>1. Depth \in Nat
  BY DEF Depth
<1>2. ASSUME NEW k \in 1 .. Depth
      PROVE  frames[k].label \in Names
  <2>1. frames[k] \in Frames
    BY ElementOfSeq DEF Depth
  <2> QED
    BY <2>1 DEF Frames
<1>3. Place \in Seq(Names) /\ Len(Place) = Depth /\ \A k \in 1 .. Depth : Place[k] = frames[k].label
  BY <1>1, <1>2 DEF Place
<1>4. /\ p \in Seq(Names) /\ Len(p) = Depth + 1 /\ p[Depth + 1] = l
      /\ \A k \in 1 .. Depth : p[k] = frames[k].label
  BY <1>1, <1>3
<1> HIDE DEF p
<1>5. \A a : p = <<a>> <=> Depth = 0 /\ l = a
  BY <1>1, <1>4, SMTT(30)
<1>6. \A a, b : p = <<a, b>> <=> Depth = 1 /\ frames[1].label = a /\ l = b
  BY <1>1, <1>4, SMTT(30)
<1>7. ASSUME NEW a, NEW b, NEW c
      PROVE  p = <<a, b, c>> <=>
                Depth = 2 /\ frames[1].label = a /\ frames[2].label = b /\ l = c
  <2>1. p = <<a, b, c>> <=> Len(p) = 3 /\ p[1] = a /\ p[2] = b /\ p[3] = c
    BY <1>4, TripleIs
  <2>2. Len(p) = 3 <=> Depth = 2
    BY <1>1, <1>4
  <2>3. Depth = 2 => p[1] = frames[1].label /\ p[2] = frames[2].label /\ p[3] = l
    BY <1>4
  <2> QED
    BY <2>1, <2>2, <2>3, Zenon
<1>8. ASSUME NEW a, NEW b, NEW c, NEW d
      PROVE  p = <<a, b, c, d>> <=>
                /\ Depth = 3 /\ frames[1].label = a /\ frames[2].label = b
                /\ frames[3].label = c /\ l = d
  <2>1. p = <<a, b, c, d>> <=> Len(p) = 4 /\ p[1] = a /\ p[2] = b /\ p[3] = c /\ p[4] = d
    BY <1>4, QuadrupleIs
  <2>2. Len(p) = 4 <=> Depth = 3
    BY <1>1, <1>4
  <2>3. Depth = 3 =>
          p[1] = frames[1].label /\ p[2] = frames[2].label /\ p[3] = frames[3].label /\ p[4] = l
    BY <1>4
  <2> QED
    BY <2>1, <2>2, <2>3, Zenon
<1>9. p \in ArrayPlaces <=>
        \/ p = <<Nothing>> \/ p = <<Nothing, Element, "upstreams">>
        \/ p = <<Nothing, Element, "auth", "api_key_envs">>
  BY Zenon DEF ArrayPlaces
<1>10. p \in ObjectPlaces <=>
        \/ p = <<Nothing, Element>> \/ p = <<Nothing, Element, "upstreams", Element>>
        \/ \E s \in Settings : p = <<Nothing, Element, s>>
  BY Zenon DEF ObjectPlaces
<1>11. p \in ArrayPlaces <=>
         \/ Depth = 0 /\ l = Nothing
         \/ /\ Depth = 2 /\ frames[1].label = Nothing /\ frames[2].label = Element
            /\ l = "upstreams"
         \/ /\ Depth = 3 /\ frames[1].label = Nothing /\ frames[2].label = Element
            /\ frames[3].label = "auth" /\ l = "api_key_envs"
  <2>1. p = <<Nothing>> <=> Depth = 0 /\ l = Nothing
    BY <1>5, Zenon
  <2>2. p = <<Nothing, Element, "upstreams">> <=>
          Depth = 2 /\ frames[1].label = Nothing /\ frames[2].label = Element /\ l = "upstreams"
    BY <1>7, Zenon
  <2>3. p = <<Nothing, Element, "auth", "api_key_envs">> <=>
          /\ Depth = 3 /\ frames[1].label = Nothing /\ frames[2].label = Element
          /\ frames[3].label = "auth" /\ l = "api_key_envs"
    BY <1>8, Zenon
  <2> QED
    BY <1>9, <2>1, <2>2, <2>3, Zenon
<1>12. p \in ObjectPlaces <=>
         \/ Depth = 1 /\ frames[1].label = Nothing /\ l = Element
         \/ /\ Depth = 2 /\ frames[1].label = Nothing /\ frames[2].label = Element
            /\ l \in Settings
         \/ /\ Depth = 3 /\ frames[1].label = Nothing /\ frames[2].label = Element
            /\ frames[3].label = "upstreams" /\ l = Element
  <2>1. p = <<Nothing, Element>> <=> Depth = 1 /\ frames[1].label = Nothing /\ l = Element
    BY <1>6, Zenon
  <2>2. \A s : p = <<Nothing, Element, s>> <=>
          Depth = 2 /\ frames[1].label = Nothing /\ frames[2].label = Element /\ l = s
    BY <1>7, Zenon
  <2>3. p = <<Nothing, Element, "upstreams", Element>> <=>
          /\ Depth = 3 /\ frames[1].label = Nothing /\ frames[2].label = Element
          /\ frames[3].label = "upstreams" /\ l = Element
    BY <1>8, Zenon
  <2>4. (\E s \in Settings : p = <<Nothing, Element, s>>) <=>
          Depth = 2 /\ frames[1].label = Nothing /\ frames[2].label = Element /\ l \in Settings
    BY <2>2, Zenon
  <2> QED
    BY <1>10, <2>1, <2>3, <2>4, Zenon
<1> QED
  BY <1>11, <1>12, Zenon DEF p

\* The depth of what the callback understands.
LEMMA DepthIs ==
    ASSUME Remembered
    PROVE  frames \in Seq(Frames) /\ Depth \in 0 .. 4 /\ Depth = Len(frames)
<1>1. frames \in Seq(Frames) /\ Depth <= 4
  BY DEF Remembered
<1>2. Depth = Len(frames) /\ Len(frames) \in Nat
  BY <1>1 DEF Depth
<1> QED
  BY <1>1, <1>2

\* A container that has just been opened.
LEMMA FrameIs ==
    ASSUME NEW kind, NEW label
    PROVE  /\ Frame(kind, label).kind = kind /\ Frame(kind, label).label = label
           /\ Frame(kind, label).fields = {} /\ Frame(kind, label).field = Nothing
           /\ Frame(kind, label).count = 0
BY DEF Frame, Nothing

\* A refusal at an event that breaks a rule keeps the invariant.
LEMMA RefusedInv ==
    ASSUME DocumentInv, Refuse, flaw' = TRUE
    PROVE  DocumentInv'
BY DEF DocumentInv, Refuse, stateOfCallback

\* An event that breaks no rule keeps it, when it keeps what is remembered.
LEMMA RememberedInv ==
    ASSUME DocumentInv, verdict' = "reading", flaw' = FALSE, Remembered',
           in_upstreams' \in BOOLEAN, in_key_envs' \in BOOLEAN
    PROVE  DocumentInv'
BY DEF DocumentInv

\* A value is expected in the open array, or for the open object's field.
LEMMA ExpectedIs ==
    ASSUME frames \in Seq(Frames), ValueExpected, Depth > 0
    PROVE  /\ Open.kind = "array" => NextLabel = Element
           /\ Open.kind = "object" => NextLabel = Open.field /\ Open.field # ""
<1>1. Open.kind \in {"array", "object"}
  BY OpenIs
<1>2. Open.kind = "array" \/ Open.field # ""
  BY DEF ValueExpected
<1>3. NextLabel = IF Open.kind = "array" THEN Element ELSE Open.field
  BY DEF NextLabel, Depth
<1> QED
  BY <1>1, <1>2, <1>3

\* array_start
LEMMA ArrayStartInv ==
    ASSUME DocumentInv, verdict = "reading", ArrayStart
    PROVE  DocumentInv'
<1>1. Remembered
  BY DEF DocumentInv
<1>0. ValueExpected /\ 0 <= max_routes /\ 0 <= max_upstreams /\ 0 <= max_keys
  BY DocumentAssumption DEF ArrayStart
<1>2. frames \in Seq(Frames) /\ Depth \in 0 .. 4 /\ Depth = Len(frames)
  BY <1>1, DepthIs
<1>3. NextLabel \in Names
  BY <1>2, NextLabelIs
<1>4. frames' = Pushed("array")
  BY DEF ArrayStart
<1>5. /\ frames' \in Seq(Frames) /\ Len(frames') = Depth + 1
      /\ \A k \in 1 .. Depth - 1 : frames'[k] = frames[k]
      /\ frames'[Depth + 1] = Frame("array", NextLabel)
      /\ Depth > 0 =>
           /\ frames'[Depth].kind = Open.kind /\ frames'[Depth].label = Open.label
           /\ frames'[Depth].fields = Open.fields /\ frames'[Depth].field = Nothing
           /\ frames'[Depth].count = Open.count
  <2>1. Depth > 0 => Open.count + 0 = Open.count
    BY <1>2, OpenIs
  <2> QED
    BY <1>2, <1>3, <1>4, <2>1, PushedIs
<1>6. /\ frames'[Depth + 1].kind = "array" /\ frames'[Depth + 1].label = NextLabel
      /\ frames'[Depth + 1].fields = {} /\ frames'[Depth + 1].field = Nothing
      /\ frames'[Depth + 1].count = 0
  BY <1>5, FrameIs
<1>7. flaw' = (Append(Place, NextLabel) \notin ArrayPlaces)
  BY DEF ArrayStart
<1>8. Append(Place, NextLabel) \in ArrayPlaces <=>
        \/ Depth = 0 /\ NextLabel = Nothing
        \/ Depth = 2 /\ NextLabel = "upstreams"
        \/ Depth = 3 /\ frames[3].label = "auth" /\ NextLabel = "api_key_envs"
  <2>1. Depth >= 1 => frames[1].label = Nothing
    BY <1>1 DEF Remembered, Level1, IsAt
  <2>2. Depth >= 2 => frames[2].label = Element
    BY <1>1 DEF Remembered, Level2, IsAt
  <2> QED
    BY <1>2, <1>3, <2>1, <2>2, PlacesByDepth
<1>9. in_upstreams \in BOOLEAN /\ in_key_envs \in BOOLEAN
  BY DEF DocumentInv
<1>10. Depth' = Depth + 1
  BY <1>5 DEF Depth
<1>15. Depth # 0 => Depth > 0
  BY <1>2
<1>16. 2 # 0 /\ 3 # 0
  OBVIOUS
<1>11. CASE Depth = 0
  <2>1. UNCHANGED <<stateOfCallback, verdict>>
    BY <1>11 DEF ArrayStart
  <2>2. NextLabel = Nothing
    BY <1>11 DEF NextLabel
  <2>3. flaw' = FALSE
    BY <1>7, <1>8, <1>11, <2>2
  <2>4. Remembered'
    <3>1. object_count = 0
      BY <1>1, <1>11 DEF Remembered
    <3>2. frames'[1].kind = "array" /\ frames'[1].label = Nothing /\ frames'[1].count = 0
      BY <1>6, <1>11, <2>2
    <3>3. Level1'
      BY <2>1, <3>1, <3>2, <1>0 DEF Level1, IsAt, stateOfCallback
    <3>4. ~in_upstreams /\ ~in_key_envs
      BY <1>1, <1>11 DEF Remembered
    <3> QED
      BY <1>1, <1>5, <1>10, <1>11, <2>1, <3>3, <3>4 DEF Remembered, stateOfCallback
  <2> QED
    BY <1>9, <2>1, <2>3, <2>4, RememberedInv DEF stateOfCallback
<1>12. CASE Depth = 2 /\ route_key = "upstreams"
  <2>1. /\ upstream_count' = 0 /\ in_upstreams' = TRUE
        /\ UNCHANGED <<keys, route_key, object_count, auth_key, in_key_envs, reference_count, verdict>>
    BY <1>12 DEF ArrayStart
  <2>2. Level1 /\ Level2 /\ Open = frames[2]
    BY <1>1, <1>12 DEF Remembered, Open
  <2>3. NextLabel = frames[2].field /\ frames[2].field # ""
    <3>1. Open.kind = "object"
      BY <2>2 DEF Level2, IsAt
    <3>2. NextLabel = Open.field /\ Open.field # ""
      BY <1>0, <1>2, <1>15, <1>16, <1>12, <3>1, ExpectedIs, Zenon
    <3> QED
      BY <2>2, <3>2
  <2>4. NextLabel = "upstreams"
    BY <1>12, <2>2, <2>3 DEF Level2
  <2>5. flaw' = FALSE
    BY <1>7, <1>8, <1>12, <2>4
  <2>6. frames'[1] = frames[1]
    BY <1>5, <1>12
  <2>7. /\ frames'[2].kind = "object" /\ frames'[2].label = Element
        /\ frames'[2].fields = frames[2].fields /\ frames'[2].field = Nothing
    <3>1. /\ frames'[2].kind = Open.kind /\ frames'[2].label = Open.label
          /\ frames'[2].fields = Open.fields /\ frames'[2].field = Nothing
      BY <1>5, <1>12
    <3> QED
      BY <2>2, <3>1 DEF Level2, IsAt
  <2>8. frames'[3].kind = "array" /\ frames'[3].label = "upstreams" /\ frames'[3].count = 0
    BY <1>6, <1>12, <2>4
  <2>9. Level1'
    BY <2>1, <2>2, <2>6 DEF Level1, IsAt
  <2>10. Level2'
    BY <2>1, <2>2, <2>7 DEF Level2, IsAt, Nothing
  <2>11. Level3'
    <3>1. InPool'
      BY <1>0, <2>1, <2>8, Zenon DEF InPool, IsAt
    <3> QED
      BY <1>12, <2>1, <2>7, <2>8, <3>1, Zenon DEF Level3, Nothing
  <2>12. ~in_key_envs
    BY <1>1, <1>12 DEF Remembered
  <2>13. Remembered'
    BY <1>1, <1>5, <1>10, <1>12, <2>1, <2>8, <2>9, <2>10, <2>11, <2>12 DEF Remembered
  <2> QED
    BY <1>9, <2>1, <2>5, <2>13, RememberedInv
<1>13. CASE Depth = 3 /\ route_key = "auth" /\ auth_key = "api_key_envs"
  <2>1. /\ reference_count' = 0 /\ in_key_envs' = TRUE
        /\ UNCHANGED <<keys, route_key, object_count, upstream_count, in_upstreams, auth_key, verdict>>
    BY <1>13 DEF ArrayStart
  <2>2. Level1 /\ Level2 /\ Level3 /\ Open = frames[3]
    BY <1>1, <1>13 DEF Remembered, Open
  <2>3. frames[3].label = "auth" /\ InSettings
    BY <1>13, <2>2 DEF Level3, InPool, IsAt
  <2>4. NextLabel = frames[3].field /\ frames[3].field # ""
    <3>1. Open.kind = "object"
      BY <2>2, <2>3 DEF InSettings
    <3>2. NextLabel = Open.field /\ Open.field # ""
      BY <1>0, <1>2, <1>15, <1>16, <1>13, <3>1, ExpectedIs, Zenon
    <3> QED
      BY <2>2, <3>2
  <2>5. NextLabel = "api_key_envs"
    BY <1>13, <2>3, <2>4 DEF InSettings
  <2>6. flaw' = FALSE
    BY <1>7, <1>8, <1>13, <2>3, <2>5
  <2>7. frames'[1] = frames[1] /\ frames'[2] = frames[2]
    BY <1>5, <1>13
  <2>8. /\ frames'[3].kind = "object" /\ frames'[3].label = "auth"
        /\ frames'[3].fields = frames[3].fields /\ frames'[3].field = Nothing
    <3>1. /\ frames'[3].kind = Open.kind /\ frames'[3].label = Open.label
          /\ frames'[3].fields = Open.fields /\ frames'[3].field = Nothing
      BY <1>5, <1>13
    <3> QED
      BY <2>2, <2>3, <3>1 DEF InSettings
  <2>9. frames'[4].kind = "array" /\ frames'[4].label = "api_key_envs" /\ frames'[4].count = 0
    BY <1>6, <1>13, <2>5
  <2>10. Level1' /\ Level2'
    BY <2>1, <2>2, <2>7 DEF Level1, Level2, IsAt
  <2>11. Level3'
    BY <1>13, <2>1, <2>2, <2>3, <2>7, <2>8 DEF Level3, InSettings, Nothing, Settings
  <2>12. InKeyEnvs'
    BY <1>0, <2>1, <2>8, <2>9, Zenon DEF InKeyEnvs, IsAt, Nothing
  <2>13. ~in_upstreams
    BY <1>1, <1>13, <2>3 DEF Remembered, InSettings
  <2>14. Remembered'
    BY <1>1, <1>5, <1>10, <1>13, <2>1, <2>8, <2>9, <2>10, <2>11, <2>12, <2>13 DEF Remembered
  <2> QED
    BY <1>9, <2>1, <2>6, <2>14, RememberedInv
<1>14. CASE /\ Depth # 0
            /\ ~(Depth = 2 /\ route_key = "upstreams")
            /\ ~(Depth = 3 /\ route_key = "auth" /\ auth_key = "api_key_envs")
  <2>1. Refuse
    BY <1>14 DEF ArrayStart
  <2>2. ASSUME Depth = 2, NextLabel = "upstreams"
        PROVE  FALSE
    <3>1. Level2 /\ Open = frames[2]
      BY <1>1, <2>2 DEF Remembered, Open
    <3>2. NextLabel = frames[2].field /\ frames[2].field # ""
      <4>1. Open.kind = "object"
        BY <3>1 DEF Level2, IsAt
      <4>2. NextLabel = Open.field /\ Open.field # ""
        BY <1>0, <1>2, <1>15, <1>16, <2>2, <4>1, ExpectedIs, Zenon
      <4> QED
        BY <3>1, <4>2
    <3> QED
      BY <1>14, <2>2, <3>1, <3>2 DEF Level2
  <2>3. ASSUME Depth = 3, frames[3].label = "auth", NextLabel = "api_key_envs"
        PROVE  FALSE
    <3>1. Level3 /\ Open = frames[3]
      BY <1>1, <2>3 DEF Remembered, Open
    <3>2. InSettings
      BY <2>3, <3>1 DEF Level3, InPool, IsAt
    <3>3. NextLabel = frames[3].field /\ frames[3].field # ""
      <4>1. Open.kind = "object"
        BY <3>1, <3>2 DEF InSettings
      <4>2. NextLabel = Open.field /\ Open.field # ""
        BY <1>0, <1>2, <1>15, <1>16, <2>3, <4>1, ExpectedIs, Zenon
      <4> QED
        BY <3>1, <4>2
    <3> QED
      BY <1>14, <2>3, <3>1, <3>2, <3>3 DEF Level3, InSettings
  <2>4. flaw' = TRUE
    BY <1>7, <1>8, <1>14, <2>2, <2>3
  <2> QED
    BY <2>1, <2>4, RefusedInv
<1> QED
  BY <1>11, <1>12, <1>13, <1>14

\* The end of a container below the outermost one: what is remembered of those that
\* stay open is still true.
LEMMA PoppedInv ==
    ASSUME Remembered, Depth \in 2 .. 4, frames' = Popped,
           UNCHANGED <<keys, route_key, object_count, upstream_count, auth_key, reference_count>>,
           in_upstreams' <=> (Depth = 4 /\ frames[3].kind = "array"), ~in_key_envs'
    PROVE  Remembered'
<1>1. frames \in Seq(Frames) /\ Depth \in 0 .. 4 /\ Depth = Len(frames)
  BY DepthIs
<1>2. frames' \in Seq(Frames) /\ Len(frames') = Depth - 1 /\ \A k \in 1 .. Depth - 1 : frames'[k] = frames[k]
  BY <1>1, PoppedIs
<1>3. Depth' = Depth - 1
  BY <1>2 DEF Depth
<1>4. Level1'
  <2>1. frames'[1] = frames[1] /\ Level1
    BY <1>1, <1>2 DEF Remembered
  <2> QED
    BY <2>1 DEF Level1, IsAt
<1>5. Depth >= 3 => Level2'
  <2> SUFFICES ASSUME Depth >= 3 PROVE Level2'
    OBVIOUS
  <2>1. frames'[2] = frames[2] /\ Level2
    BY <1>1, <1>2 DEF Remembered
  <2> QED
    BY <2>1 DEF Level2, IsAt
<1>6. Depth = 4 => Level3' /\ frames'[3] = frames[3]
  <2> SUFFICES ASSUME Depth = 4 PROVE Level3' /\ frames'[3] = frames[3]
    OBVIOUS
  <2>1. frames'[2] = frames[2] /\ frames'[3] = frames[3] /\ Level3
    BY <1>1, <1>2 DEF Remembered
  <2> QED
    BY <2>1 DEF Level3, InPool, InSettings, IsAt
<1>7. keys \in [0 .. 2 -> SUBSET Names] /\ {object_count, upstream_count, reference_count} \subseteq Nat
  BY DEF Remembered
<1>8. in_upstreams' <=> (Depth' >= 3 /\ frames'[3].kind = "array")
  BY <1>1, <1>3, <1>6
<1>9. in_key_envs' <=> (Depth' >= 4 /\ frames'[4].kind = "array")
  BY <1>1, <1>3
<1> QED
  BY <1>1, <1>2, <1>3, <1>4, <1>5, <1>6, <1>7, <1>8, <1>9, SMTT(30) DEF Remembered

\* array_end
LEMMA ArrayEndInv ==
    ASSUME DocumentInv, verdict = "reading", ArrayEnd
    PROVE  DocumentInv'
<1>1. Remembered /\ flaw = FALSE /\ in_upstreams \in BOOLEAN /\ in_key_envs \in BOOLEAN
  BY DEF DocumentInv
<1>2. frames \in Seq(Frames) /\ Depth \in 0 .. 4 /\ Depth = Len(frames)
  BY <1>1, DepthIs
<1>3. /\ Depth > 0 /\ Open.kind = "array" /\ frames' = Popped
      /\ in_upstreams' = (in_upstreams /\ Depth - 1 # 2)
      /\ in_key_envs' = (in_key_envs /\ Depth - 1 # 3)
      /\ verdict' = (IF Depth = 1 THEN "read" ELSE verdict)
      /\ UNCHANGED <<keys, route_key, object_count, upstream_count, auth_key, reference_count, flaw>>
  BY DEF ArrayEnd
<1>4. in_upstreams' \in BOOLEAN /\ in_key_envs' \in BOOLEAN
  BY <1>3
<1>5. CASE Depth = 1
  BY <1>1, <1>3, <1>4, <1>5 DEF DocumentInv
<1>6. CASE Depth # 1
  <2>1. Depth \in 2 .. 4 /\ verdict' = "reading" /\ flaw' = FALSE
    BY <1>1, <1>2, <1>3, <1>6
  <2>2. in_upstreams <=> (Depth >= 3 /\ frames[3].kind = "array")
    BY <1>1 DEF Remembered
  <2>3. in_key_envs <=> (Depth >= 4 /\ frames[4].kind = "array")
    BY <1>1 DEF Remembered
  <2>4. in_upstreams' <=> (Depth = 4 /\ frames[3].kind = "array")
    <3>1. in_upstreams' <=> in_upstreams /\ Depth # 3
      <4>1. Depth - 1 # 2 <=> Depth # 3
        BY <1>2
      <4>2. in_upstreams' = (in_upstreams /\ Depth - 1 # 2)
        BY <1>3
      <4> QED
        BY <4>1, <4>2, Zenon
    <3> QED
      BY <2>1, <2>2, <3>1
  <2>5. ~in_key_envs'
    <3>1. in_key_envs' <=> in_key_envs /\ Depth # 4
      <4>1. Depth - 1 # 3 <=> Depth # 4
        BY <1>2
      <4>2. in_key_envs' = (in_key_envs /\ Depth - 1 # 3)
        BY <1>3
      <4> QED
        BY <4>1, <4>2, Zenon
    <3> QED
      BY <2>1, <2>3, <3>1
  <2>6. Remembered'
    BY <1>1, <1>3, <2>1, <2>4, <2>5, PoppedInv
  <2> QED
    BY <1>4, <2>1, <2>6, RememberedInv
<1> QED
  BY <1>5, <1>6

\* object_end
LEMMA ObjectEndInv ==
    ASSUME DocumentInv, verdict = "reading", ObjectEnd
    PROVE  DocumentInv'
<1>1. Remembered /\ flaw = FALSE /\ in_upstreams \in BOOLEAN /\ in_key_envs \in BOOLEAN
  BY DEF DocumentInv
<1>2. frames \in Seq(Frames) /\ Depth \in 0 .. 4 /\ Depth = Len(frames)
  BY <1>1, DepthIs
<1>3. Depth > 0 /\ Open.kind = "object" /\ frames' = Popped /\ UNCHANGED <<stateOfCallback, verdict, flaw>>
  BY DEF ObjectEnd
<1>4. Depth # 1
  BY <1>1, <1>3 DEF Remembered, Level1, IsAt, Open
<1>5. Depth \in 2 .. 4
  BY <1>2, <1>3, <1>4
<1>6. in_upstreams <=> (Depth >= 3 /\ frames[3].kind = "array")
  BY <1>1 DEF Remembered
<1>7. in_key_envs <=> (Depth >= 4 /\ frames[4].kind = "array")
  BY <1>1 DEF Remembered
<1>8. Open = frames[Depth]
  BY DEF Open
<1>9. in_upstreams' <=> (Depth = 4 /\ frames[3].kind = "array")
  <2>1. Depth = 3 => frames[3].kind # "array"
    BY <1>3, <1>8
  <2>2. in_upstreams' = in_upstreams
    BY <1>3 DEF stateOfCallback
  <2> QED
    BY <1>5, <1>6, <2>1, <2>2
<1>10. ~in_key_envs'
  <2>1. Depth = 4 => frames[4].kind # "array"
    BY <1>3, <1>8
  <2>2. in_key_envs' = in_key_envs
    BY <1>3 DEF stateOfCallback
  <2> QED
    BY <1>5, <1>7, <2>1, <2>2
<1>11. Remembered'
  BY <1>1, <1>3, <1>5, <1>9, <1>10, PoppedInv DEF stateOfCallback
<1> QED
  BY <1>1, <1>3, <1>11, RememberedInv DEF stateOfCallback

\* What an array may hold, by its depth.
LEMMA AllowanceIs ==
    /\ Depth = 1 => Allowance = max_routes
    /\ Depth = 3 => Allowance = max_upstreams
    /\ Depth = 4 => Allowance = max_keys
<1>1. ASSUME Depth = 1
      PROVE  Allowance = max_routes
  BY <1>1 DEF Allowance
<1>2. ASSUME Depth = 3
      PROVE  Allowance = max_upstreams
  BY <1>2 DEF Allowance
<1>3. ASSUME Depth = 4
      PROVE  Allowance = max_keys
  BY <1>3 DEF Allowance
<1> QED
  BY <1>1, <1>2, <1>3

\* value
LEMMA ValueInv ==
    ASSUME DocumentInv, verdict = "reading", NEW refers \in BOOLEAN, Value(refers)
    PROVE  DocumentInv'
<1>1. Remembered /\ flaw = FALSE /\ in_upstreams \in BOOLEAN /\ in_key_envs \in BOOLEAN
  BY DEF DocumentInv
<1>2. frames \in Seq(Frames) /\ Depth \in 1 .. 4 /\ Depth = Len(frames) /\ Depth > 0
  <2>1. Depth > 0
    BY DEF Value
  <2> QED
    BY <1>1, <2>1, DepthIs
<1> DEFINE entry == Depth = 4 /\ Open.kind = "array"
           counted == IF entry THEN 1 ELSE 0
<1>3. /\ frames' = Fed(counted)
      /\ flaw' = (entry /\ (~refers \/ Open.count = Allowance))
  BY DEF Value
<1>4. counted \in {0, 1}
  OBVIOUS
<1> HIDE DEF counted
<1>5. /\ frames' \in Seq(Frames) /\ Len(frames') = Depth /\ \A k \in 1 .. Depth - 1 : frames'[k] = frames[k]
      /\ frames'[Depth].kind = Open.kind /\ frames'[Depth].label = Open.label
      /\ frames'[Depth].fields = Open.fields /\ frames'[Depth].field = Nothing
      /\ frames'[Depth].count = Open.count + counted
  BY <1>2, <1>3, <1>4, FedIs
<1>6. Depth' = Depth /\ Open = frames[Depth]
  BY <1>5 DEF Depth, Open
<1>7. Open.count \in Nat
  BY <1>2, OpenIs
<1>8. Depth = 4 => (in_key_envs <=> Open.kind = "array")
  BY <1>1, <1>6 DEF Remembered
<1>9. keys \in [0 .. 2 -> SUBSET Names] /\ {object_count, upstream_count, reference_count} \subseteq Nat
  BY <1>1 DEF Remembered
<1>10. CASE entry
  <2>1. Depth = 4 /\ in_key_envs /\ InKeyEnvs /\ Level1 /\ Level2 /\ Level3
    BY <1>1, <1>6, <1>8, <1>10 DEF Remembered, InUpstream, IsAt
  <2>2. Open.count = reference_count /\ reference_count <= max_keys /\ Allowance = max_keys
    <3>1. Open = frames[4]
      BY <1>6, <2>1
    <3>2. Open.count = reference_count /\ reference_count <= max_keys
      BY <2>1, <3>1 DEF InKeyEnvs
    <3>3. Allowance = max_keys
      BY <2>1, AllowanceIs
    <3> QED
      BY <3>2, <3>3
  <2>3. IF ~refers \/ reference_count + 1 > max_keys THEN Refuse
        ELSE /\ reference_count' = reference_count + 1
             /\ UNCHANGED <<keys, route_key, object_count, upstream_count, in_upstreams,
                            auth_key, in_key_envs, verdict>>
    BY <2>1 DEF Value
  <2>4. max_keys \in Nat /\ reference_count \in Nat
    BY <1>9, DocumentAssumption
  <2>5. reference_count + 1 > max_keys <=> reference_count = max_keys
    BY <2>2, <2>4
  <2>6. CASE ~refers \/ reference_count = max_keys
    <3>1. flaw' = TRUE
      BY <1>3, <1>10, <2>2, <2>6
    <3> QED
      BY <2>3, <2>5, <2>6, <3>1, RefusedInv
  <2>7. CASE refers /\ reference_count # max_keys
    <3>1. flaw' = FALSE
      BY <1>3, <2>2, <2>7
    <3>2. /\ reference_count' = reference_count + 1
          /\ UNCHANGED <<keys, route_key, object_count, upstream_count, in_upstreams,
                         auth_key, in_key_envs, verdict>>
      BY <2>3, <2>5, <2>7
    <3>3. frames'[1] = frames[1] /\ frames'[2] = frames[2] /\ frames'[3] = frames[3]
      BY <1>5, <2>1
    <3>4. /\ frames'[4].kind = frames[4].kind /\ frames'[4].label = frames[4].label
          /\ frames'[4].count = reference_count + 1
      BY <1>5, <1>6, <1>10, <2>1, <2>2 DEF counted
    <3>5. Level1' /\ Level2'
      BY <2>1, <3>2, <3>3 DEF Level1, Level2, IsAt
    <3>6. Level3'
      BY <2>1, <3>2, <3>3 DEF Level3, InPool, InSettings, IsAt
    <3>7. reference_count' <= max_keys /\ reference_count' \in Nat
      BY <2>2, <2>4, <2>7, <3>2
    <3>8. InKeyEnvs'
      BY <2>1, <3>2, <3>3, <3>4, <3>7 DEF InKeyEnvs, IsAt
    <3>9. in_upstreams' <=> (Depth' >= 3 /\ frames'[3].kind = "array")
      BY <1>1, <1>6, <3>2, <3>3 DEF Remembered
    <3>10. in_key_envs' <=> (Depth' >= 4 /\ frames'[4].kind = "array")
      BY <1>1, <1>6, <3>2, <3>4 DEF Remembered
    <3>11. {object_count', upstream_count', reference_count'} \subseteq Nat /\ keys' \in [0 .. 2 -> SUBSET Names]
      BY <1>9, <3>2, <3>7
    <3>12. Remembered'
      BY <1>5, <1>6, <2>1, <3>5, <3>6, <3>8, <3>9, <3>10, <3>11 DEF Remembered
    <3> QED
      BY <1>1, <3>1, <3>2, <3>12, RememberedInv
  <2> QED
    BY <2>6, <2>7
<1>11. CASE ~entry
  <2>1. UNCHANGED <<stateOfCallback, verdict>> /\ flaw' = FALSE
    <3>1. ~(Depth = 4 /\ in_key_envs)
      BY <1>8, <1>11
    <3> QED
      BY <1>3, <1>11, <3>1 DEF Value
  <2>2. /\ frames'[Depth].kind = frames[Depth].kind /\ frames'[Depth].label = frames[Depth].label
        /\ frames'[Depth].fields = frames[Depth].fields /\ frames'[Depth].field = Nothing
        /\ frames'[Depth].count = frames[Depth].count
    BY <1>5, <1>6, <1>7, <1>11 DEF counted
  <2>3. UNCHANGED <<keys, route_key, object_count, upstream_count, in_upstreams, auth_key,
                    in_key_envs, reference_count, verdict>>
    BY <2>1 DEF stateOfCallback
  <2>4. ASSUME NEW n \in 1 .. Depth
        PROVE  /\ frames'[n].kind = frames[n].kind /\ frames'[n].label = frames[n].label
               /\ frames'[n].fields = frames[n].fields /\ frames'[n].count = frames[n].count
               /\ frames'[n].field \in {Nothing, frames[n].field}
               /\ frames[n].field = Nothing => frames'[n].field = Nothing
    <3>1. CASE n = Depth
      BY <2>2, <3>1
    <3>2. CASE n # Depth
      <4>1. n \in 1 .. Depth - 1
        BY <1>2, <3>2
      <4> QED
        BY <1>5, <4>1
    <3> QED
      BY <3>1, <3>2
  <2>5. Level1'
    BY <1>1, <1>2, <2>3, <2>4 DEF Remembered, Level1, IsAt
  <2>6. Depth >= 2 => Level2'
    <3> SUFFICES ASSUME Depth >= 2 PROVE Level2'
      OBVIOUS
    <3>1. 2 \in 1 .. Depth /\ Level2
      BY <1>1, <1>2 DEF Remembered
    <3> QED
      BY <2>3, <2>4, <3>1 DEF Level2, IsAt, Nothing
  <2>7. Depth >= 3 => Level3'
    <3> SUFFICES ASSUME Depth >= 3 PROVE Level3'
      OBVIOUS
    <3>1. 2 \in 1 .. Depth /\ 3 \in 1 .. Depth /\ Level3
      BY <1>1, <1>2 DEF Remembered
    <3> QED
      BY <2>3, <2>4, <3>1 DEF Level3, InPool, InSettings, IsAt, Nothing
  <2>8. Depth >= 4 => InUpstream' \/ InKeyEnvs'
    <3> SUFFICES ASSUME Depth >= 4 PROVE InUpstream' \/ InKeyEnvs'
      OBVIOUS
    <3>1. 3 \in 1 .. Depth /\ 4 \in 1 .. Depth /\ (InUpstream \/ InKeyEnvs)
      BY <1>1, <1>2 DEF Remembered
    <3> QED
      BY <2>3, <2>4, <3>1 DEF InUpstream, InKeyEnvs, IsAt, Nothing
  <2>9. in_upstreams' <=> (Depth' >= 3 /\ frames'[3].kind = "array")
    BY <1>1, <1>2, <1>6, <2>3, <2>4 DEF Remembered
  <2>10. in_key_envs' <=> (Depth' >= 4 /\ frames'[4].kind = "array")
    BY <1>1, <1>2, <1>6, <2>3, <2>4 DEF Remembered
  <2>11. Remembered'
    <3>1. frames' \in Seq(Frames) /\ keys' \in [0 .. 2 -> SUBSET Names]
      BY <1>5, <1>9, <2>3
    <3>2. Depth' <= 4 /\ (Depth' = 0 => object_count' = 0)
      BY <1>2, <1>6
    <3>3. {object_count', upstream_count', reference_count'} \subseteq Nat
      BY <1>9, <2>3
    <3>4. /\ Depth' >= 1 => Level1'
          /\ Depth' >= 2 => Level2'
          /\ Depth' >= 3 => Level3'
          /\ Depth' >= 4 => InUpstream' \/ InKeyEnvs'
      BY <1>6, <2>5, <2>6, <2>7, <2>8, Zenon
    <3> QED
      BY <2>9, <2>10, <3>1, <3>2, <3>3, <3>4, Zenon DEF Remembered
  <2> QED
    BY <1>1, <2>1, <2>3, <2>11, RememberedInv
<1> QED
  BY <1>10, <1>11

\* The names that are tried are names, and not empty.
LEMMA FieldNamesAreNames ==
    ASSUME Depth \in 2 .. 4, NEW k \in FieldNames
    PROVE  k \in Names /\ k # ""
<1>1. k \in RouteKeys \cup SettingKeys \cup UpstreamKeys
  <2>1. CASE Depth = 2
    BY <2>1 DEF FieldNames
  <2>2. CASE Depth = 3
    BY <2>2 DEF FieldNames
  <2>3. CASE Depth = 4
    BY <2>3 DEF FieldNames
  <2> QED
    BY <2>1, <2>2, <2>3
<1>2. k \in Names
  BY <1>1 DEF Names
<1>3. k # ""
  BY <1>1, NameAssumption, Zenon
<1> QED
  BY <1>2, <1>3

\* key
LEMMA KeyInv ==
    ASSUME DocumentInv, verdict = "reading", NEW k \in FieldNames, Key(k)
    PROVE  DocumentInv'
<1>1. Remembered /\ flaw = FALSE /\ in_upstreams \in BOOLEAN /\ in_key_envs \in BOOLEAN
  BY DEF DocumentInv
<1>2. frames \in Seq(Frames) /\ Depth \in 0 .. 4 /\ Depth = Len(frames)
  BY <1>1, DepthIs
<1>3. /\ Depth > 0 /\ Open.kind = "object" /\ Open.field = ""
      /\ frames' = [frames EXCEPT ![Depth] = [Open EXCEPT !.field = k, !.fields = @ \cup {k}]]
      /\ flaw' = (k \in Open.fields \/ (Open.label = "auth" /\ UnknownAuthKey(k)))
      /\ IF \/ Depth = 3 /\ route_key = "auth" /\ UnknownAuthKey(k)
            \/ Depth \notin 2 .. 4
            \/ k \in keys[Depth - 2]
         THEN Refuse
         ELSE /\ keys' = [keys EXCEPT ![Depth - 2] = @ \cup {k}]
              /\ auth_key' = (IF Depth = 3 /\ route_key = "auth" THEN k ELSE auth_key)
              /\ route_key' = (IF Depth = 2 THEN k ELSE route_key)
              /\ UNCHANGED <<object_count, upstream_count, in_upstreams, in_key_envs,
                             reference_count, verdict>>
  BY DEF Key
<1>4. Open = frames[Depth]
  BY DEF Open
<1>14. Depth > 0 /\ Open.kind = "object"
  BY DEF Key
<1>5. Depth # 1
  BY <1>1, <1>4, <1>14 DEF Remembered, Level1, IsAt
<1>6. Depth \in 2 .. 4
  BY <1>2, <1>5, <1>14
<1>15. \A d \in 2 .. 4 : Depth = d => Open = frames[d] /\ frames[d].kind = "object"
  BY <1>4, <1>14
<1>16. frames' = [frames EXCEPT ![Depth] = [Open EXCEPT !.field = k, !.fields = @ \cup {k}]]
  BY DEF Key
<1>7. k \in Names /\ k # ""
  BY <1>6, FieldNamesAreNames
<1>8. /\ frames' \in Seq(Frames) /\ Len(frames') = Depth /\ \A j \in 1 .. Depth - 1 : frames'[j] = frames[j]
      /\ frames'[Depth].kind = Open.kind /\ frames'[Depth].label = Open.label
      /\ frames'[Depth].fields = Open.fields \cup {k} /\ frames'[Depth].field = k
  BY <1>2, <1>14, <1>16, <1>7, KeyedIs
<1>9. Depth' = Depth
  BY <1>8 DEF Depth
<1>10. /\ Level1 /\ Level2
       /\ Depth >= 3 => Level3
       /\ Depth = 3 => InSettings
       /\ Depth = 4 => InUpstream
  <2>1. Level1 /\ Level2 /\ (Depth >= 3 => Level3) /\ (Depth >= 4 => InUpstream \/ InKeyEnvs)
    BY <1>1, <1>6 DEF Remembered
  <2>2. Depth = 3 => InSettings
    <3> SUFFICES ASSUME Depth = 3 PROVE InSettings
      OBVIOUS
    <3>1. frames[3].kind = "object" /\ Level3
      BY <1>15, <2>1
    <3> QED
      BY <3>1 DEF Level3, InPool, IsAt
  <2>3. Depth = 4 => InUpstream
    <3> SUFFICES ASSUME Depth = 4 PROVE InUpstream
      OBVIOUS
    <3>1. frames[4].kind = "object" /\ (InUpstream \/ InKeyEnvs)
      BY <1>15, <2>1
    <3> QED
      BY <3>1 DEF InKeyEnvs, IsAt
  <2> QED
    BY <1>6, <2>1, <2>2, <2>3
<1>11. keys[Depth - 2] = Open.fields /\ (Open.label = "auth" <=> Depth = 3 /\ route_key = "auth")
  <2>1. CASE Depth = 2
    <3>1. Open = frames[2] /\ Level2
      BY <1>10, <1>15, <2>1
    <3>2. keys[0] = Open.fields /\ Open.label = Element
      BY <3>1 DEF Level2, IsAt
    <3> QED
      BY <2>1, <3>2 DEF Element
  <2>2. CASE Depth = 3
    <3>1. Open = frames[3] /\ Level3 /\ InSettings
      BY <1>10, <1>15, <2>2
    <3>2. keys[1] = Open.fields /\ route_key = Open.label
      BY <3>1 DEF Level3, InSettings
    <3> QED
      BY <2>2, <3>2
  <2>3. CASE Depth = 4
    <3>1. Open = frames[4] /\ InUpstream
      BY <1>10, <1>15, <2>3
    <3>2. keys[2] = Open.fields /\ Open.label = Element
      BY <3>1 DEF InUpstream, IsAt
    <3> QED
      BY <2>3, <3>2 DEF Element
  <2> QED
    BY <1>6, <2>1, <2>2, <2>3
<1>12. CASE k \in Open.fields \/ (Open.label = "auth" /\ UnknownAuthKey(k))
  <2>1. flaw' = TRUE
    BY <1>3, <1>12
  <2>2. Refuse
    BY <1>3, <1>11, <1>12, Zenon
  <2> QED
    BY <2>1, <2>2, RefusedInv
<1>13. CASE ~(k \in Open.fields \/ (Open.label = "auth" /\ UnknownAuthKey(k)))
  <2>1. flaw' = FALSE
    BY <1>3, <1>13
  <2>2. /\ keys' = [keys EXCEPT ![Depth - 2] = @ \cup {k}]
        /\ auth_key' = (IF Depth = 3 /\ route_key = "auth" THEN k ELSE auth_key)
        /\ route_key' = (IF Depth = 2 THEN k ELSE route_key)
        /\ UNCHANGED <<object_count, upstream_count, in_upstreams, in_key_envs,
                       reference_count, verdict>>
    BY <1>3, <1>6, <1>11, <1>13, Zenon
  <2>3. keys \in [0 .. 2 -> SUBSET Names] /\ {object_count, upstream_count, reference_count} \subseteq Nat
    BY <1>1 DEF Remembered
  <2>4. /\ keys' \in [0 .. 2 -> SUBSET Names] /\ keys'[Depth - 2] = Open.fields \cup {k}
        /\ \A d \in 0 .. 2 : d # Depth - 2 => keys'[d] = keys[d]
    <3>1. Depth - 2 \in 0 .. 2
      BY <1>6
    <3> QED
      BY <1>7, <1>11, <2>2, <2>3, <3>1
  <2>5. Level1'
    <3>1. frames'[1] = frames[1]
      BY <1>6, <1>8
    <3> QED
      BY <1>10, <2>2, <3>1 DEF Level1, IsAt
  <2>6. CASE Depth = 2
    <3>1. /\ frames'[2].kind = frames[2].kind /\ frames'[2].label = frames[2].label
          /\ frames'[2].fields = keys'[0] /\ frames'[2].field = k /\ route_key' = k
      BY <1>4, <1>8, <2>2, <2>4, <2>6
    <3>2. Level2'
      BY <1>10, <3>1 DEF Level2, IsAt
    <3>3. ~in_upstreams /\ ~in_key_envs
      BY <1>1, <2>6 DEF Remembered
    <3>4. Remembered'
      BY <1>8, <1>9, <2>2, <2>3, <2>4, <2>5, <2>6, <3>2, <3>3 DEF Remembered
    <3> QED
      BY <1>1, <2>1, <2>2, <3>4, RememberedInv
  <2>7. CASE Depth = 3
    <3>1. /\ frames'[3].kind = frames[3].kind /\ frames'[3].label = frames[3].label
          /\ frames'[3].fields = keys'[1] /\ frames'[3].field = k /\ route_key' = route_key
      BY <1>4, <1>8, <2>2, <2>4, <2>7
    <3>2. frames'[2] = frames[2] /\ keys'[0] = keys[0]
      BY <1>8, <2>4, <2>7
    <3>3. Level2'
      BY <1>10, <3>1, <3>2 DEF Level2, IsAt
    <3>9. Level3 /\ InSettings /\ frames[3].kind = "object"
      BY <1>10, <1>15, <2>7
    <3>10. auth_key' = IF Depth = 3 /\ route_key = "auth" THEN k ELSE auth_key
      BY <2>2
    <3>4. frames'[3].label = "auth" => auth_key' = k
      <4>1. route_key = frames[3].label
        BY <3>9 DEF Level3
      <4> QED
        BY <2>7, <3>1, <3>10, <4>1
    <3>5. InSettings'
      BY <3>1, <3>4, <3>9 DEF InSettings
    <3>6. Level3'
      <4>1. frames'[2].field = "" /\ route_key' = frames'[3].label
        BY <3>1, <3>2, <3>9 DEF Level3
      <4> QED
        BY <3>5, <4>1, Zenon DEF Level3
    <3>7. ~in_upstreams /\ ~in_key_envs /\ frames'[3].kind # "array"
      <4>1. frames'[3].kind # "array" /\ frames[3].kind # "array"
        BY <3>1, <3>9
      <4> QED
        BY <1>1, <2>7, <4>1 DEF Remembered
    <3>8. Remembered'
      BY <1>8, <1>9, <2>2, <2>3, <2>4, <2>5, <2>7, <3>3, <3>6, <3>7 DEF Remembered
    <3> QED
      BY <1>1, <2>1, <2>2, <3>8, RememberedInv
  <2>8. CASE Depth = 4
    <3>1. /\ frames'[4].kind = frames[4].kind /\ frames'[4].label = frames[4].label
          /\ frames'[4].fields = keys'[2] /\ route_key' = route_key /\ auth_key' = auth_key
      BY <1>4, <1>8, <2>2, <2>4, <2>8
    <3>2. frames'[2] = frames[2] /\ frames'[3] = frames[3] /\ keys'[0] = keys[0] /\ keys'[1] = keys[1]
      BY <1>8, <2>4, <2>8
    <3>3. Level2'
      BY <1>10, <3>1, <3>2 DEF Level2, IsAt
    <3>8. Level3 /\ InUpstream /\ frames[4].kind = "object" /\ upstream_count' = upstream_count
      BY <1>10, <1>15, <2>2, <2>8
    <3>4. Level3'
      BY <3>1, <3>2, <3>8 DEF Level3, InPool, InSettings, IsAt
    <3>5. InUpstream'
      BY <3>1, <3>2, <3>8 DEF InUpstream, IsAt
    <3>6. in_upstreams /\ ~in_key_envs /\ frames'[3].kind = "array" /\ frames'[4].kind # "array"
      <4>1. frames[3].kind = "array" /\ frames[4].kind # "array"
        BY <3>8 DEF InUpstream
      <4>2. in_upstreams /\ ~in_key_envs
        BY <1>1, <2>8, <4>1 DEF Remembered
      <4> QED
        BY <3>1, <3>2, <4>1, <4>2
    <3>7. Remembered'
      BY <1>8, <1>9, <2>2, <2>3, <2>4, <2>5, <2>8, <3>3, <3>4, <3>5, <3>6 DEF Remembered
    <3> QED
      BY <1>1, <2>1, <2>2, <3>7, RememberedInv
  <2> QED
    BY <1>6, <2>6, <2>7, <2>8
<1> QED
  BY <1>12, <1>13

\* object_start
LEMMA ObjectStartInv ==
    ASSUME DocumentInv, verdict = "reading", ObjectStart
    PROVE  DocumentInv'
<1>1. Remembered /\ flaw = FALSE /\ in_upstreams \in BOOLEAN /\ in_key_envs \in BOOLEAN
  BY DEF DocumentInv
<1>2. frames \in Seq(Frames) /\ Depth \in 0 .. 4 /\ Depth = Len(frames)
  BY <1>1, DepthIs
<1>3. NextLabel \in Names
  BY <1>2, NextLabelIs
<1>4. frames' = Pushed("object") /\ ValueExpected
  BY DEF ObjectStart
<1>5. /\ frames' \in Seq(Frames) /\ Len(frames') = Depth + 1
      /\ \A k \in 1 .. Depth - 1 : frames'[k] = frames[k]
      /\ frames'[Depth + 1] = Frame("object", NextLabel)
      /\ Depth > 0 =>
           /\ frames'[Depth].kind = Open.kind /\ frames'[Depth].label = Open.label
           /\ frames'[Depth].fields = Open.fields /\ frames'[Depth].field = Nothing
           /\ frames'[Depth].count = Open.count + (IF Open.kind = "array" THEN 1 ELSE 0)
  BY <1>2, <1>3, <1>4, PushedIs
<1>6. /\ frames'[Depth + 1].kind = "object" /\ frames'[Depth + 1].label = NextLabel
      /\ frames'[Depth + 1].fields = {} /\ frames'[Depth + 1].field = Nothing
  BY <1>5, FrameIs
<1> DEFINE misplaced == Append(Place, NextLabel) \notin ObjectPlaces
           full == Open.kind = "array" /\ Open.count = Allowance
<1>7. flaw' = (misplaced \/ full)
  BY DEF ObjectStart
<1>8. misplaced <=> ~( \/ Depth = 1 /\ NextLabel = Element
                       \/ Depth = 2 /\ NextLabel \in Settings
                       \/ Depth = 3 /\ frames[3].label = "upstreams" /\ NextLabel = Element)
  <2>1. Depth >= 1 => frames[1].label = Nothing
    BY <1>1 DEF Remembered, Level1, IsAt
  <2>2. Depth >= 2 => frames[2].label = Element
    BY <1>1 DEF Remembered, Level2, IsAt
  <2> QED
    BY <1>2, <1>3, <2>1, <2>2, PlacesByDepth
<1> HIDE DEF misplaced, full
<1>9. misplaced \/ full => flaw' = TRUE
  BY <1>7
<1>10. ~misplaced /\ ~full => flaw' = FALSE
  BY <1>7
<1>11. Depth' = Depth + 1 /\ Open = frames[Depth]
  BY <1>5 DEF Depth, Open
<1>12. keys \in [0 .. 2 -> SUBSET Names] /\ {object_count, upstream_count, reference_count} \subseteq Nat
  BY <1>1 DEF Remembered
<1>13. {max_routes, max_upstreams, max_keys} \subseteq Nat
  BY DocumentAssumption
<1>14. Depth > 0 => /\ Open.kind \in {"array", "object"}
                    /\ Open.kind = "array" => NextLabel = Element
                    /\ Open.kind = "object" => NextLabel = Open.field /\ Open.field # ""
  BY <1>2, <1>4, OpenIs, ExpectedIs
<1>20. CASE Depth = 0
  <2>1. Refuse
    BY <1>20 DEF ObjectStart
  <2>2. flaw' = TRUE
    BY <1>8, <1>9, <1>20
  <2> QED
    BY <2>1, <2>2, RefusedInv
<1>21. CASE Depth = 1
  <2>1. EnterRoute
    BY <1>21 DEF ObjectStart
  <2>2. Open = frames[1] /\ Level1
    BY <1>1, <1>11, <1>21 DEF Remembered
  <2>3. Open.kind = "array" /\ Open.label = Nothing /\ Open.count = object_count /\ object_count <= max_routes
    BY <2>2 DEF Level1, IsAt
  <2>4. NextLabel = Element /\ Allowance = max_routes
    BY <1>14, <1>21, <2>3, AllowanceIs
  <2>5. ~misplaced
    BY <1>8, <1>21, <2>4
  <2>6. full <=> object_count + 1 > max_routes
    BY <1>12, <1>13, <2>3, <2>4 DEF full
  <2>7. CASE full
    <3>1. Refuse
      BY <2>1, <2>6, <2>7 DEF EnterRoute
    <3> QED
      BY <1>9, <2>7, <3>1, RefusedInv
  <2>8. CASE ~full
    <3>1. /\ object_count' = object_count + 1
          /\ keys' = [keys EXCEPT ![0] = {}]
          /\ UNCHANGED <<route_key, upstream_count, in_upstreams, auth_key, in_key_envs,
                         reference_count, verdict>>
      BY <2>1, <2>6, <2>8 DEF EnterRoute
    <3>2. object_count' \in Nat /\ object_count' <= max_routes
      BY <1>12, <1>13, <2>6, <2>8, <3>1
    <3>3. keys' \in [0 .. 2 -> SUBSET Names] /\ keys'[0] = {}
      BY <1>12, <3>1
    <3>4. frames'[1].kind = "array" /\ frames'[1].label = Nothing /\ frames'[1].count = object_count'
      BY <1>5, <1>21, <2>3, <3>1
    <3>5. Level1'
      BY <3>2, <3>4 DEF Level1, IsAt
    <3>6. /\ frames'[2].kind = "object" /\ frames'[2].label = Element
          /\ frames'[2].fields = {} /\ frames'[2].field = Nothing
      BY <1>6, <1>21, <2>4
    <3>7. Level2'
      BY <3>3, <3>6 DEF Level2, IsAt, Nothing
    <3>8. ~in_upstreams' /\ ~in_key_envs'
      <4>1. ~in_upstreams /\ ~in_key_envs
        BY <1>1, <1>21 DEF Remembered
      <4> QED
        BY <3>1, <4>1
    <3>9. {object_count', upstream_count', reference_count'} \subseteq Nat
      BY <1>12, <3>1, <3>2
    <3>10. Remembered'
      BY <1>5, <1>11, <1>21, <3>3, <3>5, <3>7, <3>8, <3>9 DEF Remembered
    <3>11. flaw' = FALSE /\ verdict' = "reading" /\ in_upstreams' \in BOOLEAN /\ in_key_envs' \in BOOLEAN
      BY <1>1, <1>10, <2>5, <2>8, <3>1
    <3> QED
      BY <3>10, <3>11, RememberedInv
  <2> QED
    BY <2>7, <2>8
<1>22. CASE Depth = 2
  <2>1. Open = frames[2] /\ Level1 /\ Level2
    BY <1>1, <1>11, <1>22 DEF Remembered
  <2>2. Open.kind = "object" /\ Open.label = Element /\ keys[0] = Open.fields
    BY <2>1 DEF Level2, IsAt
  <2>3. NextLabel = Open.field /\ Open.field # ""
    <3>1. Depth > 0
      BY <1>22
    <3> QED
      BY <1>14, <2>2, <3>1, Zenon
  <2>4. NextLabel = route_key
    BY <2>1, <2>3 DEF Level2
  <2>5. ~full
    BY <2>2 DEF full
  <2>6. misplaced <=> route_key \notin Settings
    BY <1>8, <1>22, <2>4
  <2>7. CASE route_key \notin Settings
    <3>1. Refuse
      BY <1>22, <2>7 DEF ObjectStart
    <3> QED
      BY <1>9, <2>6, <2>7, <3>1, RefusedInv
  <2>8. CASE route_key \in Settings
    <3>1. EnterSettings
      BY <1>22, <2>8 DEF ObjectStart
    <3>2. /\ keys' = [keys EXCEPT ![1] = {}]
          /\ UNCHANGED <<route_key, object_count, upstream_count, in_upstreams, in_key_envs,
                         reference_count, verdict>>
      BY <3>1 DEF EnterSettings
    <3>3. keys' \in [0 .. 2 -> SUBSET Names] /\ keys'[0] = keys[0] /\ keys'[1] = {}
      BY <1>12, <3>2
    <3>4. frames'[1] = frames[1]
      BY <1>5, <1>22
    <3>5. Level1'
      BY <2>1, <3>2, <3>4 DEF Level1, IsAt
    <3>6. /\ frames'[2].kind = "object" /\ frames'[2].label = Element
          /\ frames'[2].fields = keys'[0] /\ frames'[2].field = Nothing
      BY <1>5, <1>22, <2>2, <3>3
    <3>7. Level2'
      BY <3>6 DEF Level2, IsAt, Nothing
    <3>8. /\ frames'[3].kind = "object" /\ frames'[3].label = route_key
          /\ frames'[3].fields = {} /\ frames'[3].field = Nothing
      BY <1>6, <1>22, <2>4
    <3>9. InSettings'
      BY <2>8, <3>3, <3>8 DEF InSettings, Nothing
    <3>10. Level3'
      BY <3>2, <3>6, <3>8, <3>9 DEF Level3, Nothing
    <3>11. ~in_upstreams' /\ ~in_key_envs'
      <4>1. ~in_upstreams /\ ~in_key_envs
        BY <1>1, <1>22 DEF Remembered
      <4> QED
        BY <3>2, <4>1
    <3>12. {object_count', upstream_count', reference_count'} \subseteq Nat
      BY <1>12, <3>2
    <3>15. frames'[3].kind # "array"
      BY <3>8
    <3>13. Remembered'
      BY <1>5, <1>11, <1>22, <3>3, <3>5, <3>7, <3>10, <3>11, <3>12, <3>15 DEF Remembered
    <3>14. flaw' = FALSE /\ verdict' = "reading" /\ in_upstreams' \in BOOLEAN /\ in_key_envs' \in BOOLEAN
      BY <1>1, <1>10, <2>5, <2>6, <2>8, <3>2
    <3> QED
      BY <3>13, <3>14, RememberedInv
  <2> QED
    BY <2>7, <2>8
<1>23. CASE Depth = 3
  <2>1. Open = frames[3] /\ Level1 /\ Level2 /\ Level3
    BY <1>1, <1>11, <1>23 DEF Remembered
  <2>2. route_key = Open.label /\ (InPool \/ InSettings) /\ frames[2].field = ""
    BY <2>1 DEF Level3
  <2>5. route_key = Open.label
    BY <2>2
  <2>6. Depth # 1 /\ Depth # 2
    BY <1>23
  <2>3. CASE Open.kind = "object"
    <3>1. Open.label \in Settings
      BY <2>1, <2>2, <2>3 DEF InPool, InSettings, IsAt
    <3>2. Open.label # "upstreams"
      BY <3>1 DEF Settings
    <3>3. misplaced
      BY <1>8, <1>23, <2>1, <3>2
    <3>4. Refuse
      <4>1. route_key # "upstreams"
        BY <2>5, <3>2
      <4> QED
        BY <2>6, <4>1 DEF ObjectStart
    <3> QED
      BY <1>9, <3>3, <3>4, RefusedInv
  <2>4. CASE Open.kind = "array"
    <3>1. /\ InPool /\ Open.label = "upstreams" /\ Open.count = upstream_count
          /\ upstream_count <= max_upstreams
      BY <2>1, <2>2, <2>4 DEF InPool, InSettings, IsAt
    <3>2. NextLabel = Element /\ Allowance = max_upstreams
      BY <1>14, <1>23, <2>4, AllowanceIs
    <3>3. in_upstreams
      BY <1>1, <1>23, <2>1, <2>4 DEF Remembered
    <3>4. EnterUpstream
      <4>1. route_key = "upstreams"
        BY <2>5, <3>1
      <4> QED
        BY <1>23, <2>6, <3>3, <4>1 DEF ObjectStart
    <3>5. ~misplaced
      BY <1>8, <1>23, <2>1, <3>1, <3>2
    <3>6. full <=> upstream_count + 1 > max_upstreams
      BY <1>12, <1>13, <2>4, <3>1, <3>2 DEF full
    <3>7. CASE full
      <4>1. Refuse
        BY <3>4, <3>6, <3>7 DEF EnterUpstream
      <4> QED
        BY <1>9, <3>7, <4>1, RefusedInv
    <3>8. CASE ~full
      <4>1. /\ upstream_count' = upstream_count + 1
            /\ keys' = [keys EXCEPT ![2] = {}]
            /\ UNCHANGED <<route_key, object_count, in_upstreams, auth_key, in_key_envs,
                           reference_count, verdict>>
        BY <3>4, <3>6, <3>8 DEF EnterUpstream
      <4>2. upstream_count' \in Nat /\ upstream_count' <= max_upstreams
        BY <1>12, <1>13, <3>6, <3>8, <4>1
      <4>3. keys' \in [0 .. 2 -> SUBSET Names] /\ keys'[0] = keys[0] /\ keys'[2] = {}
        BY <1>12, <4>1
      <4>4. frames'[1] = frames[1] /\ frames'[2] = frames[2]
        BY <1>5, <1>23
      <4>5. Level1'
        BY <2>1, <4>1, <4>4 DEF Level1, IsAt
      <4>6. Level2'
        BY <2>1, <4>1, <4>3, <4>4 DEF Level2, IsAt
      <4>7. frames'[3].kind = "array" /\ frames'[3].label = "upstreams" /\ frames'[3].count = upstream_count'
        BY <1>5, <1>23, <2>4, <3>1, <4>1
      <4>8. InPool'
        BY <4>2, <4>7 DEF InPool, IsAt
      <4>9. Level3'
        <5>1. frames'[2].field = "" /\ route_key' = frames'[3].label
          BY <2>2, <3>1, <4>1, <4>4, <4>7
        <5> QED
          BY <4>8, <5>1, Zenon DEF Level3
      <4>10. /\ frames'[4].kind = "object" /\ frames'[4].label = Element
             /\ frames'[4].fields = {} /\ frames'[4].field = Nothing
        BY <1>6, <1>23, <3>2
      <4>11. InUpstream'
        BY <4>3, <4>7, <4>10 DEF InUpstream, IsAt
      <4>12. in_upstreams' /\ ~in_key_envs'
        <5>1. ~in_key_envs
          BY <1>1, <1>23 DEF Remembered
        <5> QED
          BY <3>3, <4>1, <5>1
      <4>13. {object_count', upstream_count', reference_count'} \subseteq Nat
        BY <1>12, <4>1, <4>2
      <4>16. frames'[3].kind = "array" /\ frames'[4].kind # "array"
        BY <4>7, <4>10
      <4>14. Remembered'
        BY <1>5, <1>11, <1>23, <4>3, <4>5, <4>6, <4>9, <4>11, <4>12, <4>13, <4>16 DEF Remembered
      <4>15. flaw' = FALSE /\ verdict' = "reading" /\ in_upstreams' \in BOOLEAN /\ in_key_envs' \in BOOLEAN
        BY <1>1, <1>10, <3>5, <3>8, <4>1
      <4> QED
        BY <4>14, <4>15, RememberedInv
    <3> QED
      BY <3>7, <3>8
  <2>7. Open.kind \in {"array", "object"}
    BY <1>2, <1>23, OpenIs
  <2> QED
    BY <2>3, <2>4, <2>7
<1>24. CASE Depth = 4
  <2>1. Refuse
    BY <1>24 DEF ObjectStart
  <2>2. misplaced
    BY <1>8, <1>24
  <2> QED
    BY <1>9, <2>1, <2>2, RefusedInv
<1> QED
  BY <1>2, <1>20, <1>21, <1>22, <1>23, <1>24

\* Every event.
LEMMA ReadEventInv ==
    ASSUME DocumentInv, ReadEvent
    PROVE  DocumentInv'
<1>1. verdict = "reading"
  BY DEF ReadEvent
<1>2. CASE ArrayStart
  BY <1>1, <1>2, ArrayStartInv
<1>3. CASE ArrayEnd
  BY <1>1, <1>3, ArrayEndInv
<1>4. CASE ObjectStart
  BY <1>1, <1>4, ObjectStartInv
<1>5. CASE ObjectEnd
  BY <1>1, <1>5, ObjectEndInv
<1>6. CASE \E refers \in BOOLEAN : Value(refers)
  BY <1>1, <1>6, ValueInv
<1>7. CASE \E k \in FieldNames : Key(k)
  BY <1>1, <1>7, KeyInv
<1> QED
  BY <1>2, <1>3, <1>4, <1>5, <1>6, <1>7 DEF ReadEvent

\* A step of the loader, of the callback or neither.
LEMMA DocumentStepInv ==
    ASSUME DocumentInv, [StartupNext]_startupVars
    PROVE  DocumentInv'
<1>1. CASE UNCHANGED documentVars
  BY <1>1 DEF documentVars, stateOfCallback, DocumentInv, Remembered, Depth, Level1, Level2, Level3,
              InPool, InSettings, InUpstream, InKeyEnvs, IsAt
<1>2. CASE ReadRoutes
  BY <1>2, ReadEventInv DEF ReadRoutes
<1>3. CASE EndRoutes
  <2>1. ForgetDocument
    BY <1>3 DEF EndRoutes
  <2>2. /\ frames' = <<>> /\ keys' = [d \in 0 .. 2 |-> {}]
        /\ object_count' = 0 /\ upstream_count' = 0 /\ reference_count' = 0
        /\ in_upstreams' = FALSE /\ in_key_envs' = FALSE
        /\ verdict' = "reading" /\ flaw' = FALSE
    BY <2>1 DEF ForgetDocument
  <2>3. frames' \in Seq(Frames) /\ Depth' = 0
    BY <2>2 DEF Depth
  <2>4. keys' \in [0 .. 2 -> SUBSET Names]
    BY <2>2
  <2>5. Remembered'
    BY <2>2, <2>3, <2>4 DEF Remembered
  <2> QED
    BY <2>2, <2>5 DEF DocumentInv
<1>4. \/ UNCHANGED documentVars \/ ReadRoutes \/ EndRoutes
  <2>1. CASE UNCHANGED startupVars
    BY <2>1 DEF startupVars
  <2>2. CASE CommandLine \/ LoadTls \/ LoadSettings \/ LoadUpstreams
    BY <2>2 DEF CommandLine, LoadTls, LoadSettings, LoadUpstreams
  <2>3. CASE CheckPrefix \/ CheckUpstreams \/ CheckRateLimit \/ CheckHealthCheck \/ CheckAuth
    BY <2>3 DEF CheckPrefix, CheckUpstreams, CheckRateLimit, CheckHealthCheck, CheckAuth
  <2>4. CASE AcceptRoutes \/ LoadTrust \/ Start \/ Over
    BY <2>4 DEF AcceptRoutes, LoadTrust, Start, Over, startupVars
  <2> QED
    BY <2>1, <2>2, <2>3, <2>4 DEF StartupNext
<1> QED
  BY <1>1, <1>2, <1>3, <1>4

\* The callback, which keeps no stack, refuses a document exactly at the event
\* that breaks a rule: for every limit, every set of field names and documents of
\* any length and depth.  It rests on Remembered: depth by depth, the flags and key
\* sets that outlive their objects say what the parser's stack says.
THEOREM RefusalTheorem == StartupSpec => []RefusedExactlyWhenFlawed
<1>1. StartupInit => DocumentInv
  <2> SUFFICES ASSUME StartupInit PROVE DocumentInv
    OBVIOUS
  <2>1. DocumentInit
    BY DEF StartupInit
  <2>2. /\ frames = <<>> /\ keys = [d \in 0 .. 2 |-> {}]
        /\ object_count = 0 /\ upstream_count = 0 /\ reference_count = 0
        /\ in_upstreams = FALSE /\ in_key_envs = FALSE
        /\ verdict = "reading" /\ flaw = FALSE
    BY <2>1 DEF DocumentInit
  <2>3. frames \in Seq(Frames) /\ Depth = 0
    BY <2>2 DEF Depth
  <2>4. keys \in [0 .. 2 -> SUBSET Names]
    BY <2>2
  <2>5. Remembered
    BY <2>2, <2>3, <2>4 DEF Remembered
  <2> QED
    BY <2>2, <2>5 DEF DocumentInv
<1>2. DocumentInv /\ [StartupNext]_startupVars => DocumentInv'
  BY DocumentStepInv
<1>3. DocumentInv => RefusedExactlyWhenFlawed
  <2> SUFFICES ASSUME DocumentInv PROVE RefusedExactlyWhenFlawed
    OBVIOUS
  <2>1. flaw \in BOOLEAN /\ (verdict = "refused" <=> flaw)
    BY DEF DocumentInv
  <2>2. (verdict = "refused") = flaw
    BY <2>1
  <2> QED
    BY <2>2 DEF RefusedExactlyWhenFlawed
<1> QED
  BY <1>1, <1>2, <1>3, PTL DEF StartupSpec
=============================================================================
