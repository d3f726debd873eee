--------------------------- MODULE RoutesDocument ---------------------------
(***************************************************************************)
(* The first half of parse_routes: the callback that watches the JSON      *)
(* parser and refuses a document while it is being read.  It keeps no      *)
(* stack: where it is, it infers from the depth, the last route key and    *)
(* flags that outlive the object they were set in.                         *)
(*                                                                         *)
(* The parser (nlohmann::json) is external: it emits the events of any     *)
(* well-formed document, or throws.  frames is the parser's own stack; the *)
(* document is not built, it is made up event by event.                    *)
(***************************************************************************)
EXTENDS Integers, Sequences

CONSTANTS
    max_routes,                \* 32
    max_upstreams,             \* 16
    max_keys,                  \* ApiKeyAuthConfig::max_keys
    RouteKeys,                 \* field names that are tried in a route object,
    SettingKeys,               \* in one of its settings
    UpstreamKeys               \* and in an upstream object

ASSUME DocumentAssumption == {max_routes, max_upstreams, max_keys} \subseteq Nat \ {0}

\* An empty name, which no object knows, is left out: "" stands for no name here.
ASSUME NameAssumption == "" \notin RouteKeys \cup SettingKeys \cup UpstreamKeys

VARIABLES
    frames,                                \* the containers that are open
    keys, route_key, object_count,         \* what the callback remembers
    upstream_count, in_upstreams,
    auth_key, in_key_envs, reference_count,
    verdict,                               \* "reading", "read" or "refused"
    flaw                                   \* history: the document broke a rule

stateOfCallback == <<keys, route_key, object_count, upstream_count, in_upstreams, auth_key,
                     in_key_envs, reference_count>>
documentVars == <<frames, stateOfCallback, verdict, flaw>>

\* A container: the key or, in an array, the mark it stands under; its fields so
\* far; whether a field's value is to come; its elements that are counted.
Frame(kind, label) == [kind |-> kind, label |-> label, fields |-> {}, field |-> "", count |-> 0]

Depth == Len(frames)
Open  == frames[Depth]
Place == [k \in 1 .. Depth |-> frames[k].label]

DocumentInit ==
    /\ frames = <<>>
    /\ keys = [d \in 0 .. 2 |-> {}]
    /\ route_key = "" /\ object_count = 0
    /\ upstream_count = 0 /\ in_upstreams = FALSE
    /\ auth_key = "" /\ in_key_envs = FALSE /\ reference_count = 0
    /\ verdict = "reading" /\ flaw = FALSE

\* parse_routes has no more use for its locals.
ForgetDocument ==
    /\ frames' = <<>>
    /\ keys' = [d \in 0 .. 2 |-> {}]
    /\ route_key' = "" /\ object_count' = 0
    /\ upstream_count' = 0 /\ in_upstreams' = FALSE
    /\ auth_key' = "" /\ in_key_envs' = FALSE /\ reference_count' = 0
    /\ verdict' = "reading" /\ flaw' = FALSE

----------------------------------------------------------------------------
(* The rules for a document, read from the place of a container.           *)

Settings == {"rate_limit", "health_check", "auth"}
Nothing  == ""                                \* the label of the document itself
Element  == "[]"                              \* the label of an array's element

ArrayPlaces ==
    {<<Nothing>>, <<Nothing, Element, "upstreams">>, <<Nothing, Element, "auth", "api_key_envs">>}
ObjectPlaces ==
    {<<Nothing, Element>>, <<Nothing, Element, "upstreams", Element>>}
        \cup {<<Nothing, Element, s>> : s \in Settings}

\* How many objects or values an array may have.
Allowance == CASE Depth = 1 -> max_routes [] Depth = 3 -> max_upstreams [] Depth = 4 -> max_keys

----------------------------------------------------------------------------
(* The parser.                                                             *)

\* A value may come now, and it stands under this label.
ValueExpected == Depth > 0 => (Open.kind = "array" \/ Open.field # "")
NextLabel     == IF Depth = 0 THEN Nothing ELSE IF Open.kind = "array" THEN Element ELSE Open.field

\* The open container once a value has come, which counts for 0 or 1.
Fed(counted) == [frames EXCEPT ![Depth] = [Open EXCEPT !.field = "", !.count = @ + counted]]
Pushed(kind) ==
    Append(IF Depth = 0 THEN <<>>
           ELSE Fed(IF kind = "object" /\ Open.kind = "array" THEN 1 ELSE 0),
           Frame(kind, NextLabel))
Popped == SubSeq(frames, 1, Depth - 1)

\* The callback throws: parse_routes fails.
Refuse == verdict' = "refused" /\ UNCHANGED stateOfCallback

----------------------------------------------------------------------------
(* The callback, one action per event.  The depth it is told is that of    *)
(* the container for a start or an end, of what it holds for the others.   *)

ArrayStart ==
    /\ ValueExpected
    /\ frames' = Pushed("array")
    /\ flaw' = (Append(Place, NextLabel) \notin ArrayPlaces)
    /\ \/ /\ Depth = 0
          /\ UNCHANGED <<stateOfCallback, verdict>>
       \/ /\ Depth = 2 /\ route_key = "upstreams"
          /\ upstream_count' = 0 /\ in_upstreams' = TRUE
          /\ UNCHANGED <<keys, route_key, object_count, auth_key, in_key_envs, reference_count,
                         verdict>>
       \/ /\ Depth = 3 /\ route_key = "auth" /\ auth_key = "api_key_envs"
          /\ reference_count' = 0 /\ in_key_envs' = TRUE
          /\ UNCHANGED <<keys, route_key, object_count, upstream_count, in_upstreams, auth_key,
                         verdict>>
       \/ /\ Depth # 0
          /\ ~(Depth = 2 /\ route_key = "upstreams")
          /\ ~(Depth = 3 /\ route_key = "auth" /\ auth_key = "api_key_envs")
          /\ Refuse

ArrayEnd ==
    /\ Depth > 0 /\ Open.kind = "array"
    /\ frames' = Popped
    /\ in_upstreams' = (in_upstreams /\ Depth - 1 # 2)
    /\ in_key_envs' = (in_key_envs /\ Depth - 1 # 3)
    /\ verdict' = IF Depth = 1 THEN "read" ELSE verdict
    /\ UNCHANGED <<keys, route_key, object_count, upstream_count, auth_key, reference_count, flaw>>

\* A string, a number, true, false or null; only a nonempty string may refer to a key.
Value(refers) ==
    /\ ValueExpected /\ Depth > 0
    /\ frames' = Fed(IF Depth = 4 /\ Open.kind = "array" THEN 1 ELSE 0)
    /\ flaw' = (Depth = 4 /\ Open.kind = "array" /\ (~refers \/ Open.count = Allowance))
    /\ IF Depth = 4 /\ in_key_envs
       THEN IF ~refers \/ reference_count + 1 > max_keys THEN Refuse
            ELSE /\ reference_count' = reference_count + 1
                 /\ UNCHANGED <<keys, route_key, object_count, upstream_count, in_upstreams,
                                auth_key, in_key_envs, verdict>>
       ELSE UNCHANGED <<stateOfCallback, verdict>>

\* Mutant: the fields of the settings before are remembered.
EnterSettingsKeepsKeys ==
    /\ auth_key' = ""
    /\ UNCHANGED <<keys, route_key, object_count, upstream_count, in_upstreams, in_key_envs,
                   reference_count, verdict>>

EnterSettings ==
    /\ keys' = [keys EXCEPT ![1] = {}] /\ auth_key' = ""
    /\ UNCHANGED <<route_key, object_count, upstream_count, in_upstreams, in_key_envs,
                   reference_count, verdict>>

EnterRoute ==
    IF object_count + 1 > max_routes THEN Refuse
    ELSE /\ object_count' = object_count + 1
         /\ keys' = [keys EXCEPT ![0] = {}]
         /\ UNCHANGED <<route_key, upstream_count, in_upstreams, auth_key, in_key_envs,
                        reference_count, verdict>>

EnterUpstream ==
    IF upstream_count + 1 > max_upstreams THEN Refuse
    ELSE /\ upstream_count' = upstream_count + 1
         /\ keys' = [keys EXCEPT ![2] = {}]
         /\ UNCHANGED <<route_key, object_count, in_upstreams, auth_key, in_key_envs,
                        reference_count, verdict>>

ObjectStart ==
    /\ ValueExpected
    /\ frames' = Pushed("object")
    /\ flaw' = \/ Append(Place, NextLabel) \notin ObjectPlaces
               \/ Open.kind = "array" /\ Open.count = Allowance
    /\ CASE Depth = 1 -> EnterRoute
         [] Depth = 2 /\ route_key \in Settings -> EnterSettings
         [] Depth = 3 /\ in_upstreams /\ route_key = "upstreams" -> EnterUpstream
         [] OTHER -> Refuse

ObjectEnd ==
    /\ Depth > 0 /\ Open.kind = "object" /\ Open.field = ""
    /\ frames' = Popped
    /\ UNCHANGED <<stateOfCallback, verdict, flaw>>

UnknownAuthKey(k) == k \notin {"api_key_env", "api_key_envs"}

Key(k) ==
    /\ Depth > 0 /\ Open.kind = "object" /\ Open.field = ""
    /\ frames' = [frames EXCEPT ![Depth] = [Open EXCEPT !.field = k, !.fields = @ \cup {k}]]
    /\ flaw' = (k \in Open.fields \/ (Open.label = "auth" /\ UnknownAuthKey(k)))
    /\ IF \/ Depth = 3 /\ route_key = "auth" /\ UnknownAuthKey(k)
          \/ Depth \notin 2 .. 4
          \/ k \in keys[Depth - 2]
       THEN Refuse
       ELSE /\ keys' = [keys EXCEPT ![Depth - 2] = @ \cup {k}]
            /\ auth_key' = IF Depth = 3 /\ route_key = "auth" THEN k ELSE auth_key
            /\ route_key' = IF Depth = 2 THEN k ELSE route_key
            /\ UNCHANGED <<object_count, upstream_count, in_upstreams, in_key_envs,
                           reference_count, verdict>>

FieldNames ==
    CASE Depth = 2 -> RouteKeys [] Depth = 3 -> SettingKeys [] Depth = 4 -> UpstreamKeys [] OTHER -> {}

ReadEvent ==
    /\ verdict = "reading"
    /\ \/ ArrayStart \/ ArrayEnd \/ ObjectStart \/ ObjectEnd
       \/ \E refers \in BOOLEAN : Value(refers)
       \/ \E k \in FieldNames : Key(k)

----------------------------------------------------------------------------
(* Property.                                                               *)

\* The callback refuses a document exactly at the event that breaks a rule: a
\* container where none belongs, a field given twice, an entry too many, a key
\* reference that is none.  What it remembers of objects already closed, and of
\* other routes, neither lets a bad document pass nor refuses a good one.
RefusedExactlyWhenFlawed == (verdict = "refused") = flaw
=============================================================================
