------------------------------ MODULE JniBridge ------------------------------
(***************************************************************************)
(* The guest's threads on the JNI tables (jni_bridge.c): a thread looks up *)
(* IDs in the registries and calls list or forEach through an ID it or     *)
(* another thread was given; the call is dispatched by the name which the  *)
(* slot of the ID then holds.  main opens the OBB index before any of      *)
(* this, and closes it while the guest's threads go on.                    *)
(***************************************************************************)
EXTENDS JniRegistry, ObbIndex

CONSTANTS
  ListName,  \* "list" and "forEach"
  Asked,     \* bound: the methods and fields the guest looks up
  Paths,     \* bound: the directories it lists
  MaxCalls   \* bound: its lookups and listings

ASSUME BridgeConstants ==
  /\ Caller = Thread
  /\ ListName \in Text /\ Asked \subseteq Kind \X Key
  /\ Paths \subseteq Seq(STRING) /\ MaxCalls \in Nat

VARIABLES
  phase,  \* of main: "startup", "running", "closed"; "failed" if no index
  calls

bridge == <<registry, obbvars, phase, calls>>

Calls(t) ==
  /\ at[t] = "idle" /\ step[t] = "idle"
  /\ phase \in {"running", "closed"} /\ Running
  /\ calls < MaxCalls
  /\ calls' = calls + 1
  /\ UNCHANGED phase

AsksForMethod(t) ==
  /\ Calls(t)
  /\ \E c \in Key : <<"method", c>> \in Asked /\ Begin(t, "method", c)
  /\ UNCHANGED obbvars

AsksForField(t) ==
  /\ Calls(t)
  /\ \E c \in Key : <<"field", c>> \in Asked /\ Begin(t, "field", c)
  /\ UNCHANGED obbvars

\* dispatch_object and jni_call_object_method_a, for the names of a listing.
CallsList(t) ==
  /\ Calls(t)
  /\ \E g \in grants :
       /\ g.kind = "method" /\ Resolves("method", g.id)
       /\ slot["method"][g.id].name = ListName
  /\ \E path \in Paths : ListBegin(t, path)
  /\ UNCHANGED registry

RunsLookup(t) == (register_method(t) \/ register_field(t)) /\ UNCHANGED <<obbvars, phase, calls>>

RunsListing(t) == Running /\ List(t) /\ UNCHANGED <<registry, phase, calls>>

\* nfsmw_jni_startup: the index, then initialize_tables on zeroed registries.
Startup ==
  /\ phase = "startup"
  /\ OpenIndex
  /\ phase' = IF entries' = Archive THEN "running" ELSE "failed"
  /\ UNCHANGED <<registry, calls>>

\* nfsmw_jni_shutdown on main.
Shutdown ==
  /\ phase = "running" /\ Running
  /\ CloseIndex
  /\ phase' = "closed"
  /\ UNCHANGED <<registry, calls>>

BridgeInit == RegistryInit /\ ObbInit /\ phase = "startup" /\ calls = 0

BridgeNext ==
  \/ Startup \/ Shutdown
  \/ \E t \in Thread : \/ AsksForMethod(t) \/ AsksForField(t) \/ CallsList(t)
                       \/ RunsLookup(t) \/ RunsListing(t)

BridgeSpec == BridgeInit /\ [][BridgeNext]_bridge
=============================================================================
