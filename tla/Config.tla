-------------------------------- MODULE Config --------------------------------
(***************************************************************************)
(* The configuration registry (config.hpp): config::Lookup() finds or makes*)
(* the configvar of a name, configvar::setValue() tells the listeners and  *)
(* then stores, LoadFileFromYaml() applies files.  The mutex of the        *)
(* registry guards the look-ups and the insertion of Lookup() apart; that  *)
(* of a variable guards the two halves of setValue() apart.                *)
(*                                                                         *)
(* A value is a pair; the equality of some types looks at its first half   *)
(* only, as logDefine::operator== does, which compares appenders with      *)
(* themselves.  One loader runs at a time.                                 *)
(***************************************************************************)
EXTENDS Integers, Sequences, FiniteSets

CONSTANTS
  CfgThread, Key,
  Rejected,      \* keys with a letter Lookup() takes for invalid, "j" for one
  Unlisted,      \* keys with one the loader takes for invalid, the space for one
  CfgListener,
  Stored,        \* values a text converts to
  Unreadable,    \* a text that does not convert
  Files,         \* files: entries of a key and a value or Unreadable
  MaxVars, MaxCalls, MaxLoads   \* bounds: variables made, calls, files loaded

ASSUME CfgAssumption ==
  /\ Rejected \subseteq Key /\ Unlisted \subseteq Key /\ Stored # {} /\ Unreadable \notin Stored
  /\ Files \subseteq Seq(Key \X (Stored \cup {Unreadable}))
  /\ MaxVars \in Nat /\ MaxCalls \in Nat /\ MaxLoads \in Nat

Vars == 1 .. MaxVars
NoVar == 0
CfgKinds == {"plain", "logs"}

VARIABLES
  s_datas,       \* the registry: variable of each key, or NoVar
  made, kind,    \* variables made so far, and their types
  m_val, function_maps,
  cpc, arg,      \* threads: where they are, and with what
  all_node,      \* the loader: entries of all files so far
  torn,          \* an insertion met a look-up without lock: undefined behaviour
  calls, loads,
  handed,        \* ghost: <<key, variable>> that Lookup() returned
  racing,        \* ghost: keys whose look-ups overlapped
  told,          \* ghost: what each listener was told last
  crossing,      \* ghost: variables that calls of setValue() overlapped on
  wild,          \* ghost: variables made or set by others since a load began
  filed          \* ghost: what all_node would be had the loader listed every member

lookVars == <<s_datas, made, kind, handed, racing>>
valueVars == <<m_val, function_maps, told, crossing, wild>>
loadVars == <<all_node, loads, filed>>
cfgVars == <<lookVars, valueVars, cpc, arg, loadVars, calls, torn>>

Default == CHOOSE v \in Stored : TRUE
NoArg == <<NoVar>>

CfgInit ==
  /\ s_datas = [k \in Key |-> NoVar] /\ made = 0
  /\ kind = [v \in Vars |-> "plain"] /\ m_val = [v \in Vars |-> Default]
  /\ function_maps = [v \in Vars |-> {}]
  /\ cpc = [t \in CfgThread |-> "idle"] /\ arg = [t \in CfgThread |-> NoArg]
  /\ all_node = <<>> /\ filed = <<>> /\ calls = 0 /\ loads = 0 /\ torn = FALSE
  /\ handed = {} /\ racing = {} /\ crossing = {} /\ wild = {}
  /\ told = [v \in Vars |-> [l \in CfgListener |-> Unreadable]]

Goes(t, l, a) == cpc' = [cpc EXCEPT ![t] = l] /\ arg' = [arg EXCEPT ![t] = a]
Rests(t) == Goes(t, "idle", NoArg)
Called == calls < MaxCalls /\ calls' = calls + 1
Setting(v) == {t \in CfgThread : cpc[t] \in {"store", "loadStore"} /\ arg[t][1] = v}
Looking(k) == {t \in CfgThread : cpc[t] \in {"look", "insert"} /\ arg[t][1] = k}

-----------------------------------------------------------------------------
(* Lookup(name, default): the first look, for a variable of another type...*)
LookBase(t, k, kd) ==
  LET v == s_datas[k]
  IN  /\ cpc[t] = "idle" /\ Called
      /\ IF v # NoVar /\ kind[v] # kd THEN Rests(t) ELSE Goes(t, "look", <<k, kd>>)
      /\ racing' = IF Looking(k) # {} THEN racing \cup {k} ELSE racing
      /\ UNCHANGED <<s_datas, made, kind, handed, valueVars, loadVars, torn>>

(* Mutant: what is there already is not looked at again.                   *)
Found_Never(k, kd) == NoVar

(* dynamic_pointer_cast gives nothing for a variable of another type.      *)
Found(k, kd) == IF s_datas[k] # NoVar /\ kind[s_datas[k]] = kd THEN s_datas[k] ELSE NoVar

(* ... the second, for one to return, and the test of the name ...         *)
LookTyped(t) ==
  LET k == arg[t][1]
      v == Found(k, arg[t][2])
  IN  /\ cpc[t] = "look"
      /\ IF v # NoVar \/ k \in Rejected THEN Rests(t) ELSE Goes(t, "insert", arg[t])
      /\ handed' = IF v # NoVar THEN handed \cup {<<k, v>>} ELSE handed
      /\ UNCHANGED <<s_datas, made, kind, racing, valueVars, loadVars, calls, torn>>

(* ... and s_datas[name] = v, over whatever came there since; the loader   *)
(* may be reading the map, without the lock, in LookupBase().              *)
Insert(t) ==
  LET k == arg[t][1]
  IN  /\ cpc[t] = "insert" /\ made < MaxVars
      /\ made' = made + 1
      /\ s_datas' = [s_datas EXCEPT ![k] = made']
      /\ kind' = [kind EXCEPT ![made'] = arg[t][2]]
      /\ handed' = handed \cup {<<k, made'>>}
      /\ wild' = wild \cup {made'}
      /\ torn' = \E s \in CfgThread : cpc[s] = "find"
      /\ Rests(t)
      /\ UNCHANGED <<racing, m_val, function_maps, told, crossing, loadVars, calls>>

-----------------------------------------------------------------------------
SameValue(kd, x, y) == IF kd = "logs" THEN x[1] = y[1] ELSE x = y

(* setValue(): under the shared lock, equal values return and listeners are*)
(* told, in any order ...                                                  *)
Tells(t, v, x, then) ==
  IF SameValue(kind[v], x, m_val[v]) THEN UNCHANGED <<told, crossing>> /\ Goes(t, then[1], then[2])
  ELSE /\ told' = [told EXCEPT ![v] = [l \in CfgListener |->
                     IF l \in function_maps[v] THEN x ELSE told[v][l]]]
       /\ crossing' = IF Setting(v) # {} THEN crossing \cup {v} ELSE crossing
       /\ Goes(t, IF then[1] = "idle" THEN "store" ELSE "loadStore", <<v, x, then[2]>>)

SetNotify(t, v, x) ==
  /\ cpc[t] = "idle" /\ Called /\ v <= made
  /\ Tells(t, v, x, <<"idle", NoArg>>)
  /\ wild' = wild \cup {v}
  /\ UNCHANGED <<lookVars, m_val, function_maps, loadVars, torn>>

(* ... and under the exclusive lock the value is stored.                   *)
Store(t) ==
  LET v == arg[t][1]
  IN  /\ cpc[t] \in {"store", "loadStore"}
      /\ m_val' = [m_val EXCEPT ![v] = arg[t][2]]
      /\ Goes(t, IF cpc[t] = "store" THEN "idle" ELSE "load", arg[t][3])
      /\ wild' = IF cpc[t] = "store" THEN wild \cup {v} ELSE wild
      /\ UNCHANGED <<lookVars, function_maps, told, crossing, loadVars, calls, torn>>

(* addlisten() and dellisten(); a new listener has been told nothing.      *)
Listen(t, v, l) ==
  /\ cpc[t] = "idle" /\ Called /\ v <= made
  /\ function_maps' = [function_maps EXCEPT ![v] = IF l \in @ THEN @ \ {l} ELSE @ \cup {l}]
  /\ told' = [told EXCEPT ![v][l] = Unreadable]
  /\ UNCHANGED <<lookVars, m_val, crossing, wild, cpc, arg, loadVars, torn>>

(* clearFcuntionMaps().                                                    *)
Clear(t, v) ==
  /\ cpc[t] = "idle" /\ Called /\ v <= made
  /\ function_maps' = [function_maps EXCEPT ![v] = {}]
  /\ UNCHANGED <<lookVars, m_val, told, crossing, wild, cpc, arg, loadVars, torn>>

-----------------------------------------------------------------------------
(* ListAllMember() leaves a member with another letter than its own out,   *)
(* and all below it; left out means that nothing is applied.               *)
ListAllMember(f) ==
  [i \in DOMAIN f |-> IF f[i][1] \in Unlisted THEN <<f[i][1], Unreadable>> ELSE f[i]]

(* LoadFileFromYaml(): the file's members, in the order it lists them, join*)
(* those of earlier files ...                                              *)
LoadFile(t, f) ==
  /\ cpc[t] = "idle" /\ loads < MaxLoads
  /\ \A s \in CfgThread : cpc[s] \notin {"load", "find", "loadStore"}
  /\ loads' = loads + 1
  /\ all_node' = all_node \o ListAllMember(f)
  /\ filed' = filed \o f
  /\ Goes(t, "load", <<1>>)
  /\ wild' = {v \in Vars : Setting(v) # {}}
  /\ UNCHANGED <<lookVars, m_val, function_maps, told, crossing, calls, torn>>

(* ... and all are applied: LookupBase() searches the map, with no lock ...*)
LookupBase(t) ==
  /\ cpc[t] = "load" /\ arg[t][1] <= Len(all_node)
  /\ Goes(t, "find", arg[t])
  /\ UNCHANGED <<lookVars, valueVars, loadVars, calls, torn>>

(* ... and fromString() leaves the variable alone if the text does not     *)
(* convert.                                                                *)
Apply(t) ==
  LET i == arg[t][1]
      e == all_node[i]
      then == <<"load", <<i + 1>>>>
  IN  /\ cpc[t] = "find"
      /\ IF s_datas[e[1]] = NoVar \/ e[2] = Unreadable
           THEN Goes(t, then[1], then[2]) /\ UNCHANGED <<told, crossing>>
           ELSE Tells(t, s_datas[e[1]], e[2], then)
      /\ UNCHANGED <<lookVars, m_val, function_maps, wild, loadVars, calls, torn>>

LoadDone(t) ==
  /\ cpc[t] = "load" /\ arg[t][1] > Len(all_node)
  /\ Rests(t)
  /\ UNCHANGED <<lookVars, valueVars, loadVars, calls, torn>>

(* After undefined behaviour the model says nothing.                       *)
CfgNext ==
  ~torn /\ \E t \in CfgThread :
    \/ \E k \in Key, kd \in CfgKinds : LookBase(t, k, kd)
    \/ LookTyped(t) \/ Insert(t) \/ Store(t) \/ LookupBase(t) \/ Apply(t) \/ LoadDone(t)
    \/ \E v \in Vars, x \in Stored : SetNotify(t, v, x)
    \/ \E v \in Vars, l \in CfgListener : Listen(t, v, l)
    \/ \E v \in Vars : Clear(t, v)
    \/ \E f \in Files : LoadFile(t, f)

-----------------------------------------------------------------------------
(* Every caller of Lookup() has the variable the registry has, and so sees *)
(* what files say, unless look-ups of the name overlapped (config.hpp:473).*)
OneVariable == \A h \in handed : s_datas[h[1]] = h[2] \/ h[1] \in racing

(* With no setValue() under way a listener knows the value it was last told*)
(* to be stored, unless two calls overlapped (config.hpp:369, 379).        *)
ListenersKnow ==
  \A v \in Vars, l \in CfgListener :
    Setting(v) = {} /\ l \in function_maps[v] /\ told[v][l] # Unreadable =>
      told[v][l] = m_val[v] \/ v \in crossing

(* After a load that nobody else interfered with, a variable that was there*)
(* and whose name the loader lists has the value of the last readable entry*)
(* of that name in all the files so far, as far as its type's equality     *)
(* tells: also when the last file does not name it and the program had set *)
(* it since (config.hpp:493).                                              *)
LoadedAll ==
  \A t \in CfgThread, k \in Key \ Unlisted :
    LET v == s_datas[k]
        entries == {i \in DOMAIN filed : filed[i][1] = k /\ filed[i][2] # Unreadable}
        last == CHOOSE i \in entries : \A j \in entries : j <= i
    IN  /\ cpc[t] = "load" /\ arg[t][1] > Len(all_node)
        /\ v # NoVar /\ v \notin wild /\ entries # {}
        => SameValue(kind[v], m_val[v], filed[last][2])

(* A variable whose name has a letter only Lookup() allows is never set by *)
(* a file, whatever the files say (config.hpp:464, 521).                   *)
Unreached ==
  \A t \in CfgThread, k \in Unlisted : cpc[t] = "loadStore" => s_datas[k] # arg[t][1]

(* The registry, the listeners and the files at once.                      *)
ConfigSound == OneVariable /\ ListenersKnow /\ LoadedAll /\ Unreached
=============================================================================
