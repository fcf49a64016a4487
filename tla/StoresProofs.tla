----------------------------- MODULE StoresProofs -----------------------------
(***************************************************************************)
(* Proofs about MCStores: the configuration, for every number of threads,  *)
(* keys, listeners, calls and files; a request, for all parameters; the    *)
(* parser of patterns and the logger, for every pattern and any number of  *)
(* threads, appenders and levels.                                          *)
(*                                                                         *)
(* The argument: what lies between the halves of a call that gives the lock*)
(* up is what its thread saw, unless a second call for the same name or    *)
(* variable came between, and that is what racing and crossing record.  A  *)
(* load leaves behind it, entry by entry, the last value read so far.  A   *)
(* parameter follows what was done to it last.  The items that were parsed *)
(* cut the pattern into pieces, one behind the other.  While no calls      *)
(* overlap, one thread at a time deletes an appender, and the vector is as *)
(* it was told but for the place it is about to erase.                     *)
(***************************************************************************)
EXTENDS MCStores, FiniteSetTheorems, SequenceTheorems, WellFoundedInduction, TLAPS

-----------------------------------------------------------------------------
(* The registry.                                                           *)

CfgText == Stored \cup {Unreadable}
CfgPlaces == {"idle", "look", "insert", "store", "load", "find", "loadStore"}
CfgTyped ==
  /\ s_datas \in [Key -> 0 .. MaxVars] /\ made \in 0 .. MaxVars
  /\ kind \in [Vars -> CfgKinds] /\ m_val \in [Vars -> Stored]
  /\ function_maps \in [Vars -> SUBSET CfgListener]
  /\ told \in [Vars -> [CfgListener -> CfgText]]
  /\ cpc \in [CfgThread -> CfgPlaces] /\ arg = [t \in CfgThread |-> arg[t]]
  /\ all_node \in Seq(Key \X CfgText) /\ filed \in Seq(Key \X CfgText)
  /\ handed \subseteq Key \X (1 .. made)

InLookup(t) == cpc[t] \in {"look", "insert"}
InSet(t) == cpc[t] \in {"store", "loadStore"}
InLoad(t) == cpc[t] \in {"load", "find", "loadStore"}

(* What a thread is at it with.                                            *)
Argued ==
  \A t \in CfgThread :
    /\ InLookup(t) => arg[t] \in Key \X CfgKinds
    /\ InSet(t) => arg[t][1] \in 1 .. made /\ arg[t][2] \in Stored
    /\ cpc[t] = "store" => arg[t][3] = NoArg
    /\ cpc[t] = "load" => arg[t][1] \in 1 .. Len(all_node) + 1
    /\ cpc[t] = "find" => arg[t][1] \in 1 .. Len(all_node)

(* A variable has been made and has one name.                              *)
OneName ==
  /\ \A x \in Key : s_datas[x] <= made
  /\ \A x, y \in Key : s_datas[x] = s_datas[y] /\ s_datas[x] # NoVar => x = y

(* A look-up that nobody disturbs finds at its end what it found first.    *)
Undisturbed ==
  \A t \in CfgThread :
    LET x == arg[t][1]
    IN  /\ cpc[t] = "look" =>
             s_datas[x] = NoVar \/ kind[s_datas[x]] = arg[t][2] \/ x \in racing
        /\ cpc[t] = "insert" => s_datas[x] = NoVar \/ x \in racing
OneLooker ==
  \A s, t \in CfgThread :
    InLookup(s) /\ InLookup(t) /\ arg[s][1] = arg[t][1] => s = t \/ arg[t][1] \in racing

LookInv == OneName /\ Undisturbed /\ OneLooker /\ OneVariable

-----------------------------------------------------------------------------
(* The listeners: between the halves of setValue() they know what is about *)
(* to be stored.                                                           *)
OneSetter ==
  \A s, t \in CfgThread :
    InSet(s) /\ InSet(t) /\ arg[s][1] = arg[t][1] => s = t \/ arg[t][1] \in crossing
Announced ==
  \A t \in CfgThread : InSet(t) =>
    LET v == arg[t][1]
    IN  \A l \in function_maps[v] :
          told[v][l] = Unreadable \/ told[v][l] = arg[t][2] \/ v \in crossing

SetInv == OneSetter /\ Announced /\ ListenersKnow

-----------------------------------------------------------------------------
(* The loader.                                                             *)

Readable(p, x) == all_node[p][1] = x /\ all_node[p][2] # Unreadable
LastBefore(p, q, x) ==
  q < p /\ Readable(q, x) /\ \A r \in 1 .. Len(all_node) : q < r /\ r < p => ~Readable(r, x)

(* The entries before p are applied.                                       *)
Applied(p) ==
  \A x \in Key, q \in 1 .. Len(all_node) :
    LastBefore(p, q, x) /\ s_datas[x] # NoVar /\ s_datas[x] \notin wild =>
      SameValue(kind[s_datas[x]], m_val[s_datas[x]], all_node[q][2])

(* The loader is about to store the value of entry p.                      *)
Applying(t, p) ==
  LET v == arg[t][1]
  IN  /\ arg[t][2] = all_node[p][2] /\ arg[t][3] = <<p + 1>>
      /\ \A x \in Key : s_datas[x] = v => x = all_node[p][1]
      /\ LET w == s_datas[all_node[p][1]] IN w = v \/ w \in wild

OneLoader == \A s, t \in CfgThread : InLoad(s) /\ InLoad(t) => s = t
Loading ==
  \A t \in CfgThread :
    /\ cpc[t] \in {"load", "find"} => Applied(arg[t][1])
    /\ cpc[t] = "loadStore" =>
         \E p \in 1 .. Len(all_node) : Applied(p) /\ Applying(t, p)

(* What the loader has is what the files say, but for what it left out.    *)
Listed ==
  /\ Len(all_node) = Len(filed)
  /\ \A p \in 1 .. Len(filed) :
       /\ filed[p][1] \notin Unlisted => all_node[p] = filed[p]
       /\ filed[p][1] \in Unlisted => all_node[p] = <<filed[p][1], Unreadable>>

LoadInv == OneLoader /\ Loading /\ Listed

CfgInv == CfgTyped /\ Argued /\ LookInv /\ SetInv /\ LoadInv

-----------------------------------------------------------------------------
(* What every step of a thread has in common.                              *)

(* The values a variable starts with are values.                           *)
LEMMA DefaultStored == Default \in Stored
  BY CfgAssumption DEF Default

(* At first nothing is registered, set or loaded.                          *)
LEMMA CfgInitInv == CfgInit => CfgInv
PROOF
<1> SUFFICES ASSUME CfgInit PROVE CfgInv
  OBVIOUS
<1> USE DEF CfgInit
<1>1. CfgTyped
  BY CfgAssumption, DefaultStored DEF CfgTyped, CfgPlaces, CfgText, CfgKinds, NoVar, Vars
<1>2. Argued
  BY DEF Argued, InLookup, InSet
<1>3. LookInv
  BY DEF LookInv, OneName, Undisturbed, OneLooker, OneVariable, InLookup, NoVar
<1>4. SetInv
  BY DEF SetInv, OneSetter, Announced, ListenersKnow, InSet
<1>5. LoadInv
  BY DEF LoadInv, OneLoader, Loading, InLoad, Listed
<1> QED
  BY <1>1, <1>2, <1>3, <1>4, <1>5 DEF CfgInv

(* A thread goes to a place with its argument; the others stay.            *)
LEMMA GoesTo ==
  ASSUME CfgTyped, NEW t \in CfgThread, NEW l \in CfgPlaces, NEW a, Goes(t, l, a)
  PROVE  /\ cpc'[t] = l /\ arg'[t] = a
         /\ \A s \in CfgThread \ {t} : cpc'[s] = cpc[s] /\ arg'[s] = arg[s]
         /\ cpc' \in [CfgThread -> CfgPlaces]
         /\ arg' = [s \in CfgThread |-> arg'[s]]
PROOF
<1>1. /\ cpc' = [cpc EXCEPT ![t] = l] /\ cpc \in [CfgThread -> CfgPlaces]
      /\ arg' = [arg EXCEPT ![t] = a] /\ arg = [s \in CfgThread |-> arg[s]]
  BY DEF Goes, CfgTyped
<1> QED
  BY <1>1

(* A step that touches neither the registry nor a look-up.                 *)
LEMMA LookKept ==
  ASSUME LookInv, UNCHANGED lookVars,
         \A t \in CfgThread : InLookup(t)' => cpc'[t] = cpc[t] /\ arg'[t] = arg[t]
  PROVE  LookInv'
PROOF
<1> USE DEF lookVars
<1>1. OneName' /\ OneVariable'
  BY DEF LookInv, OneName, OneVariable
<1>2. Undisturbed'
  BY DEF LookInv, Undisturbed, InLookup
<1>3. OneLooker'
  BY DEF LookInv, OneLooker, InLookup
<1> QED
  BY <1>1, <1>2, <1>3 DEF LookInv

(* A step that touches neither values nor listeners nor a call of          *)
(* setValue().                                                             *)
LEMMA SetKept ==
  ASSUME SetInv, UNCHANGED <<m_val, function_maps, told, crossing>>,
         \A t \in CfgThread : (InSet(t)' <=> InSet(t)) /\ (InSet(t) => arg'[t] = arg[t])
  PROVE  SetInv'
PROOF
<1>1. OneSetter' /\ Announced'
  BY DEF SetInv, OneSetter, Announced
<1>2. \A v : Setting(v)' = Setting(v)
  BY DEF Setting, InSet
<1>3. ListenersKnow'
  BY <1>2 DEF SetInv, ListenersKnow
<1> QED
  BY <1>1, <1>3 DEF SetInv

(* A step that touches neither the registry nor a value nor the load.      *)
LEMMA LoadKept ==
  ASSUME LoadInv, UNCHANGED <<s_datas, kind, m_val, all_node, filed>>, wild \subseteq wild',
         \A t \in CfgThread : InLoad(t)' => cpc'[t] = cpc[t] /\ arg'[t] = arg[t]
  PROVE  LoadInv'
PROOF
<1>1. OneLoader'
  BY DEF LoadInv, OneLoader, InLoad
<1>2. \A p : Applied(p) => Applied(p)'
  BY DEF Applied, LastBefore, Readable
<1>3. ASSUME NEW t \in CfgThread, NEW p, arg'[t] = arg[t], Applying(t, p)
      PROVE  Applying(t, p)'
  BY <1>3 DEF Applying
<1>4. Loading'
  BY <1>2, <1>3 DEF LoadInv, Loading, InLoad
<1>5. Listed'
  BY DEF LoadInv, Listed
<1> QED
  BY <1>1, <1>4, <1>5 DEF LoadInv

-----------------------------------------------------------------------------
(* Lookup().                                                               *)

(* The first look of a thread makes a look-up of it, and a race of two.    *)
LEMMA LookBaseInv ==
  ASSUME CfgInv, NEW t \in CfgThread, NEW x \in Key, NEW kd \in CfgKinds, LookBase(t, x, kd)
  PROVE  CfgInv'
PROOF
<1>1. /\ cpc[t] = "idle"
      /\ racing' = IF Looking(x) # {} THEN racing \cup {x} ELSE racing
      /\ UNCHANGED <<s_datas, made, kind, handed, valueVars, loadVars>>
      /\ \/ Goes(t, "idle", NoArg)
         \/ (s_datas[x] = NoVar \/ kind[s_datas[x]] = kd) /\ Goes(t, "look", <<x, kd>>)
  BY DEF LookBase, Rests
<1> USE DEF valueVars, loadVars
<1>2. /\ \A s \in CfgThread \ {t} : cpc'[s] = cpc[s] /\ arg'[s] = arg[s]
      /\ cpc' \in [CfgThread -> CfgPlaces] /\ arg' = [s \in CfgThread |-> arg'[s]]
      /\ \/ cpc'[t] = "idle"
         \/ cpc'[t] = "look" /\ arg'[t] = <<x, kd>> /\ (s_datas[x] = NoVar \/ kind[s_datas[x]] = kd)
  BY <1>1, GoesTo DEF CfgInv, CfgPlaces
<1>3. CfgTyped'
  BY <1>1, <1>2 DEF CfgInv, CfgTyped
<1>4. Argued'
  BY <1>1, <1>2 DEF CfgInv, Argued, InLookup, InSet
<1>5. LookInv'
  <2>1. racing \subseteq racing'
    BY <1>1
  <2>2. OneName' /\ OneVariable'
    BY <1>1, <2>1 DEF CfgInv, LookInv, OneName, OneVariable
  <2>3. Undisturbed'
    BY <1>1, <1>2, <2>1 DEF CfgInv, LookInv, Undisturbed
  <2>4. ASSUME NEW s \in CfgThread \ {t}, InLookup(s), arg[s][1] = x PROVE x \in racing'
    BY <1>1, <2>4 DEF Looking, InLookup
  <2>5. OneLooker'
    BY <1>2, <2>1, <2>4 DEF CfgInv, LookInv, OneLooker, InLookup
  <2> QED
    BY <2>2, <2>3, <2>5 DEF LookInv
<1>6. SetInv'
  BY <1>1, <1>2, SetKept DEF CfgInv, InSet
<1>7. LoadInv'
  BY <1>1, <1>2, LoadKept DEF CfgInv, InLoad
<1> QED
  BY <1>3, <1>4, <1>5, <1>6, <1>7 DEF CfgInv

(* The second look: the variable it returns is the registered one, and a   *)
(* look-up that goes on found none.                                        *)
LEMMA LookTypedInv ==
  ASSUME CfgInv, NEW t \in CfgThread, LookTyped(t)
  PROVE  CfgInv'
PROOF
<1>1. PICK x \in Key, kd \in CfgKinds : arg[t] = <<x, kd>>
  BY DEF CfgInv, Argued, InLookup, LookTyped
<1>2. /\ cpc[t] = "look"
      /\ UNCHANGED <<s_datas, made, kind, racing, valueVars, loadVars, calls>>
      /\ \/ /\ s_datas[x] # NoVar /\ handed' = handed \cup {<<x, s_datas[x]>>}
            /\ Goes(t, "idle", NoArg)
         \/ UNCHANGED handed /\ Goes(t, "idle", NoArg)
         \/ /\ s_datas[x] = NoVar \/ kind[s_datas[x]] # kd
            /\ UNCHANGED handed /\ Goes(t, "insert", <<x, kd>>)
  BY <1>1 DEF LookTyped, Found, Rests
<1> USE DEF valueVars, loadVars
<1>3. /\ \A s \in CfgThread \ {t} : cpc'[s] = cpc[s] /\ arg'[s] = arg[s]
      /\ cpc' \in [CfgThread -> CfgPlaces] /\ arg' = [s \in CfgThread |-> arg'[s]]
      /\ \/ cpc'[t] = "idle"
         \/ /\ cpc'[t] = "insert" /\ arg'[t] = <<x, kd>>
            /\ s_datas[x] = NoVar \/ kind[s_datas[x]] # kd
  BY <1>2, GoesTo DEF CfgInv, CfgPlaces
<1>4. s_datas[x] \in 0 .. made /\ made \in Nat
  BY DEF CfgInv, CfgTyped, LookInv, OneName
<1>5. /\ handed' \subseteq Key \X (1 .. made)
      /\ \A h \in handed' : h \in handed \/ h = <<x, s_datas[x]>>
  BY <1>2, <1>4 DEF CfgInv, CfgTyped, NoVar
<1>6. CfgTyped'
  BY <1>2, <1>3, <1>5 DEF CfgInv, CfgTyped
<1>7. Argued'
  BY <1>1, <1>2, <1>3 DEF CfgInv, Argued, InLookup, InSet
<1>8. LookInv'
  <2>1. OneName' /\ OneVariable'
    BY <1>2, <1>5 DEF CfgInv, LookInv, OneName, OneVariable
  <2>2. Undisturbed'
    BY <1>1, <1>2, <1>3 DEF CfgInv, LookInv, Undisturbed
  <2>3. OneLooker'
    BY <1>1, <1>2, <1>3 DEF CfgInv, LookInv, OneLooker, InLookup
  <2> QED
    BY <2>1, <2>2, <2>3 DEF LookInv
<1>9. SetInv'
  BY <1>2, <1>3, SetKept DEF CfgInv, InSet
<1>10. LoadInv'
  BY <1>2, <1>3, LoadKept DEF CfgInv, InLoad
<1> QED
  BY <1>6, <1>7, <1>8, <1>9, <1>10 DEF CfgInv

(* The insertion: the new variable is nobody's yet, and wild for a load.   *)
LEMMA InsertInv ==
  ASSUME CfgInv, NEW t \in CfgThread, Insert(t)
  PROVE  CfgInv'
PROOF
<1>1. PICK x \in Key, kd \in CfgKinds : arg[t] = <<x, kd>>
  BY DEF CfgInv, Argued, InLookup, Insert
<1> DEFINE n == made + 1
<1>2. /\ cpc[t] = "insert" /\ made < MaxVars /\ made' = n
      /\ s_datas' = [s_datas EXCEPT ![x] = n] /\ kind' = [kind EXCEPT ![n] = kd]
      /\ handed' = handed \cup {<<x, n>>} /\ wild' = wild \cup {n}
      /\ Goes(t, "idle", NoArg)
      /\ UNCHANGED <<racing, m_val, function_maps, told, crossing, loadVars, calls>>
  BY <1>1 DEF Insert, Rests
<1> USE DEF loadVars
<1>3. /\ \A s \in CfgThread \ {t} : cpc'[s] = cpc[s] /\ arg'[s] = arg[s]
      /\ cpc' \in [CfgThread -> CfgPlaces] /\ arg' = [s \in CfgThread |-> arg'[s]]
      /\ cpc'[t] = "idle"
  BY <1>2, GoesTo DEF CfgInv, CfgPlaces
<1>4. /\ n \in Vars /\ n \in Nat /\ n # NoVar /\ made \in Nat /\ MaxVars \in Nat
      /\ \A y \in Key : s_datas[y] \in 0 .. made
  BY <1>2, CfgAssumption DEF CfgInv, CfgTyped, LookInv, OneName, Vars, NoVar
<1>5. /\ s_datas'[x] = n /\ \A y \in Key \ {x} : s_datas'[y] = s_datas[y]
      /\ \A y \in Key : s_datas[y] # n
      /\ \A v \in Vars \ {n} : kind'[v] = kind[v]
  BY <1>2, <1>4 DEF CfgInv, CfgTyped
<1> HIDE DEF n
<1>6. CfgTyped'
  <2>1. s_datas' \in [Key -> 0 .. MaxVars] /\ kind' \in [Vars -> CfgKinds]
    BY <1>2, <1>4 DEF CfgInv, CfgTyped, Vars
  <2>2. handed' \subseteq Key \X (1 .. made')
    BY <1>2, <1>4 DEF CfgInv, CfgTyped, n
  <2>3. made' \in 0 .. MaxVars
    BY <1>2, <1>4 DEF n
  <2> QED
    BY <1>2, <1>3, <2>1, <2>2, <2>3 DEF CfgInv, CfgTyped
<1>7. Argued'
  <2>1. 1 .. made \subseteq 1 .. made'
    BY <1>2, <1>4 DEF n
  <2> QED
    BY <1>2, <1>3, <2>1 DEF CfgInv, Argued, InLookup, InSet
<1>8. LookInv'
  <2>1. OneName'
    BY <1>2, <1>4, <1>5 DEF CfgInv, LookInv, OneName, n
  <2>2. ASSUME NEW s \in CfgThread \ {t}, InLookup(s), arg[s][1] = x PROVE x \in racing
    BY <1>1, <1>2, <2>2 DEF CfgInv, LookInv, OneLooker, InLookup
  <2>3. Undisturbed'
    <3> SUFFICES ASSUME NEW s \in CfgThread \ {t}, InLookup(s), arg[s][1] # x
                 PROVE  /\ cpc[s] = "look" =>
                             \/ s_datas'[arg[s][1]] = NoVar
                             \/ kind'[s_datas'[arg[s][1]]] = arg[s][2]
                             \/ arg[s][1] \in racing
                        /\ cpc[s] = "insert" => s_datas'[arg[s][1]] = NoVar \/ arg[s][1] \in racing
      BY <1>2, <1>3, <2>2 DEF Undisturbed, InLookup
    <3>1. arg[s][1] \in Key
      BY DEF CfgInv, Argued
    <3>2. PICK y \in Key \ {x} : y = arg[s][1]
      BY <3>1
    <3>3. s_datas'[y] = s_datas[y] /\ (s_datas[y] = NoVar \/ kind'[s_datas[y]] = kind[s_datas[y]])
      BY <1>4, <1>5, <1>2 DEF CfgInv, CfgTyped, Vars, NoVar
    <3> QED
      BY <3>2, <3>3 DEF CfgInv, LookInv, Undisturbed
  <2>4. OneLooker'
    BY <1>2, <1>3 DEF CfgInv, LookInv, OneLooker, InLookup
  <2>5. OneVariable'
    <3>1. s_datas[x] = NoVar \/ x \in racing
      BY <1>1, <1>2 DEF CfgInv, LookInv, Undisturbed
    <3>2. \A h \in handed : h[1] \in Key /\ h[2] # NoVar
      BY <1>4 DEF CfgInv, CfgTyped, NoVar
    <3>3. ASSUME NEW h \in handed PROVE s_datas'[h[1]] = h[2] \/ h[1] \in racing
      <4>1. s_datas[h[1]] = h[2] \/ h[1] \in racing
        BY DEF CfgInv, LookInv, OneVariable
      <4> QED
        BY <1>5, <3>1, <3>2, <4>1
    <3> QED
      BY <1>2, <1>5, <3>3 DEF OneVariable
  <2> QED
    BY <2>1, <2>3, <2>4, <2>5 DEF LookInv
<1>9. SetInv'
  BY <1>2, <1>3, SetKept DEF CfgInv, InSet
<1>10. LoadInv'
  <2>1. OneLoader'
    BY <1>2, <1>3 DEF CfgInv, LoadInv, OneLoader, InLoad
  <2>2. ASSUME NEW p, Applied(p) PROVE Applied(p)'
    <3> SUFFICES ASSUME NEW y \in Key, NEW q \in 1 .. Len(all_node), LastBefore(p, q, y),
                        s_datas'[y] # NoVar, s_datas'[y] \notin wild'
                 PROVE  SameValue(kind'[s_datas'[y]], m_val[s_datas'[y]], all_node[q][2])
      BY <1>2 DEF Applied, LastBefore, Readable, SameValue
    <3>1. y # x /\ s_datas'[y] = s_datas[y]
      BY <1>2, <1>5
    <3>2. kind'[s_datas[y]] = kind[s_datas[y]]
      BY <1>2, <1>4, <1>5, <3>1 DEF NoVar, Vars
    <3> QED
      BY <1>2, <2>2, <3>1, <3>2 DEF Applied
  <2>3. ASSUME NEW s \in CfgThread \ {t}, NEW p \in 1 .. Len(all_node), cpc[s] = "loadStore",
               Applying(s, p)
        PROVE  Applying(s, p)'
    <3>1. PICK y \in Key : y = all_node[p][1]
      BY DEF CfgInv, CfgTyped
    <3>2. PICK v \in 1 .. made : v = arg[s][1]
      BY <2>3 DEF CfgInv, Argued, InSet
    <3>3. v # n
      BY <1>4, <3>2 DEF n
    <3>4. \A z \in Key : s_datas'[z] = v => z = y
      BY <1>5, <2>3, <3>1, <3>2, <3>3 DEF Applying
    <3>5. s_datas'[y] = v \/ s_datas'[y] \in wild'
      BY <1>2, <1>5, <2>3, <3>1, <3>2 DEF Applying
    <3> QED
      BY <1>2, <1>3, <2>3, <3>1, <3>2, <3>4, <3>5 DEF Applying
  <2>4. Loading'
    BY <1>2, <1>3, <2>2, <2>3 DEF CfgInv, LoadInv, Loading
  <2>5. Listed'
    BY <1>2 DEF CfgInv, LoadInv, Listed
  <2> QED
    BY <2>1, <2>4, <2>5 DEF LoadInv
<1> QED
  BY <1>6, <1>7, <1>8, <1>9, <1>10 DEF CfgInv

-----------------------------------------------------------------------------
(* setValue() and the listeners.                                           *)

(* What has been made is a variable.                                       *)
LEMMA MadeAreVars == CfgInv => made \in Nat /\ 1 .. made \subseteq Vars
  BY CfgAssumption DEF CfgInv, CfgTyped, Vars

(* The first half of setValue(): nothing if the value is there already,    *)
(* else the listeners know what the thread goes on to store.               *)
LEMMA TellsHolds ==
  ASSUME CfgInv, NEW t \in CfgThread, ~InSet(t), NEW v \in 1 .. made, NEW x \in Stored,
         NEW l \in {"idle", "load"}, NEW a, Tells(t, v, x, <<l, a>>),
         UNCHANGED <<m_val, function_maps>>
  PROVE  /\ SetInv' /\ told' \in [Vars -> [CfgListener -> CfgText]]
         /\ \A s \in CfgThread \ {t} : cpc'[s] = cpc[s] /\ arg'[s] = arg[s]
         /\ cpc' \in [CfgThread -> CfgPlaces] /\ arg' = [s \in CfgThread |-> arg'[s]]
         /\ \/ cpc'[t] = l /\ arg'[t] = a /\ SameValue(kind[v], x, m_val[v])
            \/ /\ cpc'[t] = IF l = "idle" THEN "store" ELSE "loadStore"
               /\ arg'[t] = <<v, x, a>>
PROOF
<1>0. v \in Vars
  BY MadeAreVars
<1>1. CASE SameValue(kind[v], x, m_val[v])
  <2>1. UNCHANGED <<told, crossing>> /\ Goes(t, l, a)
    BY <1>1 DEF Tells
  <2>2. /\ cpc'[t] = l /\ arg'[t] = a
        /\ \A s \in CfgThread \ {t} : cpc'[s] = cpc[s] /\ arg'[s] = arg[s]
        /\ cpc' \in [CfgThread -> CfgPlaces] /\ arg' = [s \in CfgThread |-> arg'[s]]
    BY <2>1, GoesTo DEF CfgInv, CfgPlaces
  <2>3. SetInv'
    BY <2>1, <2>2, SetKept DEF CfgInv, InSet
  <2> QED
    BY <1>1, <2>1, <2>2, <2>3 DEF CfgInv, CfgTyped
<1>2. CASE ~SameValue(kind[v], x, m_val[v])
  <2> DEFINE p == IF l = "idle" THEN "store" ELSE "loadStore"
  <2>1. /\ told' = [told EXCEPT ![v] = [c \in CfgListener |->
                      IF c \in function_maps[v] THEN x ELSE told[v][c]]]
        /\ crossing' = IF Setting(v) # {} THEN crossing \cup {v} ELSE crossing
        /\ Goes(t, p, <<v, x, a>>)
    BY <1>2 DEF Tells
  <2>2. /\ cpc'[t] = p /\ arg'[t] = <<v, x, a>>
        /\ \A s \in CfgThread \ {t} : cpc'[s] = cpc[s] /\ arg'[s] = arg[s]
        /\ cpc' \in [CfgThread -> CfgPlaces] /\ arg' = [s \in CfgThread |-> arg'[s]]
    BY <2>1, GoesTo DEF CfgInv, CfgPlaces
  <2>3. told' \in [Vars -> [CfgListener -> CfgText]]
    <3>1. [c \in CfgListener |-> IF c \in function_maps[v] THEN x ELSE told[v][c]]
            \in [CfgListener -> CfgText]
      BY <1>0 DEF CfgInv, CfgTyped, CfgText
    <3> QED
      BY <2>1, <3>1 DEF CfgInv, CfgTyped
  <2>4. /\ \A c \in function_maps[v] : told'[v][c] = x
        /\ \A u \in Vars \ {v} : told'[u] = told[u]
    BY <1>0, <2>1 DEF CfgInv, CfgTyped
  <2>5. crossing \subseteq crossing'
    BY <2>1
  <2>6. ASSUME NEW s \in CfgThread \ {t}, InSet(s), arg[s][1] = v PROVE v \in crossing'
    BY <2>1, <2>6 DEF Setting, InSet
  <2>7. OneSetter'
    BY <2>2, <2>5, <2>6 DEF CfgInv, SetInv, OneSetter, InSet
  <2>8. Announced'
    <3> SUFFICES ASSUME NEW s \in CfgThread, InSet(s)', NEW c \in function_maps[arg'[s][1]]
                 PROVE  \/ told'[arg'[s][1]][c] = Unreadable
                        \/ told'[arg'[s][1]][c] = arg'[s][2]
                        \/ arg'[s][1] \in crossing'
      BY DEF Announced
    <3>1. CASE s = t
      BY <2>2, <2>4, <3>1
    <3>2. CASE s # t
      <4>1. PICK u \in 1 .. made : u = arg[s][1]
        BY <2>2, <3>2 DEF CfgInv, Argued, InSet
      <4>2. u \in Vars
        BY MadeAreVars
      <4>3. CASE u = v
        BY <2>2, <2>6, <3>2, <4>1, <4>3 DEF InSet
      <4>4. CASE u # v
        BY <2>2, <2>4, <2>5, <3>2, <4>1, <4>2, <4>4 DEF CfgInv, SetInv, Announced, InSet
      <4> QED
        BY <4>3, <4>4
    <3> QED
      BY <3>1, <3>2
  <2>9. ListenersKnow'
    <3> SUFFICES ASSUME NEW u \in Vars, NEW c \in CfgListener, Setting(u)' = {},
                        c \in function_maps[u], told'[u][c] # Unreadable
                 PROVE  told'[u][c] = m_val[u] \/ u \in crossing'
      BY DEF ListenersKnow
    <3>1. u # v
      BY <2>2 DEF Setting
    <3>2. Setting(u) = {}
      BY <2>2 DEF Setting, InSet
    <3> QED
      BY <2>4, <2>5, <3>1, <3>2 DEF CfgInv, SetInv, ListenersKnow
  <2>10. SetInv'
    BY <2>7, <2>8, <2>9 DEF SetInv
  <2> QED
    BY <2>2, <2>3, <2>10
<1> QED
  BY <1>1, <1>2

(* setValue() by the program.                                              *)
LEMMA SetNotifyInv ==
  ASSUME CfgInv, NEW t \in CfgThread, NEW v \in Vars, NEW x \in Stored, SetNotify(t, v, x)
  PROVE  CfgInv'
PROOF
<1>1. /\ cpc[t] = "idle" /\ v \in 1 .. made /\ Tells(t, v, x, <<"idle", NoArg>>)
      /\ wild' = wild \cup {v} /\ UNCHANGED <<lookVars, m_val, function_maps, loadVars>>
  BY MadeAreVars DEF SetNotify, Vars
<1> USE DEF lookVars, loadVars
<1>2. ~InSet(t)
  BY <1>1 DEF InSet
<1>3. /\ SetInv' /\ told' \in [Vars -> [CfgListener -> CfgText]]
      /\ \A s \in CfgThread \ {t} : cpc'[s] = cpc[s] /\ arg'[s] = arg[s]
      /\ cpc' \in [CfgThread -> CfgPlaces] /\ arg' = [s \in CfgThread |-> arg'[s]]
      /\ cpc'[t] = "idle" \/ (cpc'[t] = "store" /\ arg'[t] = <<v, x, NoArg>>)
  BY <1>1, <1>2, TellsHolds
<1>4. CfgTyped'
  BY <1>1, <1>3 DEF CfgInv, CfgTyped
<1>5. Argued'
  BY <1>1, <1>3 DEF CfgInv, Argued, InLookup, InSet
<1>6. LookInv'
  BY <1>1, <1>3, LookKept DEF CfgInv, InLookup
<1>7. LoadInv'
  BY <1>1, <1>3, LoadKept DEF CfgInv, InLoad
<1> QED
  BY <1>3, <1>4, <1>5, <1>6, <1>7 DEF CfgInv

(* The second half, of the program or of the loader.                       *)
LEMMA StoreInv ==
  ASSUME CfgInv, NEW t \in CfgThread, Store(t)
  PROVE  CfgInv'
PROOF
<1>0. PICK v \in 1 .. made, x \in Stored : arg[t][1] = v /\ arg[t][2] = x
  BY DEF CfgInv, Argued, InSet, Store
<1>1. /\ cpc[t] \in {"store", "loadStore"} /\ m_val' = [m_val EXCEPT ![v] = x]
      /\ Goes(t, IF cpc[t] = "store" THEN "idle" ELSE "load", arg[t][3])
      /\ wild' = IF cpc[t] = "store" THEN wild \cup {v} ELSE wild
      /\ UNCHANGED <<lookVars, function_maps, told, crossing, loadVars, calls>>
  BY <1>0 DEF Store
<1> USE DEF lookVars, loadVars
<1>2. /\ cpc'[t] = (IF cpc[t] = "store" THEN "idle" ELSE "load") /\ arg'[t] = arg[t][3]
      /\ \A s \in CfgThread \ {t} : cpc'[s] = cpc[s] /\ arg'[s] = arg[s]
      /\ cpc' \in [CfgThread -> CfgPlaces] /\ arg' = [s \in CfgThread |-> arg'[s]]
  BY <1>1, GoesTo DEF CfgInv, CfgPlaces
<1>3. v \in Vars /\ m_val'[v] = x /\ \A u \in Vars \ {v} : m_val'[u] = m_val[u]
  BY <1>1, MadeAreVars DEF CfgInv, CfgTyped
<1>4. CfgTyped'
  <2>1. m_val' \in [Vars -> Stored]
    BY <1>1 DEF CfgInv, CfgTyped
  <2> QED
    BY <1>1, <1>2, <2>1 DEF CfgInv, CfgTyped
<1>5. ASSUME cpc[t] = "loadStore"
      PROVE  \E p \in 1 .. Len(all_node) : Applied(p) /\ Applying(t, p)
  BY <1>5 DEF CfgInv, LoadInv, Loading
<1>6. Argued'
  <2>1. cpc[t] = "loadStore" => arg[t][3][1] \in 1 .. Len(all_node) + 1
    <3>1. ASSUME NEW p \in 1 .. Len(all_node), arg[t][3] = <<p + 1>>
          PROVE  arg[t][3][1] \in 1 .. Len(all_node) + 1
      <4>1. Len(all_node) \in Nat
        BY DEF CfgInv, CfgTyped
      <4> QED
        BY <3>1, <4>1
    <3> QED
      BY <1>5, <3>1 DEF Applying
  <2> QED
    BY <1>1, <1>2, <2>1 DEF CfgInv, Argued, InLookup, InSet
<1>7. LookInv'
  BY <1>1, <1>2, LookKept DEF CfgInv, InLookup
<1>8. SetInv'
  <2>1. OneSetter'
    BY <1>1, <1>2 DEF CfgInv, SetInv, OneSetter, InSet
  <2>2. Announced'
    BY <1>1, <1>2 DEF CfgInv, SetInv, Announced, InSet
  <2>3. ListenersKnow'
    <3> SUFFICES ASSUME NEW u \in Vars, NEW c \in CfgListener, Setting(u)' = {},
                        c \in function_maps[u], told[u][c] # Unreadable
                 PROVE  told[u][c] = m_val'[u] \/ u \in crossing
      BY <1>1 DEF ListenersKnow
    <3>1. CASE u = v
      BY <1>0, <1>1, <1>3, <3>1 DEF CfgInv, SetInv, Announced, InSet
    <3>2. CASE u # v
      <4>1. Setting(u) = {}
        BY <1>0, <1>2, <3>2 DEF Setting
      <4> QED
        BY <1>3, <3>2, <4>1 DEF CfgInv, SetInv, ListenersKnow
    <3> QED
      BY <3>1, <3>2
  <2> QED
    BY <2>1, <2>2, <2>3 DEF SetInv
<1>9. LoadInv'
  <2>1. OneLoader' /\ Listed'
    BY <1>1, <1>2 DEF CfgInv, LoadInv, OneLoader, InLoad, Listed
  <2>2. ASSUME NEW s \in CfgThread, NEW p, arg'[s] = arg[s], Applying(s, p)
        PROVE  Applying(s, p)'
    BY <1>1, <2>2 DEF Applying
  <2>3. CASE cpc[t] = "store"
    <3>1. ASSUME NEW p, Applied(p) PROVE Applied(p)'
      <4> SUFFICES ASSUME NEW y \in Key, NEW q \in 1 .. Len(all_node),
                          LastBefore(p, q, y), s_datas[y] # NoVar, s_datas[y] \notin wild'
                   PROVE  SameValue(kind[s_datas[y]], m_val'[s_datas[y]], all_node[q][2])
        BY <1>1 DEF Applied, LastBefore, Readable, SameValue
      <4>1. s_datas[y] \in Vars /\ s_datas[y] # v /\ s_datas[y] \notin wild
        BY <1>1, <2>3 DEF CfgInv, CfgTyped, Vars, NoVar
      <4> QED
        BY <1>3, <3>1, <4>1 DEF Applied
    <3>2. \A s \in CfgThread : InLoad(s)' => cpc'[s] = cpc[s] /\ arg'[s] = arg[s]
      BY <1>2, <2>3 DEF InLoad
    <3>3. Loading'
      BY <1>1, <2>2, <3>1, <3>2 DEF CfgInv, LoadInv, Loading, InLoad
    <3> QED
      BY <2>1, <3>3 DEF LoadInv
  <2>4. CASE cpc[t] = "loadStore"
    <3>1. PICK p \in 1 .. Len(all_node) : Applied(p) /\ Applying(t, p)
      BY <1>5, <2>4
    <3>2. Applied(p + 1)'
      <4> SUFFICES ASSUME NEW y \in Key, NEW q \in 1 .. Len(all_node), LastBefore(p + 1, q, y),
                          s_datas[y] # NoVar, s_datas[y] \notin wild
                   PROVE  SameValue(kind[s_datas[y]], m_val'[s_datas[y]], all_node[q][2])
        BY <1>1, <2>4 DEF Applied, LastBefore, Readable, SameValue
      <4>0. Len(all_node) \in Nat /\ p \in Nat /\ q \in Nat
        BY DEF CfgInv, CfgTyped
      <4>1. s_datas[y] \in Vars
        BY DEF CfgInv, CfgTyped, Vars, NoVar
      <4>2. CASE q = p
        <5>1. y = all_node[p][1]
          BY <4>2 DEF LastBefore, Readable
        <5>2. s_datas[y] = v /\ all_node[p][2] = x
          BY <1>0, <3>1, <5>1 DEF Applying
        <5> QED
          BY <1>3, <4>2, <5>2 DEF SameValue
      <4>3. CASE q # p
        <5>1. q < p /\ LastBefore(p, q, y)
          BY <4>0, <4>3 DEF LastBefore
        <5>2. y # all_node[p][1]
          <6>1. ~Readable(p, y)
            BY <4>0, <5>1 DEF LastBefore
          <6>2. all_node[p][2] # Unreadable
            BY <1>0, <3>1, CfgAssumption DEF Applying
          <6> QED
            BY <6>1, <6>2 DEF Readable
        <5>3. s_datas[y] # v
          BY <1>0, <3>1, <5>2 DEF Applying
        <5> QED
          BY <1>3, <3>1, <4>1, <5>1, <5>3 DEF Applied
      <4> QED
        BY <4>2, <4>3
    <3>3. arg'[t][1] = p + 1 /\ cpc'[t] = "load"
      BY <1>2, <2>4, <3>1 DEF Applying
    <3>4. \A s \in CfgThread \ {t} : ~InLoad(s)
      BY <2>4 DEF CfgInv, LoadInv, OneLoader, InLoad
    <3>5. Loading'
      BY <1>2, <3>2, <3>3, <3>4 DEF Loading, InLoad
    <3> QED
      BY <2>1, <3>5 DEF LoadInv
  <2> QED
    BY <1>1, <2>3, <2>4
<1> QED
  BY <1>4, <1>6, <1>7, <1>8, <1>9 DEF CfgInv

(* A listener joins, and has been told nothing, or leaves.                 *)
LEMMA ListenInv ==
  ASSUME CfgInv, NEW t \in CfgThread, NEW v \in Vars, NEW l \in CfgListener, Listen(t, v, l)
  PROVE  CfgInv'
PROOF
<1>1. /\ function_maps' = [function_maps EXCEPT ![v] = IF l \in @ THEN @ \ {l} ELSE @ \cup {l}]
      /\ told' = [told EXCEPT ![v][l] = Unreadable]
      /\ UNCHANGED <<lookVars, m_val, crossing, wild, cpc, arg, loadVars>>
  BY DEF Listen
<1> USE DEF lookVars, loadVars
<1>2. /\ function_maps' \in [Vars -> SUBSET CfgListener]
      /\ told' \in [Vars -> [CfgListener -> CfgText]]
  <2>1. \A c \in CfgListener : told[v][c] \in CfgText
    BY DEF CfgInv, CfgTyped
  <2>2. [told[v] EXCEPT ![l] = Unreadable] \in [CfgListener -> CfgText]
    BY <2>1 DEF CfgInv, CfgTyped, CfgText
  <2> QED
    BY <1>1, <2>2 DEF CfgInv, CfgTyped
<1>3. \A u \in Vars, c \in CfgListener :
        c \in function_maps'[u] =>
          \/ told'[u][c] = Unreadable
          \/ c \in function_maps[u] /\ told'[u][c] = told[u][c]
  BY <1>1 DEF CfgInv, CfgTyped
<1>4. CfgTyped'
  BY <1>1, <1>2 DEF CfgInv, CfgTyped
<1>5. Argued'
  BY <1>1 DEF CfgInv, Argued, InLookup, InSet
<1>6. LookInv'
  BY <1>1, LookKept DEF CfgInv
<1>7. LoadInv'
  BY <1>1, LoadKept DEF CfgInv
<1>8. SetInv'
  <2>1. OneSetter'
    BY <1>1 DEF CfgInv, SetInv, OneSetter, InSet
  <2>2. Announced'
    <3> SUFFICES ASSUME NEW s \in CfgThread, InSet(s), NEW c \in function_maps'[arg[s][1]]
                 PROVE  \/ told'[arg[s][1]][c] = Unreadable
                        \/ told'[arg[s][1]][c] = arg[s][2]
                        \/ arg[s][1] \in crossing
      BY <1>1 DEF Announced, InSet
    <3>1. PICK u \in Vars : u = arg[s][1]
      BY MadeAreVars DEF CfgInv, Argued
    <3>2. c \in CfgListener
      BY <1>2, <3>1
    <3> QED
      BY <1>3, <3>1, <3>2 DEF CfgInv, SetInv, Announced
  <2>3. ListenersKnow'
    BY <1>1, <1>3 DEF CfgInv, SetInv, ListenersKnow, Setting
  <2> QED
    BY <2>1, <2>2, <2>3 DEF SetInv
<1> QED
  BY <1>4, <1>5, <1>6, <1>7, <1>8 DEF CfgInv

(* All listeners leave.                                                    *)
LEMMA ClearInv ==
  ASSUME CfgInv, NEW t \in CfgThread, NEW v \in Vars, Clear(t, v)
  PROVE  CfgInv'
PROOF
<1>1. /\ function_maps' = [function_maps EXCEPT ![v] = {}]
      /\ UNCHANGED <<lookVars, m_val, told, crossing, wild, cpc, arg, loadVars>>
  BY DEF Clear
<1> USE DEF lookVars, loadVars
<1>2. /\ function_maps' \in [Vars -> SUBSET CfgListener]
      /\ \A u \in Vars : function_maps'[u] \subseteq function_maps[u]
  BY <1>1 DEF CfgInv, CfgTyped
<1>3. CfgTyped'
  BY <1>1, <1>2 DEF CfgInv, CfgTyped
<1>4. Argued'
  BY <1>1 DEF CfgInv, Argued, InLookup, InSet
<1>5. LookInv' /\ LoadInv'
  BY <1>1, LookKept, LoadKept DEF CfgInv
<1>6. SetInv'
  <2>1. OneSetter' /\ ListenersKnow'
    BY <1>1, <1>2 DEF CfgInv, SetInv, OneSetter, InSet, ListenersKnow, Setting
  <2>2. Announced'
    <3>1. \A s \in CfgThread : InSet(s) => arg[s][1] \in Vars
      BY MadeAreVars DEF CfgInv, Argued
    <3> QED
      BY <1>1, <1>2, <3>1 DEF CfgInv, SetInv, Announced, InSet
  <2> QED
    BY <2>1, <2>2 DEF SetInv
<1> QED
  BY <1>3, <1>4, <1>5, <1>6 DEF CfgInv

-----------------------------------------------------------------------------
(* LoadFileFromYaml().                                                     *)

(* The loader takes as many entries as the file has; one it leaves out has *)
(* nothing to apply.                                                       *)
LEMMA ListAllMemberIs ==
  ASSUME NEW f \in Seq(Key \X CfgText)
  PROVE  /\ ListAllMember(f) \in Seq(Key \X CfgText) /\ Len(ListAllMember(f)) = Len(f)
         /\ \A p \in 1 .. Len(f) :
              ListAllMember(f)[p] = IF f[p][1] \in Unlisted THEN <<f[p][1], Unreadable>> ELSE f[p]
PROOF
<1> DEFINE e(p) == IF f[p][1] \in Unlisted THEN <<f[p][1], Unreadable>> ELSE f[p]
<1>1. ListAllMember(f) = [p \in 1 .. Len(f) |-> e(p)] /\ Len(f) \in Nat
  BY DEF ListAllMember
<1>2. \A p \in 1 .. Len(f) : e(p) \in Key \X CfgText
  BY DEF CfgText
<1> HIDE DEF e
<1>3. ListAllMember(f) \in Seq(Key \X CfgText) /\ Len(ListAllMember(f)) = Len(f)
  BY <1>1, <1>2
<1>4. \A p \in 1 .. Len(f) : ListAllMember(f)[p] = e(p)
  BY <1>1
<1> QED
  BY <1>3, <1>4 DEF e

(* An entry of two sequences, one behind the other, is that of a part.     *)
LEMMA EntryOf ==
  ASSUME NEW S, NEW a \in Seq(S), NEW c \in Seq(S), NEW p \in 1 .. Len(a \o c)
  PROVE  (a \o c)[p] = IF p \in 1 .. Len(a) THEN a[p] ELSE c[p - Len(a)]
  OBVIOUS

(* A file joins the others; nothing is applied yet.                        *)
LEMMA LoadFileInv ==
  ASSUME CfgInv, NEW t \in CfgThread, NEW f \in Files, LoadFile(t, f)
  PROVE  CfgInv'
PROOF
<1>1. /\ cpc[t] = "idle" /\ \A s \in CfgThread : ~InLoad(s)
      /\ all_node' = all_node \o ListAllMember(f) /\ filed' = filed \o f
      /\ Goes(t, "load", <<1>>)
      /\ UNCHANGED <<lookVars, m_val, function_maps, told, crossing, calls>>
  BY DEF LoadFile, InLoad
<1> USE DEF lookVars
<1>2. /\ cpc'[t] = "load" /\ arg'[t] = <<1>>
      /\ \A s \in CfgThread \ {t} : cpc'[s] = cpc[s] /\ arg'[s] = arg[s]
      /\ cpc' \in [CfgThread -> CfgPlaces] /\ arg' = [s \in CfgThread |-> arg'[s]]
  BY <1>1, GoesTo DEF CfgInv, CfgPlaces
<1>0. /\ f \in Seq(Key \X CfgText) /\ ListAllMember(f) \in Seq(Key \X CfgText)
      /\ Len(ListAllMember(f)) = Len(f)
      /\ \A p \in 1 .. Len(f) :
           ListAllMember(f)[p] = IF f[p][1] \in Unlisted THEN <<f[p][1], Unreadable>> ELSE f[p]
  <2>1. f \in Seq(Key \X CfgText)
    BY CfgAssumption DEF CfgText
  <2> QED
    BY <2>1, ListAllMemberIs
<1>3. /\ all_node' \in Seq(Key \X CfgText) /\ Len(all_node') \in Nat
      /\ filed' \in Seq(Key \X CfgText)
  <2>1. all_node \in Seq(Key \X CfgText) /\ filed \in Seq(Key \X CfgText)
    BY DEF CfgInv, CfgTyped
  <2>2. /\ all_node \o ListAllMember(f) \in Seq(Key \X CfgText)
        /\ filed \o f \in Seq(Key \X CfgText)
    BY <1>0, <2>1, ConcatProperties, Zenon
  <2> QED
    BY <1>1, <2>2
<1>4. CfgTyped'
  BY <1>1, <1>2, <1>3 DEF CfgInv, CfgTyped
<1>5. Argued'
  <2>1. \A s \in CfgThread \ {t} : cpc'[s] \notin {"load", "find"}
    BY <1>1, <1>2 DEF InLoad
  <2>2. 1 \in 1 .. Len(all_node') + 1
    BY <1>3
  <2> QED
    BY <1>1, <1>2, <2>1, <2>2 DEF CfgInv, Argued, InLookup, InSet
<1>6. LookInv'
  BY <1>1, <1>2, LookKept DEF CfgInv, InLookup
<1>7. SetInv'
  BY <1>1, <1>2, SetKept DEF CfgInv, InSet
<1>8. LoadInv'
  <2>1. OneLoader'
    BY <1>1, <1>2 DEF OneLoader, InLoad
  <2>4. Listed'
    <3>0. /\ all_node \in Seq(Key \X CfgText) /\ filed \in Seq(Key \X CfgText)
          /\ Len(filed) = Len(all_node)
      BY DEF CfgInv, CfgTyped, LoadInv, Listed
    <3> DEFINE g == ListAllMember(f)
    <3> HIDE DEF g
    <3>1. /\ g \in Seq(Key \X CfgText) /\ Len(f) = Len(g)
          /\ all_node' = all_node \o g /\ filed' = filed \o f
      BY <1>0, <1>1 DEF g
    <3>2. Len(all_node') = Len(filed')
      <4>1. /\ Len(all_node \o g) = Len(all_node) + Len(g)
            /\ Len(filed \o f) = Len(filed) + Len(f)
        BY <1>0, <3>0, <3>1, ConcatProperties, Zenon
      <4> QED
        BY <3>0, <3>1, <4>1
    <3>3. ASSUME NEW p \in 1 .. Len(filed')
          PROVE  \/ \E q \in 1 .. Len(filed) : filed'[p] = filed[q] /\ all_node'[p] = all_node[q]
                 \/ \E q \in 1 .. Len(f) : filed'[p] = f[q] /\ all_node'[p] = g[q]
      <4>1. f \in Seq(Key \X CfgText) /\ Len(filed) \in Nat /\ Len(f) \in Nat
        BY <1>0, <3>0
      <4>2. p \in 1 .. Len(filed \o f) /\ p \in 1 .. Len(all_node \o g)
        BY <3>1, <3>2, Zenon
      <4>3. p \in 1 .. Len(filed) \/ p - Len(filed) \in 1 .. Len(f)
        BY <3>0, <4>1, <4>2
      <4>4. filed'[p] = IF p \in 1 .. Len(filed) THEN filed[p] ELSE f[p - Len(filed)]
        <5>1. (filed \o f)[p] = IF p \in 1 .. Len(filed) THEN filed[p] ELSE f[p - Len(filed)]
          BY <3>0, <4>1, <4>2, EntryOf
        <5> QED
          BY <3>1, <5>1, Zenon
      <4>5. all_node'[p] = IF p \in 1 .. Len(filed) THEN all_node[p] ELSE g[p - Len(filed)]
        <5>1. (all_node \o g)[p] =
                IF p \in 1 .. Len(all_node) THEN all_node[p] ELSE g[p - Len(all_node)]
          BY <3>0, <3>1, <4>2, EntryOf
        <5> QED
          BY <3>0, <3>1, <5>1, Zenon
      <4> QED
        BY <4>3, <4>4, <4>5, Zenon
    <3>4. \A q \in 1 .. Len(f) : g[q] = IF f[q][1] \in Unlisted THEN <<f[q][1], Unreadable>> ELSE f[q]
      BY <1>0, Zenon DEF g
    <3>5. \A q \in 1 .. Len(filed) :
            /\ filed[q][1] \notin Unlisted => all_node[q] = filed[q]
            /\ filed[q][1] \in Unlisted => all_node[q] = <<filed[q][1], Unreadable>>
      BY DEF CfgInv, LoadInv, Listed
    <3>6. ASSUME NEW p \in 1 .. Len(filed')
          PROVE  /\ filed'[p][1] \notin Unlisted => all_node'[p] = filed'[p]
                 /\ filed'[p][1] \in Unlisted => all_node'[p] = <<filed'[p][1], Unreadable>>
      <4>1. CASE \E q \in 1 .. Len(filed) : filed'[p] = filed[q] /\ all_node'[p] = all_node[q]
        BY <3>5, <4>1, Zenon
      <4>2. CASE \E q \in 1 .. Len(f) : filed'[p] = f[q] /\ all_node'[p] = g[q]
        BY <3>4, <4>2, Zenon
      <4> QED
        BY <3>3, <4>1, <4>2, Zenon
    <3> QED
      BY <3>2, <3>6 DEF Listed
  <2>2. Applied(1)'
    BY <1>3 DEF Applied, LastBefore
  <2>3. Loading'
    BY <1>1, <1>2, <2>2 DEF Loading, InLoad
  <2> QED
    BY <2>1, <2>3, <2>4 DEF LoadInv
<1> QED
  BY <1>4, <1>5, <1>6, <1>7, <1>8 DEF CfgInv

(* The loader begins to look for the variable of the next entry.           *)
LEMMA LookupBaseInv ==
  ASSUME CfgInv, NEW t \in CfgThread, LookupBase(t)
  PROVE  CfgInv'
PROOF
<1>1. /\ cpc[t] = "load" /\ arg[t][1] <= Len(all_node) /\ Goes(t, "find", arg[t])
      /\ UNCHANGED <<lookVars, valueVars, loadVars, calls>>
  BY DEF LookupBase
<1> USE DEF lookVars, valueVars, loadVars
<1>2. /\ cpc'[t] = "find" /\ arg'[t] = arg[t]
      /\ \A s \in CfgThread \ {t} : cpc'[s] = cpc[s] /\ arg'[s] = arg[s]
      /\ cpc' \in [CfgThread -> CfgPlaces] /\ arg' = [s \in CfgThread |-> arg'[s]]
  BY <1>1, GoesTo DEF CfgInv, CfgPlaces
<1>3. arg[t][1] \in 1 .. Len(all_node)
  BY <1>1 DEF CfgInv, CfgTyped, Argued
<1>4. CfgTyped' /\ Argued'
  BY <1>1, <1>2, <1>3 DEF CfgInv, CfgTyped, Argued, InLookup, InSet
<1>5. LookInv' /\ SetInv'
  BY <1>1, <1>2, LookKept, SetKept DEF CfgInv, InLookup, InSet
<1>6. LoadInv'
  <2>1. OneLoader' /\ Listed'
    BY <1>1, <1>2 DEF CfgInv, LoadInv, OneLoader, InLoad, Listed
  <2>2. \A p : Applied(p) => Applied(p)'
    BY <1>1 DEF Applied, LastBefore, Readable, SameValue
  <2>3. \A s \in CfgThread \ {t} : ~InLoad(s)'
    BY <1>1, <1>2 DEF CfgInv, LoadInv, OneLoader, InLoad
  <2>4. Loading'
    BY <1>1, <1>2, <2>2, <2>3 DEF CfgInv, LoadInv, Loading, InLoad
  <2> QED
    BY <2>1, <2>4 DEF LoadInv
<1> QED
  BY <1>4, <1>5, <1>6 DEF CfgInv

(* An entry that is there already, or cannot be applied, is passed over.   *)
LEMMA PassedOver ==
  ASSUME CfgInv, NEW p \in 1 .. Len(all_node), Applied(p),
         LET v == s_datas[all_node[p][1]]
         IN  \/ v = NoVar \/ all_node[p][2] = Unreadable
             \/ SameValue(kind[v], all_node[p][2], m_val[v])
  PROVE  Applied(p + 1)
PROOF
<1> SUFFICES ASSUME NEW x \in Key, NEW q \in 1 .. Len(all_node), LastBefore(p + 1, q, x),
                    s_datas[x] # NoVar, s_datas[x] \notin wild
             PROVE  SameValue(kind[s_datas[x]], m_val[s_datas[x]], all_node[q][2])
  BY DEF Applied
<1>1. Len(all_node) \in Nat /\ p \in Nat /\ q \in Nat
  BY DEF CfgInv, CfgTyped
<1>2. CASE q = p
  BY <1>2 DEF LastBefore, Readable, SameValue
<1>3. CASE q # p
  <2>1. LastBefore(p, q, x)
    BY <1>1, <1>3 DEF LastBefore
  <2> QED
    BY <2>1 DEF Applied
<1> QED
  BY <1>2, <1>3

(* The loader takes the next entry.                                        *)
LEMMA ApplyInv ==
  ASSUME CfgInv, NEW t \in CfgThread, Apply(t)
  PROVE  CfgInv'
PROOF
<1>0. Len(all_node) \in Nat
  BY DEF CfgInv, CfgTyped
<1>1. PICK p \in 1 .. Len(all_node) : p = arg[t][1]
  BY <1>0 DEF CfgInv, Argued, Apply
<1>2. PICK x \in Key, e \in CfgText : all_node[p] = <<x, e>>
  BY DEF CfgInv, CfgTyped
<1>3. PICK v \in 0 .. made : v = s_datas[x]
  BY DEF CfgInv, CfgTyped, LookInv, OneName
<1>4. /\ cpc[t] = "find"
      /\ \/ /\ v = NoVar \/ e = Unreadable
            /\ Goes(t, "load", <<p + 1>>) /\ UNCHANGED <<told, crossing>>
         \/ v # NoVar /\ e # Unreadable /\ Tells(t, v, e, <<"load", <<p + 1>>>>)
      /\ UNCHANGED <<lookVars, m_val, function_maps, wild, loadVars, calls>>
  BY <1>1, <1>2, <1>3 DEF Apply
<1> USE DEF lookVars, loadVars
<1>5. ~InSet(t) /\ Applied(p)
  BY <1>1, <1>4 DEF InSet, CfgInv, LoadInv, Loading
<1>6. /\ SetInv' /\ told' \in [Vars -> [CfgListener -> CfgText]]
      /\ \A s \in CfgThread \ {t} : cpc'[s] = cpc[s] /\ arg'[s] = arg[s]
      /\ cpc' \in [CfgThread -> CfgPlaces] /\ arg' = [s \in CfgThread |-> arg'[s]]
      /\ \/ /\ cpc'[t] = "load" /\ arg'[t] = <<p + 1>>
            /\ v = NoVar \/ e = Unreadable \/ SameValue(kind[v], e, m_val[v])
         \/ /\ cpc'[t] = "loadStore" /\ arg'[t] = <<v, e, <<p + 1>>>>
            /\ v \in 1 .. made /\ e \in Stored
  <2>1. CASE /\ v = NoVar \/ e = Unreadable
             /\ Goes(t, "load", <<p + 1>>) /\ UNCHANGED <<told, crossing>>
    <3>1. /\ cpc'[t] = "load" /\ arg'[t] = <<p + 1>>
          /\ \A s \in CfgThread \ {t} : cpc'[s] = cpc[s] /\ arg'[s] = arg[s]
          /\ cpc' \in [CfgThread -> CfgPlaces] /\ arg' = [s \in CfgThread |-> arg'[s]]
      BY <2>1, GoesTo DEF CfgInv, CfgPlaces
    <3>2. SetInv'
      BY <1>4, <1>5, <2>1, <3>1, SetKept DEF CfgInv, InSet
    <3> QED
      BY <2>1, <3>1, <3>2 DEF CfgInv, CfgTyped
  <2>2. CASE v # NoVar /\ e # Unreadable /\ Tells(t, v, e, <<"load", <<p + 1>>>>)
    <3>1. v \in 1 .. made /\ e \in Stored
      BY <2>2, MadeAreVars DEF NoVar, CfgText
    <3> QED
      BY <1>4, <1>5, <2>2, <3>1, TellsHolds
  <2> QED
    BY <1>4, <2>1, <2>2
<1>7. CfgTyped'
  BY <1>4, <1>6 DEF CfgInv, CfgTyped
<1>8. Argued'
  <2>1. p + 1 \in 1 .. Len(all_node) + 1
    BY <1>0
  <2> QED
    BY <1>4, <1>6, <2>1 DEF CfgInv, Argued, InLookup, InSet
<1>9. LookInv'
  BY <1>4, <1>6, LookKept DEF CfgInv, InLookup
<1>10. LoadInv'
  <2>1. OneLoader' /\ Listed'
    BY <1>4, <1>6 DEF CfgInv, LoadInv, OneLoader, InLoad, Listed
  <2>2. \A s \in CfgThread \ {t} : ~InLoad(s)'
    BY <1>4, <1>6 DEF CfgInv, LoadInv, OneLoader, InLoad
  <2>3. \A q : Applied(q)' <=> Applied(q)
    BY <1>4 DEF Applied, LastBefore, Readable, SameValue
  <2>4. CASE /\ cpc'[t] = "load" /\ arg'[t] = <<p + 1>>
             /\ v = NoVar \/ e = Unreadable \/ SameValue(kind[v], e, m_val[v])
    <3>1. Applied(p + 1)
      BY <1>2, <1>3, <1>5, <2>4, PassedOver
    <3> QED
      BY <2>1, <2>2, <2>3, <2>4, <3>1 DEF LoadInv, Loading, InLoad
  <2>5. CASE /\ cpc'[t] = "loadStore" /\ arg'[t] = <<v, e, <<p + 1>>>>
             /\ v \in 1 .. made /\ e \in Stored
    <3>1. \A y \in Key : s_datas[y] = v => y = x
      BY <1>3, <2>5 DEF CfgInv, LookInv, OneName, NoVar
    <3>2. Applying(t, p)'
      BY <1>2, <1>3, <1>4, <2>5, <3>1 DEF Applying
    <3> QED
      BY <1>4, <1>5, <2>1, <2>2, <2>3, <2>5, <3>2 DEF LoadInv, Loading, InLoad
  <2> QED
    BY <1>6, <2>4, <2>5
<1> QED
  BY <1>6, <1>7, <1>8, <1>9, <1>10 DEF CfgInv

(* The load ends.                                                          *)
LEMMA LoadDoneInv ==
  ASSUME CfgInv, NEW t \in CfgThread, LoadDone(t)
  PROVE  CfgInv'
PROOF
<1>1. /\ cpc[t] = "load" /\ Goes(t, "idle", NoArg)
      /\ UNCHANGED <<lookVars, valueVars, loadVars, calls>>
  BY DEF LoadDone, Rests
<1> USE DEF lookVars, valueVars, loadVars
<1>2. /\ cpc'[t] = "idle"
      /\ \A s \in CfgThread \ {t} : cpc'[s] = cpc[s] /\ arg'[s] = arg[s]
      /\ cpc' \in [CfgThread -> CfgPlaces] /\ arg' = [s \in CfgThread |-> arg'[s]]
  BY <1>1, GoesTo DEF CfgInv, CfgPlaces
<1>3. CfgTyped' /\ Argued'
  BY <1>1, <1>2 DEF CfgInv, CfgTyped, Argued, InLookup, InSet
<1>4. LookInv' /\ SetInv' /\ LoadInv'
  BY <1>1, <1>2, LookKept, SetKept, LoadKept DEF CfgInv, InLookup, InSet, InLoad
<1> QED
  BY <1>3, <1>4 DEF CfgInv

-----------------------------------------------------------------------------
(* The configuration among the other stores.                               *)

(* A step of another store leaves the configuration as it is.              *)
LEMMA CfgStutter == CfgInv /\ UNCHANGED cfgVars => CfgInv'
PROOF
<1> SUFFICES ASSUME CfgInv, UNCHANGED cfgVars PROVE CfgInv'
  OBVIOUS
<1> USE DEF cfgVars, lookVars, valueVars, loadVars
<1>1. CfgTyped' /\ Argued'
  BY DEF CfgInv, CfgTyped, Argued, InLookup, InSet
<1>2. LookInv' /\ SetInv' /\ LoadInv'
  BY LookKept, SetKept, LoadKept DEF CfgInv, InSet
<1> QED
  BY <1>1, <1>2 DEF CfgInv

(* Every step keeps the invariant.                                         *)
LEMMA CfgInductive == CfgInv /\ [StoresNext]_storesVars => CfgInv'
PROOF
<1> SUFFICES ASSUME CfgInv, CfgNext PROVE CfgInv'
  BY CfgStutter DEF StoresNext, storesVars
<1>1. PICK t \in CfgThread :
        \/ \E x \in Key, kd \in CfgKinds : LookBase(t, x, kd)
        \/ LookTyped(t) \/ Insert(t) \/ Store(t) \/ LookupBase(t) \/ Apply(t) \/ LoadDone(t)
        \/ \E v \in Vars, x \in Stored : SetNotify(t, v, x)
        \/ \E v \in Vars, l \in CfgListener : Listen(t, v, l)
        \/ \E v \in Vars : Clear(t, v)
        \/ \E f \in Files : LoadFile(t, f)
  BY DEF CfgNext
<1> QED
  BY <1>1, LookBaseInv, LookTypedInv, InsertInv, StoreInv, LookupBaseInv, ApplyInv, LoadDoneInv,
     SetNotifyInv, ListenInv, ClearInv, LoadFileInv

(* A set of numbers up to n has a greatest.                                *)
LEMMA GreatestOf ==
  ASSUME NEW n \in Nat, NEW S \in SUBSET (1 .. n), S # {}
  PROVE  \E p \in S : \A q \in S : q <= p
PROOF
<1> DEFINE R == OpToRel(<, Nat)
           D == {n - p : p \in S}
<1>1. D \in SUBSET Nat /\ D # {}
  <2>1. PICK p \in S : TRUE
    OBVIOUS
  <2>2. n - p \in D
    OBVIOUS
  <2>3. \A d \in D : d \in Nat
    OBVIOUS
  <2> QED
    BY <2>2, <2>3
<1>2. PICK d \in D : \A m \in D : <<m, d>> \notin R
  <2> HIDE DEF D
  <2> QED
    BY <1>1, NatLessThanWellFounded, WFMin, Zenon
<1>3. PICK p \in S : d = n - p
  BY <1>2
<1>4. ASSUME NEW q \in S PROVE q <= p
  <2>1. n - q \in D /\ n - q \in Nat /\ d \in Nat
    BY <1>1, <1>2
  <2>2. ~(n - q < d)
    BY <1>2, <2>1 DEF OpToRel
  <2> QED
    BY <1>3, <2>2
<1> QED
  BY <1>4

(* When all entries are applied, the last readable one of a name is, if the*)
(* loader lists the name.                                                  *)
LEMMA LoadsEnd == CfgInv => LoadedAll
PROOF
<1> SUFFICES ASSUME CfgInv, NEW t \in CfgThread, NEW x \in Key \ Unlisted,
                    cpc[t] = "load", arg[t][1] > Len(all_node),
                    s_datas[x] # NoVar, s_datas[x] \notin wild,
                    {q \in DOMAIN filed : filed[q][1] = x /\ filed[q][2] # Unreadable} # {}
             PROVE  LET entries == {q \in DOMAIN filed :
                                      filed[q][1] = x /\ filed[q][2] # Unreadable}
                        last == CHOOSE q \in entries : \A r \in entries : r <= q
                    IN  SameValue(kind[s_datas[x]], m_val[s_datas[x]], filed[last][2])
  BY DEF LoadedAll
<1> DEFINE entries == {q \in DOMAIN filed : filed[q][1] = x /\ filed[q][2] # Unreadable}
           last == CHOOSE q \in entries : \A r \in entries : r <= q
<1>1. /\ Len(all_node) \in Nat /\ Len(filed) = Len(all_node)
      /\ DOMAIN filed = 1 .. Len(all_node)
  BY DEF CfgInv, CfgTyped, LoadInv, Listed
<1>2. last \in entries /\ \A r \in entries : r <= last
  <2>1. entries \in SUBSET (1 .. Len(all_node)) /\ entries # {}
    BY <1>1
  <2> HIDE DEF entries
  <2>2. \E q \in entries : \A r \in entries : r <= q
    BY <1>1, <2>1, GreatestOf
  <2> QED
    BY <2>2
<1> HIDE DEF last
<1>3. arg[t][1] = Len(all_node) + 1 /\ Applied(arg[t][1])
  BY <1>1 DEF CfgInv, Argued, LoadInv, Loading
<1>4. /\ \A q \in 1 .. Len(all_node) : Readable(q, x) => q \in entries
      /\ Readable(last, x) /\ all_node[last] = filed[last]
  <2>1. \A q \in 1 .. Len(all_node) :
          \/ filed[q][1] \notin Unlisted /\ all_node[q] = filed[q]
          \/ all_node[q] = <<filed[q][1], Unreadable>>
    BY <1>1 DEF CfgInv, LoadInv, Listed
  <2>2. \A q \in 1 .. Len(all_node) : filed[q][1] = x => all_node[q] = filed[q]
    BY <1>1 DEF CfgInv, LoadInv, Listed
  <2> QED
    BY <1>1, <1>2, <2>1, <2>2 DEF Readable
<1>5. LastBefore(Len(all_node) + 1, last, x)
  BY <1>1, <1>2, <1>4 DEF LastBefore
<1>6. SameValue(kind[s_datas[x]], m_val[s_datas[x]], filed[last][2])
  BY <1>1, <1>2, <1>3, <1>4, <1>5 DEF Applied
<1> QED
  BY <1>6 DEF last

(* The loader is at a variable only by a name it lists.                    *)
LEMMA NotReached == CfgInv => Unreached
PROOF
<1> SUFFICES ASSUME CfgInv, NEW t \in CfgThread, NEW x \in Unlisted, cpc[t] = "loadStore",
                    s_datas[x] = arg[t][1]
             PROVE  FALSE
  BY DEF Unreached
<1>1. x \in Key
  BY CfgAssumption
<1>2. PICK p \in 1 .. Len(all_node) : Applying(t, p)
  BY DEF CfgInv, LoadInv, Loading
<1>3. x = all_node[p][1] /\ all_node[p][2] = arg[t][2] /\ arg[t][2] \in Stored
  BY <1>1, <1>2 DEF Applying, CfgInv, Argued, InSet
<1>4. all_node[p][2] = Unreadable
  BY <1>3 DEF CfgInv, LoadInv, Listed
<1> QED
  BY <1>3, <1>4, CfgAssumption

(* The registry has one variable for a name, listeners know what is stored,*)
(* and a load leaves what the files say last, unless look-ups, calls of    *)
(* setValue() or a load and another call overlap (config.hpp:369-538).     *)
THEOREM ConfigHoldsAlways == StoresSpec => []ConfigHolds
PROOF
<1>1. StoresInit => CfgInv
  BY CfgInitInv DEF StoresInit
<1>2. CfgInv => ConfigHolds
  BY LoadsEnd, NotReached DEF ConfigHolds, ConfigSound, CfgInv, LookInv, SetInv
<1> QED
  BY <1>1, <1>2, CfgInductive, PTL DEF StoresSpec

-----------------------------------------------------------------------------
(* The request.                                                            *)

Connection == {"none", "keep-alive", "close"}
HttpTyped ==
  /\ m_close \in BOOLEAN /\ m_websocket \in BOOLEAN /\ connection \in Connection
  /\ m_params = [n \in Name |-> m_params[n]] /\ said = [n \in Name |-> said[n]]
  /\ \A n \in Name : said[n] \in {"nothing", "set", "deleted"}

(* Before the first look-up there is what was set, or, when a part was     *)
(* parsed on its own, that and more; after it nothing is parsed again.     *)
BeforeLook ==
  sources = <<>> =>
    /\ \A n \in Name : said[n] # "deleted"
    /\ ~apart => /\ "query" \notin m_parserParamFlag /\ "body" \notin m_parserParamFlag
                 /\ \A n \in Name : said[n] = "nothing" => m_params[n] = Absent
AfterLook == sources # <<>> => {"query", "body"} \subseteq m_parserParamFlag

HttpInv == HttpTyped /\ BeforeLook /\ AfterLook /\ ParamsAsSaid

(* A new request has no parameters.                                        *)
LEMMA HttpInitInv == HttpInit => HttpInv
PROOF
<1> SUFFICES ASSUME HttpInit PROVE HttpInv
  OBVIOUS
<1>1. HttpTyped
  BY DEF HttpInit, HttpTyped, Connection
<1>2. BeforeLook /\ AfterLook /\ ParamsAsSaid
  BY DEF HttpInit, BeforeLook, AfterLook, ParamsAsSaid
<1> QED
  BY <1>1, <1>2 DEF HttpInv

(* Parsing adds to the map, and leaves what is there.                      *)
LEMMA InsertedKeeps ==
  ASSUME NEW map, NEW pairs, NEW n \in Name
  PROVE  Inserted(map, pairs)[n] = IF map[n] # Absent THEN map[n] ELSE FirstValue(pairs, n)
  BY DEF Inserted

(* A look-up: what the program said goes before the query, the query       *)
(* before the body.                                                        *)
LEMMA InitParamsInv ==
  ASSUME HttpInv, NEW flags \in SUBSET {"query", "body", "cookies"}, InitParams(flags),
         \/ {"query", "body"} \subseteq flags
         \/ flags = {"cookies"}
         \/ \E f \in {"query", "body"} : flags = {f}
  PROVE  HttpInv'
PROOF
<1> DEFINE q == IF "query" \in flags THEN Parsed("query", m_params, QueryPairs) ELSE m_params
<1>1. /\ m_params' = IF "body" \in flags THEN Parsed("body", q, BodyPairs) ELSE q
      /\ m_parserParamFlag' = m_parserParamFlag \cup flags
      /\ sources' = IF sources = <<>> /\ {"query", "body"} \subseteq flags
                      THEN << <<QueryPairs, BodyPairs>> >> ELSE sources
      /\ apart' = (apart \/ (sources = <<>> /\ Cardinality(flags \cap {"query", "body"}) = 1))
      /\ UNCHANGED <<connection, m_close, m_websocket, said>>
  BY DEF InitParams, headerVars
<1>2. \A n \in Name : said[n] = "set" => m_params[n] = Given /\ m_params[n] # Absent
  BY HttpAssumption DEF HttpInv, ParamsAsSaid
<1>3. \A n \in Name : q[n] = m_params[n] \/ (m_params[n] = Absent /\ "query" \in flags)
  BY InsertedKeeps DEF Parsed
<1>4. q = [n \in Name |-> q[n]]
  BY DEF HttpInv, HttpTyped, Parsed, Inserted
<1>5. \A n \in Name : m_params'[n] = q[n] \/ (q[n] = Absent /\ "body" \in flags)
  BY <1>1, InsertedKeeps DEF Parsed
<1>6. HttpTyped'
  <2>1. m_params' = [n \in Name |-> m_params'[n]]
    <3> HIDE DEF q
    <3> QED
      BY <1>1, <1>4 DEF Parsed, Inserted
  <2> QED
    BY <1>1, <2>1 DEF HttpInv, HttpTyped
<1>7. \A n \in Name : said[n] = "set" => m_params'[n] = Given
  BY <1>2, <1>3, <1>5
<1>8. CASE sources # <<>>
  <2>1. sources' = sources /\ (apart => apart') /\ m_parserParamFlag \subseteq m_parserParamFlag'
    BY <1>1, <1>8
  <2>2. m_params' = m_params
    <3>1. "query" \in m_parserParamFlag /\ "body" \in m_parserParamFlag
      BY <1>8 DEF HttpInv, AfterLook
    <3>2. q = m_params
      BY <3>1 DEF Parsed
    <3> QED
      BY <1>1, <3>1, <3>2 DEF Parsed
  <2> QED
    BY <1>1, <1>6, <1>8, <2>1, <2>2 DEF HttpInv, BeforeLook, AfterLook, ParamsAsSaid
<1>9. CASE sources = <<>> /\ {"query", "body"} \subseteq flags
  <2>1. sources' = << <<QueryPairs, BodyPairs>> >> /\ sources' # <<>>
    BY <1>1, <1>9
  <2>2. AfterLook' /\ BeforeLook'
    BY <1>1, <1>9, <2>1 DEF AfterLook, BeforeLook
  <2>3. ASSUME NEW n \in Name, ~apart', said[n] = "nothing"
        PROVE  m_params'[n] = IF FirstValue(QueryPairs, n) # Absent THEN FirstValue(QueryPairs, n)
                              ELSE FirstValue(BodyPairs, n)
    <3>1. /\ "query" \notin m_parserParamFlag /\ "body" \notin m_parserParamFlag
          /\ m_params[n] = Absent
      BY <1>1, <1>9, <2>3 DEF HttpInv, BeforeLook
    <3>2. q[n] = FirstValue(QueryPairs, n)
      BY <1>9, <3>1, InsertedKeeps DEF Parsed
    <3> HIDE DEF q
    <3>3. m_params' = Inserted(q, BodyPairs)
      BY <1>1, <1>9, <3>1 DEF Parsed
    <3> QED
      BY <3>2, <3>3, InsertedKeeps
  <2>4. \A n \in Name : said[n] # "deleted"
    BY <1>9 DEF HttpInv, BeforeLook
  <2>5. sources'[1][1] = QueryPairs /\ sources'[1][2] = BodyPairs
    BY <2>1
  <2>6. ParamsAsSaid'
    <3> SUFFICES ASSUME NEW n \in Name
                 PROVE  /\ said[n] = "set" => m_params'[n] = Given
                        /\ said[n] = "deleted" => m_params'[n] = Absent
                        /\ ~apart' /\ said[n] = "nothing" =>
                             m_params'[n] = IF FirstValue(sources'[1][1], n) # Absent
                                              THEN FirstValue(sources'[1][1], n)
                                              ELSE FirstValue(sources'[1][2], n)
      BY <1>1 DEF ParamsAsSaid
    <3>1. /\ FirstValue(sources'[1][1], n) = FirstValue(QueryPairs, n)
          /\ FirstValue(sources'[1][2], n) = FirstValue(BodyPairs, n)
      BY <2>5
    <3> QED
      BY <1>7, <2>3, <2>4, <3>1
  <2> QED
    BY <1>6, <2>2, <2>6 DEF HttpInv
<1>10. CASE sources = <<>> /\ ~({"query", "body"} \subseteq flags)
  <2>1. sources' = <<>>
    BY <1>1, <1>10
  <2>2. \A n \in Name : said[n] # "deleted"
    BY <1>10 DEF HttpInv, BeforeLook
  <2>3. CASE flags = {"cookies"}
    <3>1. m_params' = m_params
      BY <1>1, <2>3
    <3>2. apart => apart'
      BY <1>1
    <3>3. BeforeLook'
      BY <1>1, <1>10, <2>1, <2>3, <3>1, <3>2 DEF HttpInv, BeforeLook
    <3> QED
      BY <1>1, <1>6, <1>7, <2>1, <2>2, <3>3 DEF HttpInv, AfterLook, ParamsAsSaid
  <2>4. CASE \E f \in {"query", "body"} : flags = {f}
    <3>1. PICK f \in {"query", "body"} : flags = {f}
      BY <2>4
    <3>2. flags \cap {"query", "body"} = {f} /\ Cardinality({f}) = 1
      BY <3>1, FS_Singleton
    <3>3. apart'
      BY <1>1, <1>10, <3>2
    <3> QED
      BY <1>1, <1>6, <1>7, <2>1, <2>2, <3>3 DEF HttpInv, BeforeLook, AfterLook, ParamsAsSaid
  <2> QED
    BY <1>10, <2>3, <2>4
<1> QED
  BY <1>8, <1>9, <1>10

(* A parameter is set or deleted.                                          *)
LEMMA SayInv ==
  ASSUME HttpInv, SetParam \/ DelParam
  PROVE  HttpInv'
PROOF
<1>1. PICK names \in SUBSET Name, v \in {Given, Absent}, word \in {"nothing", "set", "deleted"} :
        /\ Say(names, v, word)
        /\ word = "set" <=> v = Given
        /\ word = "deleted" => sources # <<>>
        /\ word = "nothing" => sources = <<>>
  <2>1. CASE SetParam
    <3>1. PICK n \in Name : Say({n}, Given, "set")
      BY <2>1 DEF SetParam
    <3> QED
      BY <3>1
  <2>2. CASE DelParam
    <3>1. PICK names \in SUBSET Name : Say(names, Absent, Deleted)
      BY <2>2 DEF DelParam
    <3>2. /\ Deleted \in {"nothing", "deleted"} /\ Deleted # "set" /\ Absent # Given
          /\ Deleted = "deleted" => sources # <<>>
          /\ Deleted = "nothing" => sources = <<>>
      BY HttpAssumption DEF Deleted
    <3> QED
      BY <3>1, <3>2
  <2> QED
    BY <2>1, <2>2
<1>2. /\ m_params' = [n \in Name |-> IF n \in names THEN v ELSE m_params[n]]
      /\ said' = [n \in Name |-> IF n \in names THEN word ELSE said[n]]
      /\ UNCHANGED <<connection, m_close, m_websocket, m_parserParamFlag, sources, apart>>
  BY <1>1 DEF Say, headerVars
<1>3. HttpTyped'
  BY <1>2 DEF HttpInv, HttpTyped
<1>4. /\ word = "set" => v = Given
      /\ word # "set" => v = Absent
  BY <1>1
<1>5. BeforeLook' /\ AfterLook'
  BY <1>1, <1>2, <1>4 DEF HttpInv, BeforeLook, AfterLook
<1>6. ParamsAsSaid'
  <2> SUFFICES ASSUME NEW n \in Name
               PROVE  /\ said'[n] = "set" => m_params'[n] = Given
                      /\ said'[n] = "deleted" => m_params'[n] = Absent
                      /\ sources # <<>> /\ ~apart /\ said'[n] = "nothing" =>
                           m_params'[n] = IF FirstValue(sources[1][1], n) # Absent
                                            THEN FirstValue(sources[1][1], n)
                                            ELSE FirstValue(sources[1][2], n)
    BY <1>2 DEF ParamsAsSaid
  <2>1. CASE n \in names
    BY <1>1, <1>2, <1>4, <2>1
  <2>2. CASE n \notin names
    BY <1>2, <2>2 DEF HttpInv, ParamsAsSaid
  <2> QED
    BY <2>1, <2>2
<1> QED
  BY <1>3, <1>5, <1>6 DEF HttpInv

(* Nothing else touches the parameters.                                    *)
LEMMA OtherHttpInv ==
  ASSUME HttpInv,
         UNCHANGED <<m_params, m_parserParamFlag, said, sources, apart>>,
         m_close' \in BOOLEAN, m_websocket' \in BOOLEAN, connection' \in Connection
  PROVE  HttpInv'
PROOF
<1>1. HttpTyped'
  BY DEF HttpInv, HttpTyped
<1>2. BeforeLook' /\ AfterLook' /\ ParamsAsSaid'
  BY DEF HttpInv, BeforeLook, AfterLook, ParamsAsSaid
<1> QED
  BY <1>1, <1>2 DEF HttpInv

(* Every step keeps the invariant.                                         *)
LEMMA HttpInductive == HttpInv /\ [StoresNext]_storesVars => HttpInv'
PROOF
<1> SUFFICES ASSUME HttpInv, [StoresNext]_storesVars PROVE HttpInv'
  OBVIOUS
<1>1. CASE UNCHANGED httpVars
  BY <1>1, OtherHttpInv DEF httpVars, headerVars, paramVars, HttpInv, HttpTyped
<1>2. CASE HttpNext
  <2>1. CASE LookUpParam \/ LookUpCookie \/ InitParam \/ InitOne
    <3>1. PICK flags \in SUBSET {"query", "body", "cookies"} :
            /\ InitParams(flags)
            /\ \/ {"query", "body"} \subseteq flags
               \/ flags = {"cookies"}
               \/ \E f \in {"query", "body"} : flags = {f}
      BY <2>1 DEF LookUpParam, LookUpCookie, InitParam, InitOne
    <3> QED
      BY <3>1, InitParamsInv
  <2>2. CASE SetText
    BY <2>2, OtherHttpInv DEF SetText, paramVars, HttpInv, HttpTyped
  <2>3. CASE SetParam \/ DelParam
    BY <2>3, SayInv
  <2>4. CASE SetCookie
    BY <2>4, OtherHttpInv DEF SetCookie, headerVars, HttpInv, HttpTyped
  <2>5. CASE InitClose
    <3>1. m_close' \in BOOLEAN
      BY <2>5 DEF InitClose, Asks, HttpInv, HttpTyped
    <3> QED
      BY <2>5, <3>1, OtherHttpInv DEF InitClose, headerVars, paramVars, HttpInv, HttpTyped
  <2>6. CASE SetConnection
    BY <2>6, OtherHttpInv DEF SetConnection, paramVars, Connection, HttpInv, HttpTyped
  <2> QED
    BY <1>2, <2>1, <2>2, <2>3, <2>4, <2>5, <2>6 DEF HttpNext
<1> QED
  BY <1>1, <1>2 DEF StoresNext, storesVars

(* Parameters are what the program said last, else what the query and the  *)
(* body said at the first look-up, and who reads what dump() writes closes *)
(* as the sender does (http.cpp:79-263).                                   *)
THEOREM HttpHoldsAlways == StoresSpec => []HttpHolds
PROOF
<1>1. StoresInit => HttpInv
  BY HttpInitInv DEF StoresInit
<1>2. HttpInv => HttpHolds
  <2> SUFFICES ASSUME HttpInv PROVE CloseAgrees
    BY DEF HttpHolds, HttpSound, HttpInv
  <2> SUFFICES ASSUME ~m_websocket, NEW close \in BOOLEAN
               PROVE  Asks(ConnectionLines[Len(ConnectionLines)], close) = m_close
    BY DEF CloseAgrees
  <2>1. ConnectionLines = << IF m_close THEN "close" ELSE "keep-alive" >>
    BY DEF ConnectionLines
  <2>2. ConnectionLines[Len(ConnectionLines)] = IF m_close THEN "close" ELSE "keep-alive"
    BY <2>1
  <2>3. m_close \in BOOLEAN
    BY DEF HttpInv, HttpTyped
  <2>4. CASE m_close
    <3>1. ConnectionLines[Len(ConnectionLines)] = "close"
      BY <2>2, <2>4
    <3> QED
      BY <2>4, <3>1 DEF Asks
  <2>5. CASE ~m_close
    <3>1. ConnectionLines[Len(ConnectionLines)] = "keep-alive"
      BY <2>2, <2>5
    <3> QED
      BY <2>3, <2>5, <3>1 DEF Asks
  <2> QED
    BY <2>4, <2>5
<1> QED
  BY <1>1, <1>2, HttpInductive, PTL DEF StoresSpec

-----------------------------------------------------------------------------
(* The parser of patterns.                                                 *)

(* A set of numbers has a least one.                                       *)
LEMMA LeastOf ==
  ASSUME NEW S \in SUBSET Nat, S # {}
  PROVE  \E n \in S : \A m \in S : n <= m
PROOF
<1> DEFINE R == OpToRel(<, Nat)
<1>1. PICK n \in S : \A m \in S : <<m, n>> \notin R
  BY NatLessThanWellFounded, WFMin, Zenon
<1>2. ASSUME NEW m \in S PROVE n <= m
  <2>1. n \in Nat /\ m \in Nat /\ ~(m < n)
    BY <1>1 DEF OpToRel
  <2> QED
    BY <2>1
<1> QED
  BY <1>2

(* The signs of a date differ from the brace that closes it.               *)
LEMMA SignsDiffer == "%" # Closing /\ "d" # Closing /\ Opening # Closing
  BY Zenon DEF Opening, Closing

(* The first brace, if there is one.                                       *)
LEMMA BraceHolds ==
  ASSUME m_pattern \in Seq(PatternChar)
  PROVE  /\ Brace \in 0 .. Len(m_pattern)
         /\ Brace # 0 => m_pattern[Brace] = Closing
PROOF
<1> DEFINE braces == {p \in DOMAIN m_pattern : m_pattern[p] = Closing}
<1>1. CASE braces = {}
  BY <1>1 DEF Brace
<1>2. CASE braces # {}
  <2>1. braces \in SUBSET Nat
    OBVIOUS
  <2>2. \E p \in braces : \A q \in braces : p <= q
    <3> HIDE DEF braces
    <3> QED
      BY <1>2, <2>1, LeastOf
  <2>3. Brace \in braces
    BY <1>2, <2>2 DEF Brace
  <2> QED
    BY <2>3
<1> QED
  BY <1>1, <1>2

(* An item shows a piece of the pattern, the one behind the cut c[n - 1] up*)
(* to the cut c[n]: the piece is the item, or the date with its format.    *)
PlainPiece(n, c) ==
  /\ c[n] = c[n - 1] + Len(logmsg[n])
  /\ \A q \in 1 .. Len(logmsg[n]) : m_pattern[c[n - 1] + q] = logmsg[n][q]
DatePiece(n, c) ==
  /\ logmsg[n] = <<"%", "d">> /\ DateAt(c[n - 1] + 1)
  /\ c[n] = Brace /\ Brace = c[n - 1] + 4 + Len(timeformater)
  /\ \A q \in 1 .. Len(timeformater) : m_pattern[c[n - 1] + 3 + q] = timeformater[q]

(* The items so far show the pattern so far.                               *)
Cut(c) ==
  /\ c \in [0 .. Len(logmsg) -> 0 .. i - 1] /\ c[0] = 0 /\ c[Len(logmsg)] = i - 1
  /\ \A n \in 1 .. Len(logmsg) : PlainPiece(n, c) \/ DatePiece(n, c)

ParserInv ==
  /\ m_pattern \in Seq(PatternChar) /\ timeformater \in Seq(PatternChar)
  /\ logmsg \in Seq(Seq(PatternChar)) /\ i \in Nat
  /\ i = 0 => logmsg = <<>> /\ ~back
  /\ i # 0 /\ ~back => i <= Len(m_pattern) + 1 /\ \E c : Cut(c)
  /\ back => i <= Len(m_pattern) /\ PatternEnds

(* Nothing is parsed at first.                                             *)
LEMMA ParserInitInv == LogInit => ParserInv
  BY DEF LogInit, ParserInv, PatternEnds

(* One turn of the loop: an item more, or the way back.                    *)
LEMMA ParseItemInv ==
  ASSUME ParserInv, ParseItem
  PROVE  ParserInv'
PROOF
<1> DEFINE two == m_pattern[i] = "%" /\ i < Len(m_pattern)
           end == IF Brace < i THEN Len(m_pattern) ELSE Brace - 1
           L == Len(m_pattern)
           item == SubSeq(m_pattern, i, IF two THEN i + 1 ELSE i)
<1>1. PICK N, at : N = Len(logmsg) /\ at = i
  OBVIOUS
<1>2. /\ i \in 1 .. L /\ ~back /\ logmsg' = Append(logmsg, item)
      /\ \/ /\ DateAt(i) /\ timeformater' = SubSeq(m_pattern, i + 3, end) /\ i' = Brace + 1
         \/ /\ ~DateAt(i) /\ i' = (IF two THEN i + 2 ELSE i + 1) /\ timeformater' = timeformater
      /\ (back' <=> i' <= i) /\ m_pattern' = m_pattern
  BY DEF ParseItem, PastBrace
<1>3. L \in Nat /\ N \in Nat /\ N = Len(logmsg) /\ i \in Nat /\ i # 0 /\ Brace \in 0 .. L
  BY <1>2, <1>1, BraceHolds DEF ParserInv
<1>4. PICK c : Cut(c)
  BY <1>2, <1>3 DEF ParserInv
<1>5. /\ item \in Seq(PatternChar) /\ Len(item) = (IF two THEN 2 ELSE 1)
      /\ item[1] = m_pattern[i] /\ (two => item[2] = m_pattern[i + 1])
  <2>1. CASE two
    BY <1>2, <1>3, <2>1 DEF ParserInv
  <2>2. CASE ~two
    BY <1>2, <1>3, <2>2 DEF ParserInv
  <2> QED
    BY <2>1, <2>2
<1> HIDE DEF item
<1>6. /\ logmsg' \in Seq(Seq(PatternChar)) /\ Len(logmsg') = N + 1 /\ logmsg'[N + 1] = item
      /\ \A n \in 1 .. N : logmsg'[n] = logmsg[n]
  BY <1>2, <1>3, <1>5 DEF ParserInv
<1>7. Brace' = Brace /\ \A p : DateAt(p)' <=> DateAt(p)
  BY <1>2 DEF Brace, DateAt
<1>8. \A n \in 0 .. N : c[n] \in 0 .. i - 1
  BY <1>4 DEF Cut
<1>9. PICK d : d = [n \in 0 .. N + 1 |-> IF n = N + 1 THEN i' - 1 ELSE c[n]]
  OBVIOUS
<1>10. ASSUME NEW n \in 1 .. N, PlainPiece(n, c) PROVE PlainPiece(n, d)'
  <2>1. d[n] = c[n] /\ d[n - 1] = c[n - 1]
    BY <1>9, <1>3
  <2> QED
    BY <1>2, <1>6, <1>10, <2>1 DEF PlainPiece
<1>11. CASE ~DateAt(i)
  <2>1. /\ i' = i + Len(item) /\ i' \in Nat /\ i < i' /\ i' <= L + 1 /\ ~back'
        /\ timeformater' = timeformater
    BY <1>2, <1>3, <1>5, <1>11
  <2>2. ASSUME NEW n \in 1 .. N, DatePiece(n, c) PROVE DatePiece(n, d)'
    <3>1. d[n] = c[n] /\ d[n - 1] = c[n - 1]
      BY <1>9, <1>3
    <3> QED
      BY <1>2, <1>6, <1>7, <2>1, <2>2, <3>1 DEF DatePiece
  <2>3. PlainPiece(N + 1, d)'
    <3>1. d[N + 1] = i' - 1 /\ d[N] = i - 1 /\ N + 1 - 1 = N
      BY <1>9, <1>3, <1>4 DEF Cut
    <3>2. Len(item) \in {1, 2} /\ \A q \in 1 .. Len(item) : m_pattern[i - 1 + q] = item[q]
      BY <1>3, <1>5
    <3>3. d[N + 1] = d[N + 1 - 1] + Len(item)
      BY <1>3, <2>1, <3>1, <3>2
    <3>4. \A q \in 1 .. Len(item) : m_pattern[d[N + 1 - 1] + q] = item[q]
      BY <3>1, <3>2
    <3> QED
      BY <1>2, <1>3, <1>6, <3>3, <3>4 DEF PlainPiece
  <2>4. d \in [0 .. N + 1 -> 0 .. i' - 1] /\ d[0] = 0 /\ d[N + 1] = i' - 1
    BY <1>9, <1>3, <1>4, <1>8, <2>1 DEF Cut
  <2>5. \A n \in 1 .. N + 1 : PlainPiece(n, d)' \/ DatePiece(n, d)'
    BY <1>3, <1>4, <1>10, <2>2, <2>3 DEF Cut
  <2>6. Cut(d)'
    <3> QED
      BY <1>6, <2>4, <2>5 DEF Cut
  <2>7. \E e : Cut(e)'
    BY <2>6
  <2> QED
    BY <1>2, <1>3, <1>6, <2>1, <2>7 DEF ParserInv
<1>12. CASE DateAt(i) /\ Brace < i
  <2>1. back' /\ i' <= L /\ i' \in Nat /\ i' # 0
    BY <1>2, <1>3, <1>12
  <2>2. PatternEnds'
    <3>1. at \in DOMAIN m_pattern
      BY <1>2, <1>1 DEF ParserInv
    <3>2. DateAt(at)' /\ Brace' < at
      BY <1>7, <1>12, <1>1
    <3> QED
      BY <1>2, <3>1, <3>2 DEF PatternEnds
  <2>3. timeformater' \in Seq(PatternChar)
    <3>1. timeformater' = SubSeq(m_pattern, i + 3, L)
      BY <1>2, <1>12
    <3>2. i + 3 >= 1 /\ i + 3 \in Nat
      BY <1>3
    <3> QED
      BY <1>3, <3>1, <3>2 DEF ParserInv
  <2> QED
    BY <1>2, <1>6, <2>1, <2>2, <2>3 DEF ParserInv
<1>13. CASE DateAt(i) /\ ~(Brace < i)
  <2>1. /\ i + 2 <= L /\ m_pattern[i] = "%" /\ m_pattern[i + 1] = "d" /\ m_pattern[i + 2] = Opening
        /\ m_pattern[Brace] = Closing
    BY <1>3, <1>13, BraceHolds DEF DateAt, ParserInv
  <2>2. Brace # i /\ Brace # i + 1 /\ Brace # i + 2 /\ Brace > i + 2
    BY <1>3, <1>13, <2>1, SignsDiffer
  <2>3. item = <<"%", "d">>
    BY <1>3, <1>5, <2>1
  <2>4. /\ timeformater' = SubSeq(m_pattern, i + 3, Brace - 1) /\ i' = Brace + 1 /\ ~back'
        /\ i' \in Nat /\ i < i' /\ i' <= L + 1
    BY <1>2, <1>3, <1>13
  <2>5. /\ timeformater' \in Seq(PatternChar) /\ Len(timeformater') = Brace - 1 - (i + 3) + 1
        /\ \A q \in 1 .. Len(timeformater') : timeformater'[q] = m_pattern[i + 2 + q]
    BY <1>2, <1>3, <2>2, <2>4 DEF ParserInv
  <2>6. ASSUME NEW n \in 1 .. N PROVE PlainPiece(n, c)
    <3>1. c[n] < i
      BY <1>3, <1>8
    <3>2. ~DatePiece(n, c)
      BY <1>3, <2>2, <3>1 DEF DatePiece
    <3> QED
      BY <1>4, <3>2 DEF Cut
  <2>7. DatePiece(N + 1, d)'
    <3>1. d[N + 1] = Brace /\ d[N] = i - 1 /\ N + 1 - 1 = N /\ i - 1 + 1 = i
      BY <1>9, <1>3, <1>4, <2>4 DEF Cut
    <3>2. Brace = i - 1 + 4 + Len(timeformater')
      BY <1>3, <2>5
    <3>3. \A q \in 1 .. Len(timeformater') : m_pattern[i - 1 + 3 + q] = timeformater'[q]
      <4> SUFFICES ASSUME NEW q \in 1 .. Len(timeformater')
                   PROVE  m_pattern[i - 1 + 3 + q] = timeformater'[q]
        OBVIOUS
      <4>1. i - 1 + 3 + q = i + 2 + q
        BY <1>3
      <4> QED
        BY <2>5, <4>1
    <3>4. DateAt(d[N + 1 - 1] + 1)'
      BY <1>7, <1>13, <3>1
    <3>5. logmsg'[N + 1] = <<"%", "d">>
      BY <1>6, <2>3
    <3>6. d[N + 1] = Brace' /\ Brace' = d[N + 1 - 1] + 4 + Len(timeformater')
      BY <1>7, <3>1, <3>2
    <3>7. \A q \in 1 .. Len(timeformater') : m_pattern'[d[N + 1 - 1] + 3 + q] = timeformater'[q]
      BY <1>2, <3>1, <3>3
    <3> QED
      BY <1>3, <3>4, <3>5, <3>6, <3>7 DEF DatePiece
  <2>8. d \in [0 .. N + 1 -> 0 .. i' - 1] /\ d[0] = 0 /\ d[N + 1] = i' - 1
    BY <1>9, <1>3, <1>4, <1>8, <2>4 DEF Cut
  <2>9. \A n \in 1 .. N + 1 : PlainPiece(n, d)' \/ DatePiece(n, d)'
    BY <1>3, <1>10, <2>6, <2>7
  <2>10. Cut(d)'
    <3> QED
      BY <1>6, <2>8, <2>9 DEF Cut
  <2>11. \E e : Cut(e)'
    BY <2>10
  <2> QED
    BY <1>2, <1>3, <1>6, <2>4, <2>5, <2>11 DEF ParserInv
<1> QED
  BY <1>11, <1>12, <1>13


(* Texts are joined each with each.                                        *)
LEMMA JoinedHas ==
  ASSUME NEW U, NEW V, NEW u \in U, NEW v \in V PROVE u \o v \in Joined(U, V)
  BY SMT DEF Joined

(* The texts of the first items exist: a table of them grows by one.       *)
TextsUpTo(f, m) ==
  f = [n \in 0 .. m |-> IF n = 0 THEN {<<>>} ELSE Joined(f[n - 1], Shown(logmsg[n]))]

LEMMA TextsGrow ==
  ASSUME NEW m \in Nat, NEW f, TextsUpTo(f, m)
  PROVE  \E g : TextsUpTo(g, m + 1)
PROOF
<1> DEFINE Row(n) == IF n = 0 THEN {<<>>} ELSE Joined(f[n - 1], Shown(logmsg[n]))
           g == [n \in 0 .. m + 1 |-> Row(n)]
<1>1. \A n \in 0 .. m : g[n] = f[n]
  <2>1. \A n \in 0 .. m : f[n] = Row(n)
    BY DEF TextsUpTo
  <2>2. \A n \in 0 .. m : n \in 0 .. m + 1
    OBVIOUS
  <2> HIDE DEF Row
  <2> QED
    BY <2>1, <2>2
<1>2. ASSUME NEW n \in 0 .. m + 1
      PROVE  Row(n) = IF n = 0 THEN {<<>>} ELSE Joined(g[n - 1], Shown(logmsg[n]))
  <2>1. CASE n = 0
    BY <2>1
  <2>2. CASE n # 0
    <3>1. n - 1 \in 0 .. m
      BY <2>2
    <3>2. g[n - 1] = f[n - 1]
      BY <1>1, <3>1
    <3> HIDE DEF g
    <3> QED
      BY <2>2, <3>2
  <2> QED
    BY <2>1, <2>2
<1>3. g = [n \in 0 .. m + 1 |-> IF n = 0 THEN {<<>>} ELSE Joined(g[n - 1], Shown(logmsg[n]))]
  <2> HIDE DEF Row
  <2>1. g = [n \in 0 .. m + 1 |-> Row(n)]
    OBVIOUS
  <2> HIDE DEF g
  <2> QED
    BY <1>2, <2>1
<1> HIDE DEF g
<1> QED
  BY <1>3 DEF TextsUpTo

LEMMA TextsHold ==
  ASSUME logmsg \in Seq(Seq(PatternChar))
  PROVE  TextsUpTo(Texts, Len(logmsg))
PROOF
<1> DEFINE gaps == {n \in Nat : \A f : ~TextsUpTo(f, n)}
<1>1. gaps = {}
  <2> SUFFICES ASSUME gaps # {} PROVE FALSE
    OBVIOUS
  <2>1. gaps \in SUBSET Nat
    OBVIOUS
  <2>2. PICK n \in gaps : \A m \in gaps : n <= m
    <3> HIDE DEF gaps
    <3> QED
      BY <2>1, LeastOf
  <2>3. CASE n = 0
    <3>1. [q \in 0 .. 0 |-> {<<>>}] =
             [q \in 0 .. 0 |-> IF q = 0 THEN {<<>>}
                               ELSE Joined([r \in 0 .. 0 |-> {<<>>}][q - 1], Shown(logmsg[q]))]
      OBVIOUS
    <3>2. TextsUpTo([q \in 0 .. 0 |-> {<<>>}], 0)
      BY <3>1 DEF TextsUpTo
    <3> QED
      BY <2>2, <2>3, <3>2
  <2>4. CASE n # 0
    <3>1. n - 1 \in Nat /\ n - 1 + 1 = n /\ ~(n <= n - 1)
      BY <2>2, <2>4
    <3>2. PICK f : TextsUpTo(f, n - 1)
      BY <2>2, <3>1
    <3>3. \E g : TextsUpTo(g, n - 1 + 1)
      BY <3>1, <3>2, TextsGrow
    <3> QED
      BY <2>2, <3>1, <3>3
  <2> QED
    BY <2>3, <2>4
<1>2. PICK f : TextsUpTo(f, Len(logmsg))
  <2>1. Len(logmsg) \in Nat
    OBVIOUS
  <2> QED
    BY <1>1, <2>1
<1> QED
  BY <1>2, Zenon DEF TextsUpTo, Texts

(* A prefix and the piece behind it make the longer prefix.                *)
LEMMA PrefixGrows ==
  ASSUME NEW S, NEW s \in Seq(S), NEW v \in Seq(S),
         NEW a \in 0 .. Len(s), NEW b \in 0 .. Len(s), b = a + Len(v),
         \A q \in 1 .. Len(v) : s[a + q] = v[q]
  PROVE  SubSeq(s, 1, b) = SubSeq(s, 1, a) \o v
PROOF
<1> DEFINE u == SubSeq(s, 1, a)
           w == SubSeq(s, 1, b)
<1>1. u \in Seq(S) /\ Len(u) = a /\ \A q \in 1 .. a : u[q] = s[q]
  OBVIOUS
<1>2. w \in Seq(S) /\ Len(w) = b /\ \A q \in 1 .. b : w[q] = s[q]
  OBVIOUS
<1> HIDE DEF u, w
<1>3. /\ u \o v \in Seq(S) /\ Len(u \o v) = Len(w)
      /\ \A q \in 1 .. a + Len(v) : (u \o v)[q] = IF q <= a THEN u[q] ELSE v[q - a]
  BY <1>1, <1>2, ConcatProperties
<1>4. ASSUME NEW q \in 1 .. Len(w) PROVE w[q] = (u \o v)[q]
  <2>1. q \in 1 .. b /\ w[q] = s[q] /\ (u \o v)[q] = IF q <= a THEN u[q] ELSE v[q - a]
    BY <1>2, <1>3
  <2>2. CASE q <= a
    BY <1>1, <2>1, <2>2
  <2>3. CASE ~(q <= a)
    <3>1. q - a \in 1 .. Len(v) /\ a + (q - a) = q
      BY <2>1, <2>3
    <3>2. s[q] = v[q - a]
      BY <3>1
    <3> QED
      BY <2>1, <2>3, <3>2
  <2> QED
    BY <2>2, <2>3
<1>5. w = u \o v
  BY <1>2, <1>3, <1>4, SeqEqual
<1> QED
  BY <1>5 DEF u, w

(* The text of a date with its format.                                     *)
DateShape(v, f, x, y, o, z) ==
  /\ v = <<x, y>> \o <<o>> \o f \o <<z>>
  /\ Len(v) = Len(f) + 4 /\ v[1] = x /\ v[2] = y /\ v[3] = o /\ v[Len(f) + 4] = z
  /\ \A q \in 1 .. Len(f) : v[3 + q] = f[q]

LEMMA DateText ==
  ASSUME NEW S, NEW f \in Seq(S), NEW x \in S, NEW y \in S, NEW o \in S, NEW z \in S
  PROVE  \E v \in Seq(S) : DateShape(v, f, x, y, o, z)
PROOF
<1>1. PICK begin : begin = <<x, y>> \o <<o>>
  OBVIOUS
<1>2. begin \in Seq(S) /\ Len(begin) = 3 /\ begin[1] = x /\ begin[2] = y /\ begin[3] = o
  BY <1>1
<1>3. PICK most : most = begin \o f
  OBVIOUS
<1>4. /\ most \in Seq(S) /\ Len(most) = Len(f) + 3 /\ Len(f) \in Nat
      /\ \A q \in 1 .. Len(f) + 3 : most[q] = IF q <= 3 THEN begin[q] ELSE f[q - 3]
  <2>1. /\ most \in Seq(S) /\ Len(most) = Len(begin) + Len(f)
        /\ \A q \in 1 .. Len(begin) + Len(f) :
              most[q] = IF q <= Len(begin) THEN begin[q] ELSE f[q - Len(begin)]
    BY <1>2, <1>3, ConcatProperties
  <2>2. Len(f) \in Nat /\ 3 + Len(f) = Len(f) + 3
    OBVIOUS
  <2> QED
    BY <1>2, <2>1, <2>2
<1>5. PICK v : v = most \o <<z>>
  OBVIOUS
<1>6. /\ v \in Seq(S) /\ Len(v) = Len(f) + 4
      /\ \A q \in 1 .. Len(f) + 3 : v[q] = most[q]
      /\ v[Len(f) + 4] = z
  BY <1>4, <1>5, ConcatProperties
<1>7. v[1] = x /\ v[2] = y /\ v[3] = o
  BY <1>2, <1>4, <1>6
<1>8. ASSUME NEW q \in 1 .. Len(f) PROVE v[3 + q] = f[q]
  <2>1. 3 + q \in 1 .. Len(f) + 3 /\ ~(3 + q <= 3) /\ 3 + q - 3 = q
    BY <1>4
  <2> QED
    BY <1>4, <1>6, <2>1
<1>9. v = <<x, y>> \o <<o>> \o f \o <<z>>
  BY <1>1, <1>3, <1>5
<1> QED
  BY <1>6, <1>7, <1>8, <1>9 DEF DateShape
(* The piece an item shows is one of the texts it may stand for.           *)
LEMMA PieceShown ==
  ASSUME m_pattern \in Seq(PatternChar), timeformater \in Seq(PatternChar),
         logmsg \in Seq(Seq(PatternChar)), NEW c, NEW n \in 1 .. Len(logmsg),
         NEW a \in 0 .. Len(m_pattern), NEW b \in 0 .. Len(m_pattern),
         a = c[n - 1], b = c[n], PlainPiece(n, c) \/ DatePiece(n, c)
  PROVE  \E v \in Shown(logmsg[n]) : SubSeq(m_pattern, 1, b) = SubSeq(m_pattern, 1, a) \o v
PROOF
<1>1. CASE PlainPiece(n, c)
  <2>1. logmsg[n] \in Seq(PatternChar)
    OBVIOUS
  <2>2. b = a + Len(logmsg[n]) /\ \A q \in 1 .. Len(logmsg[n]) : m_pattern[a + q] = logmsg[n][q]
    BY <1>1 DEF PlainPiece
  <2>3. SubSeq(m_pattern, 1, b) = SubSeq(m_pattern, 1, a) \o logmsg[n]
    BY <2>1, <2>2, PrefixGrows
  <2>4. logmsg[n] \in Shown(logmsg[n])
    BY DEF Shown
  <2> QED
    BY <2>3, <2>4
<1>2. CASE DatePiece(n, c)
  <2> DEFINE T == Len(timeformater)
  <2>1. T \in Nat
    OBVIOUS
  <2>2. PICK v \in Seq(PatternChar) : DateShape(v, timeformater, "%", "d", Opening, Closing)
    <3>1. /\ "%" \in PatternChar /\ "d" \in PatternChar
          /\ Opening \in PatternChar /\ Closing \in PatternChar
      BY LogAssumption DEF LogAssumption
    <3> QED
      BY <3>1, DateText
  <2>3. v = <<"%", "d">> \o <<Opening>> \o timeformater \o <<Closing>>
    BY <2>2 DEF DateShape
  <2>4. /\ Len(v) = T + 4
         /\ v[1] = "%" /\ v[2] = "d" /\ v[3] = Opening /\ v[T + 4] = Closing
         /\ \A q \in 1 .. T : v[3 + q] = timeformater[q]
    BY <2>2 DEF DateShape
  <2>5. b = a + (T + 4) /\ b = Brace /\ \A q \in 1 .. T : m_pattern[a + 3 + q] = timeformater[q]
    <3>1. b = Brace /\ Brace = a + 4 + T
      BY <1>2 DEF DatePiece
    <3>2. \A q \in 1 .. T : m_pattern[a + 3 + q] = timeformater[q]
      BY <1>2 DEF DatePiece
    <3> QED
      BY <2>4, <3>1, <3>2
  <2>6. DateAt(a + 1) /\ logmsg[n] = <<"%", "d">>
    BY <1>2 DEF DatePiece
  <2>7. m_pattern[a + 1] = "%" /\ m_pattern[a + 2] = "d" /\ m_pattern[a + 3] = Opening
    <3>1. a + 1 + 1 = a + 2 /\ a + 1 + 2 = a + 3
      OBVIOUS
    <3> QED
      BY <2>6, <3>1 DEF DateAt
  <2>8. m_pattern[a + (T + 4)] = Closing
    <3>1. Brace # 0
      BY <2>4, <2>5
    <3> QED
      BY <2>5, <3>1, BraceHolds
  <2>9. ASSUME NEW q \in 1 .. T + 4 PROVE m_pattern[a + q] = v[q]
    <3>1. CASE q \in 1 .. 3
      <4>1. m_pattern[a + 1] = v[1] /\ m_pattern[a + 2] = v[2] /\ m_pattern[a + 3] = v[3]
        BY <2>4, <2>7
      <4>2. \A p \in 1 .. 3 : p = 1 \/ p = 2 \/ p = 3
        OBVIOUS
      <4> QED
        BY <3>1, <4>1, <4>2
    <3>2. CASE q \in 4 .. T + 3
      <4>1. q - 3 \in 1 .. T
        BY <2>4, <3>2
      <4>2. 3 + (q - 3) = q
        BY <3>2
      <4>3. a + 3 + (q - 3) = a + q
        BY <3>2
      <4>4. v[q] = timeformater[q - 3]
        BY <2>4, <4>1, <4>2
      <4>5. m_pattern[a + q] = timeformater[q - 3]
        BY <2>5, <4>1, <4>3
      <4> QED
        BY <4>4, <4>5
    <3>3. CASE q = T + 4
      BY <2>4, <2>8, <3>3
    <3> QED
      <4>1. q \in 1 .. 3 \/ q \in 4 .. T + 3 \/ q = T + 4
        <5> HIDE DEF T
        <5> QED
          BY <2>1
      <4> QED
        BY <3>1, <3>2, <3>3, <4>1
  <2>10. SubSeq(m_pattern, 1, b) = SubSeq(m_pattern, 1, a) \o v
    <3>1. b = a + Len(v)
      BY <2>4, <2>5
    <3>2. \A q \in 1 .. Len(v) : m_pattern[a + q] = v[q]
      BY <2>4, <2>9
    <3> QED
      BY <3>1, <3>2, PrefixGrows
  <2>11. v \in Shown(logmsg[n])
    <3>1. a + 1 \in DOMAIN m_pattern
      BY <2>4, <2>5
    <3> QED
      BY <2>3, <2>6, <3>1 DEF Shown
  <2> QED
    BY <2>10, <2>11
<1> QED
  BY <1>1, <1>2

(* What has been parsed to its end is what its items show.                 *)
LEMMA ParserInvKept == ParserInv => PatternEnds /\ PatternKept
PROOF
<1> SUFFICES ASSUME ParserInv PROVE PatternEnds /\ PatternKept
  OBVIOUS
<1> DEFINE N == Len(logmsg)
           L == Len(m_pattern)
<1>1. PatternEnds
  BY DEF ParserInv, PatternEnds
<1>2. ASSUME i > L, i > 1 PROVE m_pattern \in Texts[N]
  <2>1. PICK c : Cut(c)
    BY <1>2 DEF ParserInv
  <2>2. N \in Nat /\ L \in Nat /\ i = L + 1
    BY <1>2 DEF ParserInv
  <2>3. \A n \in 0 .. N : c[n] \in 0 .. L
    BY <2>1, <2>2 DEF Cut
  <2>4. TextsUpTo(Texts, N)
    BY TextsHold DEF ParserInv
  <2> DEFINE Shows(n) == SubSeq(m_pattern, 1, c[n]) \in Texts[n]
             gaps == {n \in 0 .. N : ~Shows(n)}
  <2>5. Shows(0)
    <3>1. SubSeq(m_pattern, 1, c[0]) = <<>>
      BY <2>1 DEF Cut, ParserInv
    <3>2. Texts[0] = {<<>>}
      BY <2>2, <2>4 DEF TextsUpTo
    <3> QED
      BY <3>1, <3>2
  <2>6. ASSUME NEW n \in 1 .. N, Shows(n - 1) PROVE Shows(n)
    <3>1. PICK v \in Shown(logmsg[n]) :
             SubSeq(m_pattern, 1, c[n]) = SubSeq(m_pattern, 1, c[n - 1]) \o v
      <4>1. n - 1 \in 0 .. N /\ n \in 0 .. N
        BY <2>2
      <4>2. PlainPiece(n, c) \/ DatePiece(n, c)
        BY <2>1 DEF Cut
      <4>3. PICK a \in 0 .. L, b \in 0 .. L : a = c[n - 1] /\ b = c[n]
        BY <2>3, <4>1
      <4>4. \E v \in Shown(logmsg[n]) : SubSeq(m_pattern, 1, b) = SubSeq(m_pattern, 1, a) \o v
        BY <4>2, <4>3, PieceShown DEF ParserInv
      <4> QED
        BY <4>3, <4>4
    <3>2. Texts[n] = Joined(Texts[n - 1], Shown(logmsg[n]))
      <4>1. n \in 0 .. N /\ n # 0
        BY <2>2
      <4>2. Texts = [q \in 0 .. N |-> IF q = 0 THEN {<<>>}
                                     ELSE Joined(Texts[q - 1], Shown(logmsg[q]))]
        BY <2>4 DEF TextsUpTo
      <4> QED
        BY <4>1, <4>2
    <3> QED
      BY <2>6, <3>1, <3>2, JoinedHas
  <2>7. gaps = {}
    <3> SUFFICES ASSUME gaps # {} PROVE FALSE
      OBVIOUS
    <3>1. gaps \in SUBSET Nat
      BY <2>2
    <3>2. PICK n \in gaps : \A m \in gaps : n <= m
      <4> HIDE DEF gaps
      <4> QED
        BY <3>1, LeastOf
    <3> HIDE DEF Shows
    <3>3. n \in 1 .. N /\ ~Shows(n)
      BY <2>2, <2>5, <3>2
    <3>4. n - 1 \in 0 .. N /\ ~(n <= n - 1)
      BY <2>2, <3>3
    <3>5. Shows(n - 1)
      BY <3>2, <3>4
    <3> QED
      BY <2>6, <3>3, <3>5
  <2>8. Shows(N)
    <3> HIDE DEF Shows
    <3> QED
      BY <2>2, <2>7
  <2>9. SubSeq(m_pattern, 1, c[N]) = m_pattern
    <3>1. c[N] = L
      BY <2>1, <2>2 DEF Cut
    <3> QED
      BY <2>2, <3>1, SeqEqual DEF ParserInv
  <2> QED
    BY <2>8, <2>9
<1>3. PatternKept
  BY <1>2 DEF PatternKept
<1> QED
  BY <1>1, <1>3

(* The other steps of the logger.                                          *)
LEMMA ParserStepInv ==
  ASSUME ParserInv, LogNextState \/ UNCHANGED logVars
  PROVE  ParserInv'
PROOF
<1>1. CASE GivePattern
  <2>1. logmsg' = logmsg /\ timeformater' = timeformater /\ (back' <=> back) /\ i = 0
    BY <1>1 DEF GivePattern
  <2>2. logmsg = <<>> /\ ~back
    BY <2>1 DEF ParserInv
  <2>3. CASE i' = i /\ \E x \in PatternChar : m_pattern' = Append(m_pattern, x)
    BY <2>1, <2>2, <2>3 DEF ParserInv
  <2>4. CASE i' = 1 /\ m_pattern' = m_pattern
    <3> DEFINE c == [n \in 0 .. 0 |-> 0]
    <3>1. Cut(c)'
      BY <2>1, <2>2, <2>4 DEF Cut
    <3>2. \E e : Cut(e)'
      BY <3>1
    <3>3. i' <= Len(m_pattern') + 1
      BY <2>4 DEF ParserInv
    <3> QED
      BY <2>1, <2>2, <2>4, <3>2, <3>3 DEF ParserInv
  <2> QED
    BY <1>1, <2>3, <2>4 DEF GivePattern
<1>2. CASE ParseItem
  BY <1>2, ParseItemInv
<1>3. CASE UNCHANGED parserVars
  <2>1. /\ m_pattern' = m_pattern /\ i' = i /\ logmsg' = logmsg
        /\ timeformater' = timeformater /\ back' = back
    BY <1>3 DEF parserVars
  <2>2. Brace' = Brace
    BY <2>1 DEF Brace
  <2>3. ASSUME NEW c, Cut(c) PROVE Cut(c)'
    BY <2>1, <2>2, <2>3 DEF Cut, PlainPiece, DatePiece, DateAt
  <2>4. (\E c : Cut(c)) => \E c : Cut(c)'
    BY <2>3
  <2>5. PatternEnds => PatternEnds'
    BY <2>1, <2>2 DEF PatternEnds, DateAt
  <2> QED
    BY <2>1, <2>4, <2>5 DEF ParserInv
<1>4. LogNextState \/ UNCHANGED logVars => GivePattern \/ ParseItem \/ UNCHANGED parserVars
  BY DEF LogNextState, logVars, GetFind, GetInsert, SetLevel, AddAppender, DelFind, DelErase,
         LogBegin, LogNext, LogEnd
<1> QED
  BY <1>1, <1>2, <1>3, <1>4

-----------------------------------------------------------------------------
(* The logger.                                                             *)

LoggerTyped ==
  /\ appenderVec \in Seq(Appender) /\ members \in Seq(Appender)
  /\ m_level \in [Appender -> Level] /\ written \in [LogThread -> Seq(Appender)]
  /\ lpc \in [LogThread -> {"idle", "get", "del", "log"}]
  /\ larg = [t \in LogThread |-> larg[t]]
  /\ \A t \in LogThread : /\ lpc[t] = "del" => larg[t] \in Nat \ {0}
                          /\ lpc[t] = "log" => larg[t] \in (Nat \ {0}) \X Level

(* Calls that do not overlap: one looks for the logger, and there is none; *)
(* one deletes, and none logs.                                             *)
NoOverlap ==
  /\ ~undefined /\ handles \subseteq {1} /\ (maps = <<>> \/ Len(maps) = 1)
  /\ \A t \in LogThread : lpc[t] = "get" => maps = <<>>
  /\ \A s, t \in LogThread : lpc[s] = "get" /\ lpc[t] = "get" => s = t
  /\ \A s, t \in LogThread : lpc[s] = "del" /\ lpc[t] \in {"del", "log"} => s = t

(* The vector is as it was told, but for what is about to be erased.       *)
AsTold ==
  /\ ~Busy({"del"}) => appenderVec = members
  /\ \A t \in LogThread : lpc[t] = "del" =>
       larg[t] \in DOMAIN appenderVec /\ members = Without(appenderVec, larg[t])

(* A message that came to place p has been written by those before it.     *)
PassedBefore(p, n) == {q \in 1 .. p - 1 : m_level[members[q]] <= n}
WrittenBefore(w, p, n) == TakenFrom(w, members, PassedBefore(p, n))
Logging ==
  \A t \in LogThread : lpc[t] = "log" =>
    /\ larg[t][1] <= Len(members) + 1
    /\ WrittenBefore(written[t], larg[t][1], larg[t][2])

LoggerInv == LoggerTyped /\ (~overlap => NoOverlap /\ AsTold /\ Logging)

(* Without() takes one away.                                               *)
LEMMA WithoutHolds ==
  ASSUME NEW S, NEW s \in Seq(S), NEW p, Len(s) # 0
  PROVE  Without(s, p) \in Seq(S)
PROOF
<1>1. Len(s) - 1 \in Nat
  OBVIOUS
<1>2. ASSUME NEW q \in 1 .. Len(s) - 1 PROVE (IF q < p THEN s[q] ELSE s[q + 1]) \in S
  <2>1. s[q] \in S /\ s[q + 1] \in S
    BY <1>1
  <2> QED
    BY <2>1
<1> DEFINE w == [q \in 1 .. Len(s) - 1 |-> IF q < p THEN s[q] ELSE s[q + 1]]
<1>3. w \in [1 .. Len(s) - 1 -> S]
  BY <1>2
<1>4. w \in Seq(S)
  <2> HIDE DEF w
  <2> QED
    BY <1>1, <1>3, SeqDef
<1> QED
  BY <1>4 DEF Without

LEMMA FirstIsPlace ==
  ASSUME NEW S, NEW s \in Seq(S), NEW a, PlacesOf(s, a) # {}
  PROVE  FirstOf(s, a) \in PlacesOf(s, a)
PROOF
<1>1. PICK U : U = PlacesOf(s, a)
  OBVIOUS
<1>2. U \subseteq Nat /\ U # {}
  BY <1>1 DEF PlacesOf
<1>3. \E p \in U : \A q \in U : p <= q
  BY <1>2, LeastOf
<1>4. (CHOOSE p \in U : \A q \in U : p <= q) \in U
  BY <1>3
<1> QED
  BY <1>1, <1>4 DEF FirstOf

LEMMA RemovedHolds ==
  ASSUME NEW S, NEW s \in Seq(S), NEW a
  PROVE  Removed(s, a) \in Seq(S)
PROOF
<1>1. CASE PlacesOf(s, a) = {}
  BY <1>1 DEF Removed
<1>2. CASE PlacesOf(s, a) # {}
  <2>1. Len(s) # 0
    BY <1>2 DEF PlacesOf
  <2> QED
    BY <1>2, <2>1, WithoutHolds DEF Removed
<1> QED
  BY <1>1, <1>2

(* Nothing is deleted that is not there.                                   *)
LEMMA NothingRemoved ==
  ASSUME NEW S, NEW s \in Seq(S), NEW p \in DOMAIN s, NEW a, PlacesOf(s, a) = {}
  PROVE  Removed(Without(s, p), a) = Without(s, p)
PROOF
<1>1. Without(s, p) = [q \in 1 .. Len(s) - 1 |-> IF q < p THEN s[q] ELSE s[q + 1]]
  BY DEF Without
<1>2. \A q \in DOMAIN s : s[q] # a
  BY DEF PlacesOf
<1>3. ASSUME NEW q \in DOMAIN Without(s, p) PROVE Without(s, p)[q] # a
  <2>1. q \in 1 .. Len(s) - 1
    BY <1>1
  <2>2. q \in DOMAIN s /\ q + 1 \in DOMAIN s
    BY <2>1
  <2> QED
    BY <1>1, <1>2, <2>1, <2>2
<1>4. PlacesOf(Without(s, p), a) = {}
  BY <1>3 DEF PlacesOf
<1> QED
  BY <1>4 DEF Removed

(* At first the logger has nothing and nobody is in a call.                *)
LEMMA LoggerInitInv == LogInit => LoggerInv
PROOF
<1> SUFFICES ASSUME LogInit PROVE LoggerInv
  OBVIOUS
<1>1. DEBUG \in Level
  <2>1. \E n \in Level : \A m \in Level : n <= m
    BY LogAssumption, LeastOf DEF LogAssumption
  <2> QED
    BY <2>1 DEF DEBUG
<1>2. LoggerTyped
  BY <1>1 DEF LogInit, LoggerTyped
<1>3. NoOverlap /\ AsTold /\ Logging
  BY DEF LogInit, NoOverlap, AsTold, Logging
<1> QED
  BY <1>2, <1>3 DEF LoggerInv

(* What was written is about the members and their levels only.            *)
LEMMA WrittenSame ==
  ASSUME members' = members, m_level' = m_level, NEW w, NEW p, NEW n
  PROVE  WrittenBefore(w, p, n)' <=> WrittenBefore(w, p, n)
  BY DEF WrittenBefore, PassedBefore, TakenFrom

(* A thread that goes on logging as it was.                                *)
LEMMA OthersLog ==
  ASSUME Logging, members' = members, m_level' = m_level, NEW s \in LogThread,
         lpc[s] = "log", larg'[s] = larg[s], written'[s] = written[s]
  PROVE  larg'[s][1] <= Len(members') + 1 /\ WrittenBefore(written[s], larg[s][1], larg[s][2])'
PROOF
<1>1. PICK w, p, n : w = written[s] /\ p = larg[s][1] /\ n = larg[s][2]
  OBVIOUS
<1>2. WrittenBefore(w, p, n)
  BY <1>1 DEF Logging
<1>3. WrittenBefore(w, p, n)'
  BY <1>2, WrittenSame
<1>4. w = written'[s] /\ p = larg'[s][1] /\ n = larg'[s][2]
  BY <1>1
<1>5. larg'[s][1] <= Len(members') + 1
  BY DEF Logging
<1> QED
  BY <1>3, <1>4, <1>5

(* Nothing is taken from no places ...                                     *)
LEMMA NothingTaken == ASSUME NEW s PROVE TakenFrom(<<>>, s, {})
PROOF
<1>1. [x \in {} |-> x] \in [DOMAIN << >> -> {}]
  OBVIOUS
<1> QED
  BY <1>1 DEF TakenFrom

(* ... and one more from one more place, behind the others.                *)
LEMMA TakenNext ==
  ASSUME NEW S, NEW w \in Seq(S), NEW s, NEW U \in SUBSET Nat, NEW p \in Nat,
         \A u \in U : u < p, s[p] \in S, TakenFrom(w, s, U)
  PROVE  TakenFrom(Append(w, s[p]), s, U \cup {p})
PROOF
<1>1. PICK at \in [DOMAIN w -> U] :
        /\ \A x, y \in DOMAIN w : x < y => at[x] < at[y]
        /\ \A x \in DOMAIN w : w[x] = s[at[x]]
        /\ \A u \in U : \E x \in DOMAIN w : at[x] = u
  BY DEF TakenFrom
<1>2. PICK v : v = Append(w, s[p])
  OBVIOUS
<1>3. PICK l : l = Len(w) + 1
  OBVIOUS
<1>4. /\ l \in Nat /\ v[l] = s[p] /\ l \notin DOMAIN w /\ DOMAIN v = DOMAIN w \cup {l}
      /\ \A x \in DOMAIN w : x \in Nat /\ x < l /\ v[x] = w[x]
  BY <1>2, <1>3
<1>5. PICK to : to = [x \in DOMAIN v |-> IF x = l THEN p ELSE at[x]]
  OBVIOUS
<1>6. to \in [DOMAIN v -> U \cup {p}] /\ to[l] = p /\ \A x \in DOMAIN w : to[x] = at[x] /\ at[x] \in U
  BY <1>1, <1>4, <1>5
<1>7. ASSUME NEW x \in DOMAIN v, NEW y \in DOMAIN v, x < y PROVE to[x] < to[y]
  <2>1. x \in DOMAIN w
    BY <1>4, <1>7
  <2>2. CASE y \in DOMAIN w
    BY <1>1, <1>6, <1>7, <2>1, <2>2
  <2>3. CASE y = l
    <3>1. to[x] \in U
      BY <1>6, <2>1
    <3> QED
      BY <1>6, <2>3, <3>1
  <2> QED
    BY <1>4, <2>2, <2>3
<1>8. ASSUME NEW x \in DOMAIN v PROVE v[x] = s[to[x]]
  <2>1. CASE x \in DOMAIN w
    BY <1>1, <1>4, <1>6, <2>1
  <2>2. CASE x = l
    BY <1>4, <1>6, <2>2
  <2> QED
    BY <1>4, <2>1, <2>2
<1>9. ASSUME NEW u \in U \cup {p} PROVE \E x \in DOMAIN v : to[x] = u
  <2>1. CASE u \in U
    <3>1. PICK x \in DOMAIN w : at[x] = u
      BY <1>1, <2>1
    <3> QED
      BY <1>4, <1>6, <3>1
  <2>2. CASE u = p
    BY <1>4, <1>6, <2>2
  <2> QED
    BY <2>1, <2>2
<1>10. TakenFrom(v, s, U \cup {p})
  BY <1>6, <1>7, <1>8, <1>9 DEF TakenFrom
<1> QED
  BY <1>2, <1>10

(* The next appender writes the message too, if its level lets it.         *)
LEMMA WritesNext ==
  ASSUME NEW p \in Nat \ {0}, NEW n \in Nat, NEW w \in Seq(Appender), NEW v,
         members \in Seq(Appender), p \in DOMAIN members, WrittenBefore(w, p, n),
         v = IF n >= m_level[members[p]] THEN Append(w, members[p]) ELSE w,
         m_level \in [Appender -> Level]
  PROVE  WrittenBefore(v, p + 1, n)
PROOF
<1>1. m_level[members[p]] \in Nat /\ members[p] \in Appender
  <2>1. members[p] \in Appender
    OBVIOUS
  <2>2. m_level[members[p]] \in Level
    BY <2>1
  <2> QED
    BY <2>1, <2>2, LogAssumption DEF LogAssumption
<1>2. CASE n >= m_level[members[p]]
  <2>1. PassedBefore(p + 1, n) = PassedBefore(p, n) \cup {p}
    BY <1>1, <1>2 DEF PassedBefore
  <2>2. PassedBefore(p, n) \in SUBSET Nat /\ \A q \in PassedBefore(p, n) : q < p
    BY DEF PassedBefore
  <2>3. PICK U : U = PassedBefore(p, n)
    OBVIOUS
  <2>4. TakenFrom(w, members, U)
    BY <2>3 DEF WrittenBefore
  <2>5. TakenFrom(Append(w, members[p]), members, U \cup {p})
    BY <1>1, <2>2, <2>3, <2>4, TakenNext
  <2> QED
    BY <1>2, <2>1, <2>3, <2>5 DEF WrittenBefore
<1>3. CASE ~(n >= m_level[members[p]])
  <2>1. PassedBefore(p + 1, n) = PassedBefore(p, n)
    BY <1>1, <1>3 DEF PassedBefore
  <2>2. v = w
    BY <1>3
  <2> QED
    BY <2>1, <2>2 DEF WrittenBefore
<1> QED
  BY <1>2, <1>3

(* A thread that starts or ends a look-up, or ends a message.              *)
LEMMA ElsewhereInv ==
  ASSUME LoggerTyped, NEW t \in LogThread, NEW l \in {"idle", "get"}, NEW a,
         lpc[t] # "del", Logs(t, l, a),
         UNCHANGED <<appenderVec, m_level, members, written>>
  PROVE  LoggerTyped' /\ (AsTold /\ Logging => AsTold' /\ Logging')
PROOF
<1>1. /\ lpc' = [lpc EXCEPT ![t] = l] /\ larg' = [larg EXCEPT ![t] = a]
      /\ appenderVec' = appenderVec /\ m_level' = m_level /\ members' = members
      /\ written' = written
  BY DEF Logs
<1>2. /\ lpc'[t] = l /\ l # "del" /\ l # "log"
      /\ \A s \in LogThread \ {t} : lpc'[s] = lpc[s] /\ larg'[s] = larg[s]
  BY <1>1 DEF LoggerTyped
<1>3. LoggerTyped'
  BY <1>1, <1>2 DEF LoggerTyped
<1>4. \A s \in LogThread : (lpc'[s] = "del" <=> lpc[s] = "del")
  BY <1>2
<1>5. AsTold => AsTold'
  BY <1>1, <1>2, <1>4 DEF AsTold, Busy
<1>6. ASSUME Logging, NEW s \in LogThread, lpc'[s] = "log"
      PROVE  larg'[s][1] <= Len(members') + 1 /\ WrittenBefore(written[s], larg[s][1], larg[s][2])'
  <2>1. s # t /\ lpc[s] = "log" /\ larg'[s] = larg[s] /\ written'[s] = written[s]
    BY <1>1, <1>2, <1>6
  <2> QED
    BY <1>1, <1>6, <2>1, OthersLog
<1>7. Logging => Logging'
  BY <1>6 DEF Logging
<1> QED
  BY <1>3, <1>5, <1>7

(* Nothing of the logger's changes.                                        *)
LEMMA LoggerSame ==
  ASSUME UNCHANGED <<appenderVars, lpc, larg>>
  PROVE  /\ LoggerTyped => LoggerTyped'
         /\ AsTold => AsTold'
         /\ Logging => Logging'
PROOF
<1>1. /\ appenderVec' = appenderVec /\ m_level' = m_level /\ members' = members
      /\ written' = written /\ lpc' = lpc /\ larg' = larg
  BY DEF appenderVars
<1>2. LoggerTyped => LoggerTyped'
  BY <1>1 DEF LoggerTyped
<1>3. AsTold => AsTold'
  BY <1>1 DEF AsTold, Busy
<1>4. ASSUME NEW s \in LogThread PROVE WrittenBefore(written[s], larg[s][1], larg[s][2])' <=>
                                        WrittenBefore(written[s], larg[s][1], larg[s][2])
  <2>1. PICK w, p, n : w = written[s] /\ p = larg[s][1] /\ n = larg[s][2]
    OBVIOUS
  <2>2. w = written'[s] /\ p = larg'[s][1] /\ n = larg'[s][2]
    BY <1>1, <2>1
  <2>3. WrittenBefore(w, p, n)' <=> WrittenBefore(w, p, n)
    BY <1>1, WrittenSame
  <2> QED
    BY <2>1, <2>2, <2>3
<1>5. Logging => Logging'
  BY <1>1, <1>4 DEF Logging
<1> QED
  BY <1>2, <1>3, <1>5

(* One step of each operation.                                             *)
LEMMA GetFindInv ==
  ASSUME LoggerInv, ~undefined, NEW t \in LogThread, GetFind(t)
  PROVE  LoggerInv'
PROOF
<1>1. /\ maps' = maps /\ undefined' = undefined
      /\ UNCHANGED appenderVars
  BY DEF GetFind
<1>2. CASE maps # <<>>
  <2>1. /\ handles' = handles \cup {Len(maps)} /\ lpc' = lpc /\ larg' = larg
        /\ overlap' = overlap
    BY <1>2 DEF GetFind
  <2>2. LoggerTyped' /\ (AsTold => AsTold') /\ (Logging => Logging')
    BY <1>1, <2>1, LoggerSame DEF LoggerInv
  <2>3. NoOverlap => NoOverlap'
    BY <1>1, <1>2, <2>1 DEF NoOverlap
  <2> QED
    BY <2>1, <2>2, <2>3 DEF LoggerInv
<1>3. CASE maps = <<>>
  <2>1. /\ Logs(t, "get", rootLevel) /\ handles' = handles /\ lpc[t] = "idle"
        /\ overlap' = (overlap \/ Busy({"get"}))
    BY <1>3 DEF GetFind, LogCalled
  <2>2. LoggerTyped' /\ (AsTold /\ Logging => AsTold' /\ Logging')
    <3>1. LoggerTyped /\ lpc[t] # "del" /\ UNCHANGED <<appenderVec, m_level, members, written>>
      BY <1>1, <2>1 DEF LoggerInv, appenderVars
    <3>2. "get" \in {"idle", "get"}
      OBVIOUS
    <3> QED
      BY <2>1, <3>1, <3>2, ElsewhereInv
  <2>3. ASSUME ~overlap', NoOverlap PROVE NoOverlap'
    <3>1. lpc' = [lpc EXCEPT ![t] = "get"] /\ \A s \in LogThread : lpc[s] # "get"
      BY <2>1, <2>3 DEF Logs, Busy
    <3>2. lpc'[t] = "get" /\ \A s \in LogThread \ {t} : lpc'[s] = lpc[s]
      BY <3>1 DEF LoggerInv, LoggerTyped
    <3> QED
      BY <1>1, <1>3, <2>1, <2>3, <3>1, <3>2 DEF NoOverlap
  <2>4. ~overlap' => ~overlap
    BY <2>1
  <2> QED
    BY <2>2, <2>3, <2>4 DEF LoggerInv
<1> QED
  BY <1>2, <1>3

LEMMA GetInsertInv ==
  ASSUME LoggerInv, ~undefined, NEW t \in LogThread, GetInsert(t)
  PROVE  LoggerInv'
PROOF
<1>1. /\ lpc[t] = "get" /\ maps' = Append(maps, t) /\ handles' = handles \cup {Len(maps')}
      /\ Logs(t, "idle", 0) /\ UNCHANGED appenderVars /\ overlap' = overlap
  BY DEF GetInsert
<1>2. undefined' => \E s \in LogThread \ {t} : lpc[s] = "get"
  BY DEF GetInsert
<1>3. LoggerTyped' /\ (AsTold /\ Logging => AsTold' /\ Logging')
  <2>1. LoggerTyped /\ lpc[t] # "del" /\ UNCHANGED <<appenderVec, m_level, members, written>>
    BY <1>1 DEF LoggerInv, appenderVars
  <2>2. "idle" \in {"idle", "get"}
    OBVIOUS
  <2> QED
    BY <1>1, <2>1, <2>2, ElsewhereInv
<1>4. ASSUME NoOverlap PROVE NoOverlap'
  <2>1. maps = <<>> /\ \A s \in LogThread \ {t} : lpc[s] # "get"
    BY <1>1, <1>4 DEF NoOverlap
  <2>2. Len(maps') = 1 /\ handles' \subseteq {1} /\ ~undefined'
    BY <1>1, <1>2, <1>4, <2>1 DEF NoOverlap
  <2>3. lpc'[t] = "idle" /\ \A s \in LogThread \ {t} : lpc'[s] = lpc[s]
    BY <1>1 DEF Logs, LoggerInv, LoggerTyped
  <2> QED
    BY <1>4, <2>1, <2>2, <2>3 DEF NoOverlap
<1> QED
  BY <1>1, <1>3, <1>4 DEF LoggerInv

LEMMA SetLevelInv ==
  ASSUME LoggerInv, ~undefined, NEW t \in LogThread, NEW n \in Level, SetLevel(t, n)
  PROVE  LoggerInv'
PROOF
<1>1. /\ maps' = maps /\ handles' = handles /\ appenderVec' = appenderVec /\ members' = members
      /\ written' = written /\ lpc' = lpc /\ larg' = larg /\ undefined' = undefined
      /\ overlap' = (overlap \/ Busy({"log"}))
      /\ \/ m_level' = m_level
         \/ \E a \in Appender : m_level' = [m_level EXCEPT ![a] = n]
  BY DEF SetLevel
<1>2. LoggerTyped'
  <2>1. m_level' \in [Appender -> Level]
    BY <1>1 DEF LoggerInv, LoggerTyped
  <2> QED
    BY <1>1, <2>1 DEF LoggerInv, LoggerTyped
<1>3. AsTold => AsTold'
  BY <1>1 DEF AsTold, Busy
<1>4. NoOverlap => NoOverlap'
  BY <1>1 DEF NoOverlap
<1>5. ~overlap' => Logging'
  BY <1>1 DEF Logging, Busy
<1>6. ~overlap' => ~overlap
  BY <1>1
<1> QED
  BY <1>2, <1>3, <1>4, <1>5, <1>6 DEF LoggerInv

LEMMA AddAppenderInv ==
  ASSUME LoggerInv, ~undefined, NEW t \in LogThread, NEW a \in Appender, AddAppender(t, a)
  PROVE  LoggerInv'
PROOF
<1>1. /\ maps' = maps /\ handles' = handles /\ m_level' = m_level
      /\ appenderVec' = Append(appenderVec, a) /\ members' = Append(members, a)
      /\ written' = written /\ lpc' = lpc /\ larg' = larg
      /\ overlap' = (overlap \/ Busy({"del", "log"}))
  BY DEF AddAppender, managerVars
<1>2. undefined' => Busy({"del", "log"})
  BY DEF AddAppender
<1>3. LoggerTyped'
  BY <1>1 DEF LoggerInv, LoggerTyped
<1>4. ASSUME ~overlap', NoOverlap, AsTold PROVE NoOverlap' /\ AsTold' /\ Logging'
  <2>1. ~undefined' /\ \A s \in LogThread : lpc[s] # "del" /\ lpc[s] # "log"
    BY <1>1, <1>2, <1>4 DEF Busy
  <2>2. NoOverlap'
    BY <1>1, <1>4, <2>1 DEF NoOverlap
  <2>3. AsTold'
    BY <1>1, <1>4, <2>1 DEF AsTold, Busy
  <2>4. Logging'
    BY <1>1, <2>1 DEF Logging
  <2> QED
    BY <2>2, <2>3, <2>4
<1>5. ~overlap' => ~overlap
  BY <1>1
<1> QED
  BY <1>3, <1>4, <1>5 DEF LoggerInv

LEMMA DelFindInv ==
  ASSUME LoggerInv, ~undefined, NEW t \in LogThread, NEW a \in Appender, DelFind(t, a)
  PROVE  LoggerInv'
PROOF
<1>1. /\ maps' = maps /\ handles' = handles /\ m_level' = m_level /\ undefined' = undefined
      /\ appenderVec' = appenderVec /\ members' = Removed(members, a) /\ written' = written
  BY DEF DelFind, managerVars
<1>2. members' \in Seq(Appender)
  BY <1>1, RemovedHolds DEF LoggerInv, LoggerTyped
<1>3. CASE PlacesOf(appenderVec, a) = {}
  <2>1. lpc' = lpc /\ larg' = larg /\ overlap' = overlap
    BY <1>3 DEF DelFind
  <2>2. LoggerTyped'
    BY <1>1, <1>2, <2>1 DEF LoggerInv, LoggerTyped
  <2>3. ASSUME AsTold PROVE members' = members
    <3>1. CASE Busy({"del"})
      <4>1. PICK s \in LogThread : lpc[s] = "del"
        BY <3>1 DEF Busy
      <4>2. PICK p : p = larg[s]
        OBVIOUS
      <4>3. p \in DOMAIN appenderVec /\ members = Without(appenderVec, p)
        BY <2>3, <4>1, <4>2 DEF AsTold
      <4>4. appenderVec \in Seq(Appender)
        BY DEF LoggerInv, LoggerTyped
      <4> QED
        BY <1>1, <1>3, <4>3, <4>4, NothingRemoved
    <3>2. CASE ~Busy({"del"})
      BY <1>1, <1>3, <2>3, <3>2 DEF AsTold, Removed
    <3> QED
      BY <3>1, <3>2
  <2>4. ASSUME AsTold, Logging PROVE AsTold' /\ Logging'
    BY <1>1, <2>1, <2>3, <2>4, LoggerSame DEF appenderVars
  <2>5. NoOverlap => NoOverlap'
    BY <1>1, <2>1 DEF NoOverlap
  <2> QED
    BY <2>1, <2>2, <2>4, <2>5 DEF LoggerInv
<1>4. CASE PlacesOf(appenderVec, a) # {}
  <2>1. PICK p : p = FirstOf(appenderVec, a)
    OBVIOUS
  <2>2. p \in PlacesOf(appenderVec, a)
    BY <1>4, <2>1, FirstIsPlace DEF LoggerInv, LoggerTyped
  <2>3. p \in DOMAIN appenderVec /\ p \in Nat \ {0}
    BY <2>2 DEF PlacesOf, LoggerInv, LoggerTyped
  <2>4. Logs(t, "del", p) /\ overlap' = (overlap \/ Busy({"del", "log"}))
    BY <1>4, <2>1 DEF DelFind
  <2>5. lpc'[t] = "del" /\ larg'[t] = p
    BY <2>4 DEF Logs, LoggerInv, LoggerTyped
  <2>6. \A s \in LogThread \ {t} : lpc'[s] = lpc[s] /\ larg'[s] = larg[s]
    BY <2>4 DEF Logs, LoggerInv, LoggerTyped
  <2>7. LoggerTyped'
    <3>1. /\ lpc' \in [LogThread -> {"idle", "get", "del", "log"}]
          /\ larg' = [s \in LogThread |-> larg'[s]]
      BY <2>4 DEF Logs, LoggerInv, LoggerTyped
    <3>2. \A s \in LogThread : /\ lpc'[s] = "del" => larg'[s] \in Nat \ {0}
                               /\ lpc'[s] = "log" => larg'[s] \in (Nat \ {0}) \X Level
      BY <2>3, <2>5, <2>6 DEF LoggerInv, LoggerTyped
    <3> QED
      BY <1>1, <1>2, <3>1, <3>2 DEF LoggerInv, LoggerTyped
  <2>8. ASSUME ~overlap', NoOverlap, AsTold PROVE NoOverlap' /\ AsTold' /\ Logging'
    <3>1. \A s \in LogThread : lpc[s] # "del" /\ lpc[s] # "log"
      BY <2>4, <2>8 DEF Busy
    <3>2. \A s \in LogThread : /\ lpc'[s] # "log" /\ (lpc'[s] = "del" => s = t)
                               /\ (lpc'[s] = "get" => lpc[s] = "get")
      BY <2>5, <2>6, <3>1
    <3>3. NoOverlap'
      BY <1>1, <2>8, <3>2 DEF NoOverlap
    <3>4. appenderVec = members
      BY <2>8, <3>1 DEF AsTold, Busy
    <3>5. members' = Without(appenderVec, p)
      BY <1>1, <1>4, <2>1, <3>4 DEF Removed
    <3>6. AsTold'
      BY <1>1, <2>3, <2>5, <3>2, <3>5 DEF AsTold, Busy
    <3>7. Logging'
      BY <3>2 DEF Logging
    <3> QED
      BY <3>3, <3>6, <3>7
  <2>9. ~overlap' => ~overlap
    BY <2>4
  <2> QED
    BY <2>7, <2>8, <2>9 DEF LoggerInv
<1> QED
  BY <1>3, <1>4

LEMMA DelEraseInv ==
  ASSUME LoggerInv, ~undefined, NEW t \in LogThread, DelErase(t)
  PROVE  LoggerInv'
PROOF
<1>1. /\ lpc[t] = "del" /\ Logs(t, "idle", 0) /\ maps' = maps /\ handles' = handles
      /\ m_level' = m_level /\ members' = members /\ written' = written /\ overlap' = overlap
  BY DEF DelErase, managerVars
<1>2. /\ lpc'[t] = "idle"
      /\ \A s \in LogThread \ {t} : lpc'[s] = lpc[s] /\ larg'[s] = larg[s]
  BY <1>1 DEF Logs, LoggerInv, LoggerTyped
<1>3. PICK p : p = larg[t]
  OBVIOUS
<1>4. p \in Nat \ {0} /\ appenderVec \in Seq(Appender)
  BY <1>1, <1>3 DEF LoggerInv, LoggerTyped
<1>5. CASE p > Len(appenderVec)
  <2>1. appenderVec' = appenderVec
    BY <1>3, <1>5 DEF DelErase
  <2>2. overlap
    BY <1>1, <1>3, <1>4, <1>5 DEF LoggerInv, AsTold
  <2>3. LoggerTyped'
    BY <1>1, <1>2, <2>1 DEF Logs, LoggerInv, LoggerTyped
  <2> QED
    BY <1>1, <2>2, <2>3 DEF LoggerInv
<1>6. CASE ~(p > Len(appenderVec))
  <2>1. appenderVec' = Without(appenderVec, p)
    BY <1>3, <1>6 DEF DelErase, Erased
  <2>2. undefined' => Busy({"log"})
    BY <1>3, <1>6 DEF DelErase
  <2>3. appenderVec' \in Seq(Appender)
    <3>1. Len(appenderVec) # 0
      BY <1>4, <1>6
    <3> QED
      BY <1>4, <2>1, <3>1, WithoutHolds
  <2>4. LoggerTyped'
    BY <1>1, <1>2, <2>3 DEF Logs, LoggerInv, LoggerTyped
  <2>5. ASSUME NoOverlap, AsTold PROVE NoOverlap' /\ AsTold' /\ Logging'
    <3>1. \A s \in LogThread : lpc[s] # "log" /\ (lpc[s] = "del" => s = t)
      BY <1>1, <2>5 DEF NoOverlap
    <3>2. \A s \in LogThread : /\ lpc'[s] # "log" /\ lpc'[s] # "del"
                               /\ (lpc'[s] = "get" => lpc[s] = "get")
      BY <1>2, <3>1
    <3>3. NoOverlap'
      BY <1>1, <2>2, <2>5, <3>1, <3>2 DEF NoOverlap, Busy
    <3>4. appenderVec' = members'
      BY <1>1, <1>3, <2>1, <2>5 DEF AsTold
    <3>5. AsTold' /\ Logging'
      BY <3>2, <3>4 DEF AsTold, Logging, Busy
    <3> QED
      BY <3>3, <3>5
  <2> QED
    BY <1>1, <2>4, <2>5 DEF LoggerInv
<1> QED
  BY <1>5, <1>6

LEMMA LogBeginInv ==
  ASSUME LoggerInv, ~undefined, NEW t \in LogThread, NEW n \in Level, LogBegin(t, n)
  PROVE  LoggerInv'
PROOF
<1>1. /\ Logs(t, "log", <<1, n>>) /\ maps' = maps /\ handles' = handles /\ lpc[t] = "idle"
      /\ m_level' = m_level /\ members' = members /\ written' = [written EXCEPT ![t] = <<>>]
      /\ overlap' = (overlap \/ Busy({"del"})) /\ undefined' = undefined
      /\ appenderVec' = appenderVec
  BY DEF LogBegin, LogCalled, managerVars
<1>2. /\ lpc'[t] = "log" /\ larg'[t] = <<1, n>> /\ written'[t] = <<>>
      /\ \A s \in LogThread \ {t} :
            lpc'[s] = lpc[s] /\ larg'[s] = larg[s] /\ written'[s] = written[s]
  BY <1>1 DEF Logs, LoggerInv, LoggerTyped
<1>3. LoggerTyped'
  <2>1. /\ lpc' \in [LogThread -> {"idle", "get", "del", "log"}]
        /\ larg' = [s \in LogThread |-> larg'[s]]
    BY <1>1 DEF Logs, LoggerInv, LoggerTyped
  <2>2. written' \in [LogThread -> Seq(Appender)]
    <3>1. <<>> \in Seq(Appender)
      OBVIOUS
    <3> QED
      BY <1>1, <3>1 DEF LoggerInv, LoggerTyped
  <2>3. \A s \in LogThread : /\ lpc'[s] = "del" => larg'[s] \in Nat \ {0}
                             /\ lpc'[s] = "log" => larg'[s] \in (Nat \ {0}) \X Level
    <3>1. <<1, n>> \in (Nat \ {0}) \X Level
      OBVIOUS
    <3> QED
      BY <1>2, <3>1 DEF LoggerInv, LoggerTyped
  <2> QED
    BY <1>1, <2>1, <2>2, <2>3 DEF LoggerInv, LoggerTyped
<1>4. ASSUME ~overlap', NoOverlap, AsTold PROVE NoOverlap' /\ AsTold'
  <2>1. \A s \in LogThread : lpc[s] # "del"
    BY <1>1, <1>4 DEF Busy
  <2>2. \A s \in LogThread : lpc'[s] # "del" /\ (lpc'[s] = "get" => lpc[s] = "get")
    BY <1>2, <2>1
  <2>3. NoOverlap'
    BY <1>1, <1>4, <2>2 DEF NoOverlap
  <2>4. AsTold'
    BY <1>1, <1>4, <2>1, <2>2 DEF AsTold, Busy
  <2> QED
    BY <2>3, <2>4
<1>5. ASSUME Logging, NEW s \in LogThread, lpc'[s] = "log"
      PROVE  larg'[s][1] <= Len(members') + 1 /\ WrittenBefore(written[s], larg[s][1], larg[s][2])'
  <2>1. CASE s = t
    <3>1. WrittenBefore(<<>>, 1, n)'
      <4>1. PassedBefore(1, n)' = {}
        BY DEF PassedBefore
      <4> QED
        BY <4>1, NothingTaken DEF WrittenBefore
    <3>2. larg'[s][1] = 1 /\ larg'[s][2] = n /\ written'[s] = <<>>
      BY <1>2, <2>1
    <3>3. Len(members') \in Nat
      BY <1>1 DEF LoggerInv, LoggerTyped
    <3> QED
      BY <3>1, <3>2, <3>3
  <2>2. CASE s # t
    <3>1. lpc[s] = "log" /\ larg'[s] = larg[s] /\ written'[s] = written[s]
      BY <1>2, <1>5, <2>2
    <3> QED
      BY <1>1, <1>5, <3>1, OthersLog
  <2> QED
    BY <2>1, <2>2
<1>6. Logging => Logging'
  BY <1>5 DEF Logging
<1>7. ~overlap' => ~overlap
  BY <1>1
<1> QED
  BY <1>3, <1>4, <1>6, <1>7 DEF LoggerInv

LEMMA LogNextInv ==
  ASSUME LoggerInv, ~undefined, NEW t \in LogThread, LogNext(t)
  PROVE  LoggerInv'
PROOF
<1>1. PICK p, n, w : p = larg[t][1] /\ n = larg[t][2] /\ w = written[t]
  OBVIOUS
<1>2. PICK a : a = appenderVec[p]
  OBVIOUS
<1>3. /\ Logs(t, "log", <<p + 1, n>>) /\ maps' = maps /\ handles' = handles /\ lpc[t] = "log"
      /\ m_level' = m_level /\ members' = members /\ appenderVec' = appenderVec
      /\ overlap' = overlap /\ undefined' = undefined /\ p <= Len(appenderVec)
  BY <1>1 DEF LogNext, managerVars, ghostEnd
<1>4. written' = IF n >= m_level[a] THEN [written EXCEPT ![t] = Append(w, a)] ELSE written
  BY <1>1, <1>2 DEF LogNext
<1>5. /\ p \in Nat \ {0} /\ n \in Level /\ n \in Nat /\ appenderVec \in Seq(Appender)
      /\ w \in Seq(Appender)
  <2>1. larg[t] \in (Nat \ {0}) \X Level
    BY <1>3 DEF LoggerInv, LoggerTyped
  <2>2. Level \subseteq Nat
    BY LogAssumption DEF LogAssumption
  <2> QED
    BY <1>1, <2>1, <2>2 DEF LoggerInv, LoggerTyped
<1>6. a \in Appender /\ p \in DOMAIN appenderVec
  BY <1>2, <1>3, <1>5
<1>7. /\ lpc'[t] = "log" /\ larg'[t] = <<p + 1, n>>
      /\ \A s \in LogThread \ {t} : lpc'[s] = lpc[s] /\ larg'[s] = larg[s]
  BY <1>3 DEF Logs, LoggerInv, LoggerTyped
<1>8. /\ written' \in [LogThread -> Seq(Appender)]
      /\ \A s \in LogThread \ {t} : written'[s] = written[s]
      /\ written'[t] = IF n >= m_level[a] THEN Append(w, a) ELSE w
  <2>1. Append(w, a) \in Seq(Appender) /\ written \in [LogThread -> Seq(Appender)]
    BY <1>5, <1>6 DEF LoggerInv, LoggerTyped
  <2> QED
    BY <1>1, <1>4, <2>1
<1>9. LoggerTyped'
  <2>1. /\ lpc' \in [LogThread -> {"idle", "get", "del", "log"}]
        /\ larg' = [s \in LogThread |-> larg'[s]]
    BY <1>3 DEF Logs, LoggerInv, LoggerTyped
  <2>2. \A s \in LogThread : /\ lpc'[s] = "del" => larg'[s] \in Nat \ {0}
                             /\ lpc'[s] = "log" => larg'[s] \in (Nat \ {0}) \X Level
    <3>1. <<p + 1, n>> \in (Nat \ {0}) \X Level
      BY <1>5
    <3> QED
      BY <1>7, <3>1 DEF LoggerInv, LoggerTyped
  <2> QED
    BY <1>3, <1>8, <2>1, <2>2 DEF LoggerInv, LoggerTyped
<1>10. \A s \in LogThread : lpc'[s] = lpc[s]
  BY <1>3, <1>7
<1>11. NoOverlap => NoOverlap'
  BY <1>3, <1>10 DEF NoOverlap
<1>12. ASSUME NoOverlap, AsTold PROVE AsTold' /\ appenderVec = members
  <2>1. \A s \in LogThread : lpc[s] # "del" /\ lpc'[s] # "del"
    BY <1>3, <1>10, <1>12 DEF NoOverlap
  <2> QED
    BY <1>3, <1>12, <2>1 DEF AsTold, Busy
<1>13. ASSUME Logging, appenderVec = members, NEW s \in LogThread, lpc'[s] = "log"
       PROVE  larg'[s][1] <= Len(members') + 1 /\ WrittenBefore(written[s], larg[s][1], larg[s][2])'
  <2>1. CASE s = t
    <3>1. WrittenBefore(w, p, n)
      BY <1>1, <1>3, <1>13 DEF Logging
    <3>2. PICK v : v = written'[t]
      OBVIOUS
    <3>3. PICK b : b = p + 1
      OBVIOUS
    <3>4. WrittenBefore(v, b, n)'
      <4>1. WrittenBefore(v, b, n)
        BY <1>2, <1>3, <1>5, <1>6, <1>8, <1>13, <3>1, <3>2, <3>3, WritesNext
           DEF LoggerInv, LoggerTyped
      <4> QED
        BY <1>3, <4>1, WrittenSame
    <3>5. larg'[s][1] = b /\ larg'[s][2] = n /\ written'[s] = v
      BY <1>7, <2>1, <3>2, <3>3
    <3>6. b <= Len(members') + 1
      BY <1>3, <1>5, <1>13, <3>3
    <3> QED
      BY <3>4, <3>5, <3>6
  <2>2. CASE s # t
    <3>1. lpc[s] = "log" /\ larg'[s] = larg[s] /\ written'[s] = written[s]
      BY <1>7, <1>8, <1>13, <2>2
    <3> QED
      BY <1>3, <1>13, <3>1, OthersLog
  <2> QED
    BY <2>1, <2>2
<1>14. Logging /\ appenderVec = members => Logging'
  BY <1>13 DEF Logging
<1> QED
  BY <1>3, <1>9, <1>11, <1>12, <1>14 DEF LoggerInv

LEMMA LogEndInv ==
  ASSUME LoggerInv, ~undefined, NEW t \in LogThread, LogEnd(t)
  PROVE  LoggerInv'
PROOF
<1>1. /\ lpc[t] = "log" /\ Logs(t, "idle", 0) /\ maps' = maps /\ handles' = handles
      /\ UNCHANGED appenderVars /\ overlap' = overlap /\ undefined' = undefined
  BY DEF LogEnd, managerVars, ghostEnd
<1>2. LoggerTyped' /\ (AsTold /\ Logging => AsTold' /\ Logging')
  <2>1. LoggerTyped /\ lpc[t] # "del" /\ UNCHANGED <<appenderVec, m_level, members, written>>
    BY <1>1 DEF LoggerInv, appenderVars
  <2>2. "idle" \in {"idle", "get"}
    OBVIOUS
  <2> QED
    BY <1>1, <2>1, <2>2, ElsewhereInv
<1>3. NoOverlap => NoOverlap'
  <2>1. lpc'[t] = "idle" /\ \A s \in LogThread \ {t} : lpc'[s] = lpc[s]
    BY <1>1 DEF Logs, LoggerInv, LoggerTyped
  <2> QED
    BY <1>1, <2>1 DEF NoOverlap
<1> QED
  BY <1>1, <1>2, <1>3 DEF LoggerInv

(* Every step keeps the invariant.                                         *)
LEMMA LoggerStepInv ==
  ASSUME LoggerInv, LogNextState \/ UNCHANGED logVars
  PROVE  LoggerInv'
PROOF
<1>1. CASE UNCHANGED <<managerVars, appenderVars, lpc, larg, ghostEnd>>
  <2>1. /\ UNCHANGED <<appenderVars, lpc, larg>> /\ overlap' = overlap
        /\ maps' = maps /\ handles' = handles /\ undefined' = undefined /\ lpc' = lpc
    BY <1>1 DEF managerVars, ghostEnd
  <2>2. LoggerTyped' /\ (AsTold => AsTold') /\ (Logging => Logging')
    BY <2>1, LoggerSame DEF LoggerInv
  <2>3. NoOverlap => NoOverlap'
    BY <2>1 DEF NoOverlap
  <2> QED
    BY <2>1, <2>2, <2>3 DEF LoggerInv
<1>2. ASSUME ~undefined, NEW t \in LogThread,
             \/ GetFind(t) \/ GetInsert(t) \/ DelErase(t) \/ LogNext(t) \/ LogEnd(t)
             \/ \E n \in Level : SetLevel(t, n) \/ LogBegin(t, n)
             \/ \E a \in Appender : AddAppender(t, a) \/ DelFind(t, a)
      PROVE  LoggerInv'
  BY <1>2, GetFindInv, GetInsertInv, DelEraseInv, LogNextInv, LogEndInv, SetLevelInv,
     LogBeginInv, AddAppenderInv, DelFindInv
<1>3. GivePattern \/ ParseItem \/ UNCHANGED logVars =>
         UNCHANGED <<managerVars, appenderVars, lpc, larg, ghostEnd>>
  BY DEF GivePattern, ParseItem, logVars
<1> QED
  BY <1>1, <1>2, <1>3 DEF LogNextState

(* The invariant says what LoggerKept does.                                *)
LEMMA LoggerInvKept == LoggerInv => LoggerKept
PROOF
<1> SUFFICES ASSUME LoggerInv PROVE LoggerKept
  OBVIOUS
<1>1. ~overlap /\ ~Busy({"del"}) => appenderVec = members
  BY DEF LoggerInv, AsTold
<1>2. ~overlap => Cardinality(handles) <= 1 /\ ~undefined
  <2> SUFFICES ASSUME ~overlap PROVE Cardinality(handles) <= 1 /\ ~undefined
    OBVIOUS
  <2>1. handles \subseteq {1} /\ ~undefined
    BY DEF LoggerInv, NoOverlap
  <2>2. IsFiniteSet({1}) /\ Cardinality({1}) = 1
    BY FS_Singleton
  <2>3. Cardinality(handles) <= 1
    BY <2>1, <2>2, FS_Subset
  <2> QED
    BY <2>1, <2>3
<1>3. ASSUME NEW t \in LogThread, ~overlap, lpc[t] = "log", larg[t][1] > Len(appenderVec)
      PROVE  TakenFrom(written[t], members,
                       {p \in DOMAIN members : m_level[members[p]] <= larg[t][2]})
  <2>1. appenderVec = members /\ members \in Seq(Appender)
    <3>1. ~Busy({"del"})
      BY <1>3 DEF LoggerInv, NoOverlap, Busy
    <3> QED
      BY <1>1, <1>3, <3>1 DEF LoggerInv, LoggerTyped
  <2>2. PICK p, n : p = larg[t][1] /\ n = larg[t][2]
    OBVIOUS
  <2>3. p \in Nat /\ p <= Len(members) + 1 /\ WrittenBefore(written[t], p, n)
    <3>1. larg[t] \in (Nat \ {0}) \X Level
      BY <1>3 DEF LoggerInv, LoggerTyped
    <3>2. larg[t][1] <= Len(members) + 1 /\ WrittenBefore(written[t], larg[t][1], larg[t][2])
      BY <1>3 DEF LoggerInv, Logging
    <3> QED
      BY <2>2, <3>1, <3>2
  <2>4. p - 1 = Len(members)
    BY <1>3, <2>1, <2>2, <2>3
  <2>5. PassedBefore(p, n) = {q \in DOMAIN members : m_level[members[q]] <= larg[t][2]}
    BY <2>1, <2>2, <2>4 DEF PassedBefore
  <2> QED
    BY <2>3, <2>5 DEF WrittenBefore
<1> QED
  BY <1>1, <1>2, <1>3 DEF LoggerKept

(* Patterns are read to their end, unless a date's '}' is missing or comes *)
(* too early (logger.cpp:194); with no overlapping calls a logger keeps the*)
(* appenders it was given, logs to each that its level lets it, in order,  *)
(* and is the only one of its name (logger.cpp:58-141).                    *)
THEOREM LoggerHoldsAlways == StoresSpec => []LoggerHolds
PROOF
<1> DEFINE Inv == ParserInv /\ LoggerInv
<1>1. StoresInit => Inv
  BY ParserInitInv, LoggerInitInv DEF StoresInit
<1>2. Inv /\ [StoresNext]_storesVars => Inv'
  <2> SUFFICES ASSUME Inv, [StoresNext]_storesVars PROVE Inv'
    OBVIOUS
  <2>1. LogNextState \/ UNCHANGED logVars
    BY DEF StoresNext, storesVars
  <2> QED
    BY <2>1, ParserStepInv, LoggerStepInv
<1>3. Inv => LoggerHolds
  BY ParserInvKept, LoggerInvKept DEF LoggerHolds, LoggerSound
<1> QED
  BY <1>1, <1>2, <1>3, PTL DEF StoresSpec
=============================================================================
