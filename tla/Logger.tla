-------------------------------- MODULE Logger --------------------------------
(***************************************************************************)
(* The logger (logger.cpp): Formatter::parsePattern(), a Logger's levels   *)
(* and appenders, and LoggerManager::GetLogger().  The mutex of a Logger   *)
(* guards single accesses; the loops over its appenders and the map of the *)
(* manager are not guarded.  Going on through a vector that another thread *)
(* changes may go wrong in any way, which stops the model.  The loggers of *)
(* one name are modelled, and the appenders of one logger.                 *)
(***************************************************************************)
EXTENDS Integers, Sequences, FiniteSets

CONSTANTS
  PatternChar,   \* "%", "d", "{", "}" and maybe others
  MaxPattern,    \* bound on the length of patterns
  LogThread, Appender, Level,
  MaxLogCalls    \* bound: calls on the logger

Opening == "{"
Closing == "}"

ASSUME LogAssumption ==
  /\ {"%", "d", Opening, Closing} \subseteq PatternChar /\ Level \subseteq Nat /\ Level # {}
  /\ MaxPattern \in Nat /\ MaxLogCalls \in Nat

VARIABLES
  m_pattern, i,  \* the parser: its input and its place; 0: not begun
  logmsg,        \* the texts of the items
  timeformater,
  back,          \* ghost: it went back to where it had been
  maps,          \* the manager: loggers of one name; the last is registered
  rootLevel, loggerLevel,   \* levels of the root and of the logger
  appenderVec, m_level,     \* one logger's appenders, and their levels
  lpc, larg,     \* threads: where they are, and with what
  logCalls,
  handles,       \* ghost: loggers GetLogger() returned
  members,       \* ghost: who was added and not deleted, in order
  overlap,       \* ghost: two that change overlapped
  written,       \* ghost: per thread, who wrote the message it logs
  undefined

parserVars == <<m_pattern, i, logmsg, timeformater, back>>
managerVars == <<maps, rootLevel, loggerLevel, handles>>
appenderVars == <<appenderVec, m_level, members, written>>
ghostEnd == <<overlap, undefined>>
logVars == <<parserVars, managerVars, appenderVars, lpc, larg, logCalls, ghostEnd>>

DEBUG == CHOOSE n \in Level : \A m \in Level : n <= m

LogInit ==
  /\ m_pattern = <<>> /\ i = 0 /\ logmsg = <<>> /\ timeformater = <<>> /\ back = FALSE
  /\ maps = <<>> /\ rootLevel = DEBUG /\ loggerLevel = DEBUG /\ handles = {}
  /\ appenderVec = <<>> /\ members = <<>> /\ m_level = [a \in Appender |-> DEBUG]
  /\ written = [t \in LogThread |-> <<>>]
  /\ lpc = [t \in LogThread |-> "idle"] /\ larg = [t \in LogThread |-> 0]
  /\ logCalls = 0 /\ overlap = FALSE /\ undefined = FALSE

-----------------------------------------------------------------------------
(* A formatter gets a pattern, any.                                        *)
GivePattern ==
  /\ logCalls = 0 /\ i = 0
  /\ \/ Len(m_pattern) < MaxPattern /\ UNCHANGED i
          /\ \E c \in PatternChar : m_pattern' = Append(m_pattern, c)
     \/ i' = 1 /\ UNCHANGED m_pattern
  /\ UNCHANGED <<logmsg, timeformater, back, managerVars, appenderVars, lpc, larg,
                 logCalls, ghostEnd>>

(* m_pattern.find("}") looks from the start of the pattern.                *)
Brace ==
  LET at == {p \in DOMAIN m_pattern : m_pattern[p] = Closing}
  IN  IF at = {} THEN 0 ELSE CHOOSE p \in at : \A q \in at : p <= q

DateAt(p) ==
  p + 2 <= Len(m_pattern) /\ m_pattern[p] = "%" /\ m_pattern[p + 1] = "d" /\ m_pattern[p + 2] = Opening

(* Without a brace this is the start: std::string::npos + 1 is 0.          *)
PastBrace == Brace + 1

(* One turn of the loop of parsePattern().                                 *)
ParseItem ==
  LET two == m_pattern[i] = "%" /\ i < Len(m_pattern)
      end == IF Brace < i THEN Len(m_pattern) ELSE Brace - 1
  IN  /\ i \in 1 .. Len(m_pattern) /\ ~back
      /\ logmsg' = Append(logmsg, SubSeq(m_pattern, i, IF two THEN i + 1 ELSE i))
      /\ IF DateAt(i)
           THEN timeformater' = SubSeq(m_pattern, i + 3, end) /\ i' = PastBrace
           ELSE i' = (IF two THEN i + 2 ELSE i + 1) /\ UNCHANGED timeformater
      /\ back' = (i' <= i)
      /\ UNCHANGED <<m_pattern, managerVars, appenderVars, lpc, larg, logCalls, ghostEnd>>

-----------------------------------------------------------------------------
Logs(t, l, a) == lpc' = [lpc EXCEPT ![t] = l] /\ larg' = [larg EXCEPT ![t] = a]
LogCalled(t) ==
  /\ lpc[t] = "idle" /\ m_pattern = <<>> /\ i = 0
  /\ logCalls < MaxLogCalls /\ logCalls' = logCalls + 1
Busy(states) == \E t \in LogThread : lpc[t] \in states

(* GetLogger() of a name: what is there, or a new one with the level of the*)
(* root ...                                                                *)
GetFind(t) ==
  /\ LogCalled(t)
  /\ IF maps # <<>> THEN handles' = handles \cup {Len(maps)} /\ UNCHANGED <<lpc, larg, overlap>>
     ELSE Logs(t, "get", rootLevel) /\ overlap' = (overlap \/ Busy({"get"})) /\ UNCHANGED handles
  /\ UNCHANGED <<parserVars, maps, rootLevel, loggerLevel, appenderVars, undefined>>

(* ... put into the map, over another that came there meanwhile.  Two that *)
(* do so at once may break the map.                                        *)
GetInsert(t) ==
  /\ lpc[t] = "get"
  /\ maps' = Append(maps, t) /\ handles' = handles \cup {Len(maps')}
  /\ loggerLevel' = larg[t]
  /\ Logs(t, "idle", 0)
  /\ undefined' \in {FALSE, \E s \in LogThread \ {t} : lpc[s] = "get"}
  /\ UNCHANGED <<parserVars, rootLevel, appenderVars, logCalls, overlap>>

(* setLoggerLevel() of the root, of the logger, setLevel() of an appender. *)
SetLevel(t, n) ==
  /\ LogCalled(t)
  /\ \/ rootLevel' = n /\ UNCHANGED <<loggerLevel, m_level>>
     \/ maps # <<>> /\ loggerLevel' = n /\ UNCHANGED <<rootLevel, m_level>>
     \/ /\ \E a \in Appender : m_level' = [m_level EXCEPT ![a] = n]
        /\ UNCHANGED <<rootLevel, loggerLevel>>
  /\ overlap' = (overlap \/ Busy({"log"}))
  /\ UNCHANGED <<parserVars, maps, handles, appenderVec, members, written, lpc, larg, undefined>>

-----------------------------------------------------------------------------
(* addAppender(): push_back(), under the lock; it may be there already.    *)
AddAppender(t, a) ==
  /\ LogCalled(t)
  /\ appenderVec' = Append(appenderVec, a) /\ members' = Append(members, a)
  /\ overlap' = (overlap \/ Busy({"del", "log"}))
  /\ undefined' \in {FALSE, Busy({"del", "log"})}
  /\ UNCHANGED <<parserVars, managerVars, m_level, written, lpc, larg>>

Without(s, p) == [q \in 1 .. Len(s) - 1 |-> IF q < p THEN s[q] ELSE s[q + 1]]
PlacesOf(s, a) == {p \in DOMAIN s : s[p] = a}
FirstOf(s, a) == CHOOSE p \in PlacesOf(s, a) : \A q \in PlacesOf(s, a) : p <= q
Removed(s, a) == IF PlacesOf(s, a) = {} THEN s ELSE Without(s, FirstOf(s, a))

(* delAppender() looks for the appender without the lock ...               *)
DelFind(t, a) ==
  /\ LogCalled(t)
  /\ IF PlacesOf(appenderVec, a) = {} THEN UNCHANGED <<lpc, larg, overlap>>
     ELSE /\ Logs(t, "del", FirstOf(appenderVec, a))
          /\ overlap' = (overlap \/ Busy({"del", "log"}))
  /\ members' = Removed(members, a)
  /\ UNCHANGED <<parserVars, managerVars, appenderVec, m_level, written, undefined>>

(* Mutant: erase() of the one behind.                                      *)
Erased_Next(s, p) == IF p < Len(s) THEN Without(s, p + 1) ELSE s

Erased(s, p) == Without(s, p)

(* ... and erases what is at its place now, under the lock.                *)
DelErase(t) ==
  /\ lpc[t] = "del"
  /\ IF larg[t] > Len(appenderVec) THEN undefined' = TRUE /\ UNCHANGED appenderVec
     ELSE /\ appenderVec' = Erased(appenderVec, larg[t])
          /\ undefined' \in {FALSE, Busy({"log"})}
  /\ Logs(t, "idle", 0)
  /\ UNCHANGED <<parserVars, managerVars, m_level, members, written, logCalls, overlap>>

-----------------------------------------------------------------------------
(* log() of a message: the logger's level once ...                         *)
LogBegin(t, n) ==
  /\ LogCalled(t)
  /\ n >= loggerLevel
  /\ Logs(t, "log", <<1, n>>)
  /\ written' = [written EXCEPT ![t] = <<>>]
  /\ overlap' = (overlap \/ Busy({"del"}))
  /\ UNCHANGED <<parserVars, managerVars, appenderVec, m_level, members, undefined>>

(* ... and the appenders in turn, each with its own level under its lock.  *)
LogNext(t) ==
  LET p == larg[t][1]   a == appenderVec[p]
  IN  /\ lpc[t] = "log" /\ p <= Len(appenderVec)
      /\ written' = IF larg[t][2] >= m_level[a] THEN [written EXCEPT ![t] = Append(@, a)] ELSE written
      /\ Logs(t, "log", <<p + 1, larg[t][2]>>)
      /\ UNCHANGED <<parserVars, managerVars, appenderVec, m_level, members, logCalls, ghostEnd>>

LogEnd(t) ==
  /\ lpc[t] = "log" /\ larg[t][1] > Len(appenderVec)
  /\ Logs(t, "idle", 0)
  /\ UNCHANGED <<parserVars, managerVars, appenderVars, logCalls, ghostEnd>>

LogNextState ==
  \/ GivePattern \/ ParseItem
  \/ ~undefined /\ \E t \in LogThread :
       \/ GetFind(t) \/ GetInsert(t) \/ DelErase(t) \/ LogNext(t) \/ LogEnd(t)
       \/ \E n \in Level : SetLevel(t, n) \/ LogBegin(t, n)
       \/ \E a \in Appender : AddAppender(t, a) \/ DelFind(t, a)

-----------------------------------------------------------------------------
(* The parser goes on without end only through a "%d{" with no '}' behind  *)
(* it or with one in front, as a second "%d{...}" has: a pattern with one  *)
(* well-formed date, or none, is read to its end (logger.cpp:220).         *)
PatternEnds == back => \E p \in DOMAIN m_pattern : DateAt(p) /\ Brace < p

(* What an item may stand for, and what the first n of them may.           *)
Shown(x) ==
  IF x = <<"%", "d">> /\ (\E p \in DOMAIN m_pattern : DateAt(p))
    THEN {x, x \o <<Opening>> \o timeformater \o <<Closing>>} ELSE {x}
Joined(U, V) == {u \o v : u \in U, v \in V}
Texts[n \in 0 .. Len(logmsg)] ==
  IF n = 0 THEN {<<>>} ELSE Joined(Texts[n - 1], Shown(logmsg[n]))

(* At the end the items, and the format of the date after its own, are the *)
(* pattern, every character once and in order (logger.cpp:194).            *)
PatternKept == i > Len(m_pattern) /\ i > 1 => m_pattern \in Texts[Len(logmsg)]

(* w has what is at the places U of s, each once and in their order.       *)
TakenFrom(w, s, U) ==
  \E at \in [DOMAIN w -> U] :
    /\ \A x, y \in DOMAIN w : x < y => at[x] < at[y]
    /\ \A x \in DOMAIN w : w[x] = s[at[x]]
    /\ \A u \in U : \E x \in DOMAIN w : at[x] = u

(* With calls that do not overlap, the appenders are those that were added *)
(* and not deleted, as often as that and in order (logger.cpp:66, 71, 74); *)
(* a message is written by each that its level lets it pass to, once for   *)
(* each place it has and in order (logger.cpp:87); and there is one logger *)
(* for a name (logger.cpp:125, 137).  Only calls that overlap make anything*)
(* undefined.                                                              *)
LoggerKept ==
  /\ ~overlap /\ ~Busy({"del"}) => appenderVec = members
  /\ ~overlap => Cardinality(handles) <= 1 /\ ~undefined
  /\ \A t \in LogThread :
       ~overlap /\ lpc[t] = "log" /\ larg[t][1] > Len(appenderVec) =>
         TakenFrom(written[t], members,
                   {p \in DOMAIN members : m_level[members[p]] <= larg[t][2]})

(* The parser and the logger at once.                                      *)
LoggerSound == PatternEnds /\ PatternKept /\ LoggerKept
=============================================================================
