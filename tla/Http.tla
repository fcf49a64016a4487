--------------------------------- MODULE Http ---------------------------------
(***************************************************************************)
(* One http::HttpRequest (http.cpp): its query, body and headers, and the  *)
(* parameters and cookies parsed from them at the first look-up, which the *)
(* program may set and delete at any time.  Maps do not tell upper from    *)
(* lower case in their keys.                                               *)
(***************************************************************************)
EXTENDS Text

CONSTANTS
  Queries, Bodies, CookieTexts,  \* what is set as query, body and cookie
  Name, Given,                   \* names, in lower case, and values to set
  MaxHttp                        \* bound: changes of the request

Absent == <<-1>>

ASSUME HttpAssumption == Given # Absent /\ MaxHttp \in Nat

VARIABLES
  m_query, m_body,
  contentType,       \* header: "none", "form" for an urlencoded body, "other"
  cookieHeader,      \* header: a text, or Absent
  connection,        \* header: "none", "keep-alive" or "close"
  m_close, m_websocket,
  m_params, m_cookies,           \* values of Name, or Absent
  m_parserParamFlag,             \* what was parsed
  said,              \* ghost: the last the program said of a parameter
  sources,           \* ghost: the lists of pairs at the first look-up
  apart,             \* ghost: initQueryParam() or initBodyParam() on its own
  changes

headerVars == <<contentType, cookieHeader, connection>>
paramVars == <<m_params, m_cookies, m_parserParamFlag, said, sources, apart>>
httpVars == <<m_query, m_body, headerVars, m_close, m_websocket, paramVars, changes>>

HttpInit ==
  /\ m_query = <<>> /\ m_body = <<>>
  /\ contentType = "none" /\ cookieHeader = Absent /\ connection = "none"
  /\ m_close \in BOOLEAN /\ m_websocket = FALSE
  /\ m_params = [n \in Name |-> Absent] /\ m_cookies = [n \in Name |-> Absent]
  /\ m_parserParamFlag = {} /\ changes = 0
  /\ said = [n \in Name |-> "nothing"] /\ sources = <<>> /\ apart = FALSE

Changed == changes < MaxHttp /\ changes' = changes + 1

-----------------------------------------------------------------------------
Lower(s) == [i \in DOMAIN s |-> IF s[i] \in Letters(65) THEN s[i] + 32 ELSE s[i]]

(* Where pairs give a value to a name, and the first value they give.      *)
Named(pairs, n) == {p \in DOMAIN pairs : Lower(pairs[p][1]) = n}
FirstValue(pairs, n) ==
  IF Named(pairs, n) = {} THEN Absent ELSE pairs[First(Named(pairs, n))][2]

(* Mutant: a later pair replaces an earlier one.                           *)
Inserted_Over(map, pairs) ==
  [n \in Name |-> IF Named(pairs, n) = {} THEN map[n] ELSE pairs[Last(Named(pairs, n))][2]]

(* insert() leaves what is there.                                          *)
Inserted(map, pairs) ==
  [n \in Name |-> IF map[n] # Absent THEN map[n] ELSE FirstValue(pairs, n)]

QueryPairs == Pairs(m_query, Amp, FALSE)
BodyPairs == IF contentType = "form" THEN Pairs(m_body, Amp, FALSE) ELSE <<>>
CookiePairs == IF cookieHeader = Absent THEN <<>> ELSE Pairs(cookieHeader, 59, TRUE)

(* initQueryParam(), initBodyParam(), initCookies(): once each.            *)
Parsed(flag, map, pairs) == IF flag \in m_parserParamFlag THEN map ELSE Inserted(map, pairs)

InitParams(flags) ==
  /\ m_params' = LET q == IF "query" \in flags THEN Parsed("query", m_params, QueryPairs)
                          ELSE m_params
                 IN  IF "body" \in flags THEN Parsed("body", q, BodyPairs) ELSE q
  /\ m_cookies' = IF "cookies" \in flags THEN Parsed("cookies", m_cookies, CookiePairs)
                  ELSE m_cookies
  /\ m_parserParamFlag' = m_parserParamFlag \cup flags
  /\ sources' = IF sources = <<>> /\ {"query", "body"} \subseteq flags
                  THEN << <<QueryPairs, BodyPairs>> >> ELSE sources
  /\ apart' = (apart \/ (sources = <<>> /\ Cardinality(flags \cap {"query", "body"}) = 1))
  /\ UNCHANGED <<m_query, m_body, headerVars, m_close, m_websocket, said>>

(* getParam(), hasParam(), getParamAs() and checkGetParamAs(); the same of *)
(* cookies; initParam(); and the two that are public on their own.         *)
LookUpParam == Changed /\ InitParams({"query", "body"})
LookUpCookie == Changed /\ InitParams({"cookies"})
InitParam == Changed /\ InitParams({"query", "body", "cookies"})
InitOne == Changed /\ \E f \in {"query", "body"} : InitParams({f})

(* setQuery(), setBody(), and headers: setHeader() and delHeader().        *)
SetText ==
  /\ Changed
  /\ \/ m_query' \in Queries /\ UNCHANGED <<m_body, contentType, cookieHeader>>
     \/ m_body' \in Bodies /\ UNCHANGED <<m_query, contentType, cookieHeader>>
     \/ contentType' \in {"none", "form", "other"} /\ UNCHANGED <<m_query, m_body, cookieHeader>>
     \/ cookieHeader' \in CookieTexts /\ UNCHANGED <<m_query, m_body, contentType>>
  /\ UNCHANGED <<connection, m_close, m_websocket, paramVars>>

(* setParam() and delParam(); setParams() with an empty map deletes all.   *)
Say(names, v, word) ==
  /\ Changed
  /\ m_params' = [n \in Name |-> IF n \in names THEN v ELSE m_params[n]]
  /\ said' = [n \in Name |-> IF n \in names THEN word ELSE said[n]]
  /\ UNCHANGED <<m_query, m_body, headerVars, m_close, m_websocket, m_cookies,
                 m_parserParamFlag, sources, apart>>

SetParam == \E n \in Name : Say({n}, Given, "set")

(* Before the first look-up a deletion has nothing to delete but what was  *)
(* set, and the parser brings the name back.                               *)
Deleted == IF sources = <<>> THEN "nothing" ELSE "deleted"
DelParam == \E names \in {{n} : n \in Name} \cup {Name} : Say(names, Absent, Deleted)

(* setCookie() and delCookie().                                            *)
SetCookie ==
  /\ Changed
  /\ \E n \in Name, v \in {Given, Absent} : m_cookies' = [m_cookies EXCEPT ![n] = v]
  /\ UNCHANGED <<m_query, m_body, headerVars, m_close, m_websocket, m_params,
                 m_parserParamFlag, said, sources, apart>>

-----------------------------------------------------------------------------
(* init(): what a connection header asks for.                              *)
Asks(header, close) == IF header = "none" THEN close ELSE header # "keep-alive"

InitClose ==
  /\ Changed /\ m_close' = Asks(connection, m_close)
  /\ UNCHANGED <<m_query, m_body, headerVars, m_websocket, paramVars>>

(* setClose(), setWebsocket(), and the connection header.                  *)
SetConnection ==
  /\ Changed
  /\ \/ m_close' \in BOOLEAN /\ UNCHANGED <<m_websocket, connection>>
     \/ m_websocket' \in BOOLEAN /\ UNCHANGED <<m_close, connection>>
     \/ connection' \in {"none", "keep-alive", "close"} /\ UNCHANGED <<m_close, m_websocket>>
  /\ UNCHANGED <<m_query, m_body, contentType, cookieHeader, paramVars>>

(* The connection lines dump() writes, in order.                           *)
ConnectionLines ==
  IF ~m_websocket THEN << IF m_close THEN "close" ELSE "keep-alive" >>
  ELSE IF connection # "none" THEN <<connection>> ELSE <<>>

HttpNext ==
  \/ LookUpParam \/ LookUpCookie \/ InitParam \/ InitOne
  \/ SetText \/ SetParam \/ DelParam \/ SetCookie
  \/ InitClose \/ SetConnection

-----------------------------------------------------------------------------
(* After the first look-up a parameter is what the program said last, else *)
(* the first value in the query, else the first in the body, both as they  *)
(* were then, whatever is set, looked up or parsed later (http.cpp:79,     *)
(* 110, 212, 239); not so when body or query were parsed on their own.     *)
ParamsAsSaid ==
  \A n \in Name :
    /\ said[n] = "set" => m_params[n] = Given
    /\ said[n] = "deleted" => m_params[n] = Absent
    /\ sources # <<>> /\ ~apart /\ said[n] = "nothing" =>
         LET v == FirstValue(sources[1][1], n)
         IN  m_params[n] = IF v # Absent THEN v ELSE FirstValue(sources[1][2], n)

(* Who reads what dump() writes, and calls init(), closes as the sender    *)
(* does (http.cpp:176, 195).                                               *)
CloseAgrees ==
  ~m_websocket =>
    \A close \in BOOLEAN : Asks(ConnectionLines[Len(ConnectionLines)], close) = m_close

HttpSound == ParamsAsSaid /\ CloseAgrees
=============================================================================
