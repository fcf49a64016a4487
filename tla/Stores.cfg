CONSTANTS
  nk = nk  nj = nj  ns = ns

  CfgThread = {t1, t2}
  Key = {nk, nj, ns}
  Rejected = {nj}
  Unlisted = {ns}
  CfgListener = {c1}
  Stored <- MCStored
  Unreadable = Unreadable
  Files <- MCFiles
  MaxVars = 2
  MaxCalls = 4
  MaxLoads = 2

  PatternChar = {"%", "d", "{", "}"}
  MaxPattern = 7
  LogThread = {t1, t2}
  Appender = {a1, a2}
  Level = {1, 2}
  MaxLogCalls = 6

  Queries <- MCQueries
  Bodies <- MCBodies
  CookieTexts <- MCCookieTexts
  Name <- MCName
  Given <- MCGiven
  MaxHttp = 7

  Char = {9, 32, 37, 38, 43, 50, 61, 97, 200}
  MaxText = 5

  Sign = {"n", "[", ":", "]"}
  MaxHost = 7
  Ports = {0, 80, 8033, 65535}

SPECIFICATION StoresSpec
CHECK_DEADLOCK FALSE
INVARIANTS ConfigHolds LoggerHolds HttpHolds TextHolds AddressHolds
