------------------------------- MODULE Logger -------------------------------
(* zLogger: which messages are shown and which are written, while other        *)
(* threads log and the levels are changed.  The levels are plain ints that     *)
(* nothing locks: a call reads them once before it formats its message and     *)
(* again for each use.  A written message goes to syslog (the file part of     *)
(* AddMsg2buf is commented out).                                               *)
EXTENDS Integers

CONSTANTS
    Threads,        \* they log
    MaxSets         \* bound: calls of setLevel

VARIABLES
    m_nWriteLvl, m_nShowLvl,
    setting,        \* setLevel between its two assignments: the show level to come, or NoLevel
    sets,           \* calls of setLevel so far, up to the bound
    calls           \* the call each thread is in or made last, with what it has shown and written

logVars == <<m_nWriteLvl, m_nShowLvl, setting, sets, calls>>

NoLevel == -9

\* The level of a zLevel; it is both its writelevel and its showlevel.
eLoggerLevel ==
    [FORCE |-> 0, FATAL |-> 1, ERROR |-> 2, ALARM |-> 2, WARN |-> 3, IFFY |-> 3,
     INFO |-> 4, TRACE |-> 4, DEBUG |-> 5, GBUG |-> 5]
zOFF == 251

\* What a setting is called in a configuration; anything else is read as a number.
strlevltoint ==
    [off |-> 0, fatal |-> 1, alarm |-> 2, error |-> 2, iffy |-> 3, warn |-> 3, warning |-> 3,
     trace |-> 4, info |-> 4, gbug |-> 5, debug |-> 5, all |-> 250, always |-> 250]

Settings == {"off", "fatal", "error", "warn", "all"}
Numbers == {-1, 6}

Apis == {"log", "error_out", "logbylevel", "realtimeLog", "forceLog"}

\* What each function compares the two settings with.
ShowNeeds(c) == IF c.api = "forceLog" THEN 0 ELSE c.level
WriteNeeds(c) == IF c.api \in {"forceLog", "realtimeLog"} THEN 0 ELSE c.level
Lets(c, w, s) == ShowNeeds(c) <= s \/ WriteNeeds(c) <= w

Idle == [pc |-> "idle", api |-> "log", level |-> 0, shown |-> FALSE, written |-> FALSE,
         said |-> FALSE, seen |-> {}]

InitLog ==
    /\ m_nShowLvl = 2 /\ m_nWriteLvl = -1
    /\ setting = NoLevel /\ sets = 0
    /\ calls = [t \in Threads |-> Idle]

\* The settings in force at some time during a call are kept with it.
Note(w, s) == [t \in Threads |-> [calls[t] EXCEPT !.seen = @ \cup {<<w, s>>}]]

-----------------------------------------------------------------------------
setLevel ==
    /\ setting = NoLevel /\ sets < MaxSets
    /\ \E w, s \in {strlevltoint[n] : n \in Settings} \cup Numbers :
          m_nWriteLvl' = w /\ setting' = s /\ calls' = Note(w, m_nShowLvl)
    /\ sets' = sets + 1
    /\ UNCHANGED m_nShowLvl

setLevelShow ==
    /\ setting # NoLevel
    /\ m_nShowLvl' = setting /\ setting' = NoLevel
    /\ calls' = Note(m_nWriteLvl, setting)
    /\ UNCHANGED <<m_nWriteLvl, sets>>

\* debug, error, info, ... and log look at the levels, then let logbylevel look again.
Call(t) ==
    /\ calls[t].pc = "idle"
    /\ \E api \in Apis, level \in {eLoggerLevel[n] : n \in DOMAIN eLoggerLevel} \cup {zOFF} :
          LET c == [Idle EXCEPT !.api = api, !.level = level, !.seen = {<<m_nWriteLvl, m_nShowLvl>>}]
          IN calls' = [calls EXCEPT ![t] =
                IF api = "error_out" => level = eLoggerLevel.ERROR
                THEN [c EXCEPT !.pc = CASE ~Lets(c, m_nWriteLvl, m_nShowLvl) -> "returned"
                                        [] Lets(c, m_nWriteLvl, m_nShowLvl)
                                             /\ api \in {"log", "error_out"} -> "logbylevel"
                                        [] OTHER -> "show",
                               !.said = Lets(c, m_nWriteLvl, m_nShowLvl)]
                ELSE calls[t]]
    /\ UNCHANGED <<m_nWriteLvl, m_nShowLvl, setting, sets>>

\* Its caller does not look at what it returns.
logbylevel(t) ==
    /\ calls[t].pc = "logbylevel"
    /\ calls' = [calls EXCEPT ![t].pc =
                    IF Lets(calls[t], m_nWriteLvl, m_nShowLvl) THEN "show" ELSE "returned"]
    /\ UNCHANGED <<m_nWriteLvl, m_nShowLvl, setting, sets>>

ShowLog(t) ==
    /\ calls[t].pc = "show"
    /\ calls' = [calls EXCEPT ![t].pc = "write", ![t].shown = ShowNeeds(calls[t]) <= m_nShowLvl]
    /\ UNCHANGED <<m_nWriteLvl, m_nShowLvl, setting, sets>>

\* A fault: the write level is not compared again.
WriteAll(t) ==
    /\ calls[t].pc = "write"
    /\ calls' = [calls EXCEPT ![t].pc = "returned", ![t].written = TRUE]
    /\ UNCHANGED <<m_nWriteLvl, m_nShowLvl, setting, sets>>

\* Now or through the buffer: AddMsg2buf hands the message to syslog at once.
WriteLog(t) ==
    /\ calls[t].pc = "write"
    /\ calls' = [calls EXCEPT ![t].pc = "returned", ![t].written = WriteNeeds(calls[t]) <= m_nWriteLvl]
    /\ UNCHANGED <<m_nWriteLvl, m_nShowLvl, setting, sets>>

Return(t) ==
    /\ calls[t].pc = "returned"
    /\ calls' = [calls EXCEPT ![t] = Idle]
    /\ UNCHANGED <<m_nWriteLvl, m_nShowLvl, setting, sets>>

NextLog ==
    \/ setLevel \/ setLevelShow
    \/ \E t \in Threads : Call(t) \/ logbylevel(t) \/ ShowLog(t) \/ WriteLog(t) \/ Return(t)

SpecLog == InitLog /\ [][NextLog]_logVars

-----------------------------------------------------------------------------
(* Properties.                                                               *)

\* A call that returns shows and writes its message as a setting in force during the call says,
\* and exactly as the setting says if it did not change; only when it changed may a call return
\* true for a message that went nowhere, and a call that returns false never sent one
\* (log and logbylevel read the levels one after the other, without a lock).
LevelsAgree ==
    \A t \in Threads : calls[t].pc = "returned" =>
        LET c == calls[t]
        IN /\ c.shown => \E p \in c.seen : ShowNeeds(c) <= p[2]
           /\ c.written => \E p \in c.seen : WriteNeeds(c) <= p[1]
           /\ (\A p \in c.seen : ShowNeeds(c) <= p[2]) => c.shown
           /\ (\A p \in c.seen : WriteNeeds(c) <= p[1]) => c.written
           /\ c.said # (c.shown \/ c.written) => c.said /\ \E p, q \in c.seen : p # q
=============================================================================
