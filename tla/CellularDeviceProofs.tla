------------------------ MODULE CellularDeviceProofs ------------------------
(***************************************************************************)
(* The inductive invariant of CellularDevice, and what follows from it for *)
(* every ladder, every set of addresses and both link modes.               *)
(***************************************************************************)
EXTENDS CellularDevice, TLAPS

(* What the session's operators return.                                    *)
LEMMA SuspendFact ==
    ASSUME NEW s \in SessionType
    PROVE  /\ Suspend(s) \in SessionType
           /\ Suspend(s).suspended
           /\ s.suspended => Suspend(s) = s
           /\ ~s.suspended => /\ ~Suspend(s).had
                              /\ ~Suspend(s).connected
                              /\ ~Suspend(s).opening
           /\ (Suspend(s).configured <=> s.configured)
  BY DEF Suspend, SessionType

(* resume() lifts the suspension and leaves the session as it is.          *)
LEMMA ResumeFact ==
    ASSUME NEW s \in SessionType
    PROVE  /\ Resume(s) \in SessionType
           /\ ~Resume(s).suspended
           /\ (Resume(s).had <=> s.had)
           /\ (Resume(s).connected <=> s.connected)
           /\ (Resume(s).opening <=> s.opening)
           /\ (Resume(s).configured <=> s.configured)
  BY DEF Resume, SessionType

(* end() leaves a session neither configured nor up; a suspension stays.   *)
LEMMA EndFact ==
    ASSUME NEW s \in SessionType
    PROVE  /\ EndSession(s) \in SessionType /\ ~EndSession(s).configured
           /\ ~EndSession(s).had /\ ~EndSession(s).connected
           /\ ~EndSession(s).opening
           /\ (EndSession(s).suspended <=> s.suspended)
  BY DEF EndSession, SessionType

(* begin() lifts a suspension, too.                                        *)
LEMMA BeginFact ==
    ASSUME NEW s \in SessionType
    PROVE  /\ BeginSession(s) \in SessionType
           /\ BeginSession(s).configured /\ ~BeginSession(s).suspended
           /\ (BeginSession(s).had <=> s.had)
           /\ (BeginSession(s).connected <=> s.connected)
           /\ (BeginSession(s).opening <=> s.opening)
  BY DEF BeginSession, SessionType

(* What the link's operators return.                                       *)
LEMMA DownFact ==
    ASSUME NEW l \in LinkType, NEW to \in LinkStates
    PROVE  /\ Down(l, to) \in LinkType /\ Down(l, to).state = to
           /\ Down(l, to).pausedByFail /\ ~Down(l, to).leased
           /\ Down(l, to).redoPdp = l.redoPdp
           /\ Down(l, to).mqttFailures = l.mqttFailures
  BY ZenonT(60) DEF Down, LinkType

(* fail() takes the lease back, pauses the session and waits; the recovery *)
(* ladder stays where it was.                                              *)
LEMMA FailFact ==
    ASSUME NEW l \in LinkType
    PROVE  /\ Fail(l) \in LinkType /\ Fail(l).state = "Backoff"
           /\ Fail(l).pausedByFail /\ ~Fail(l).leased
           /\ Fail(l).redoPdp = l.redoPdp
           /\ Fail(l).mqttFailures = l.mqttFailures
  BY DownFact DEF Fail, LinkStates

(* A reset of the modem does, too, and starts the ladder again.            *)
LEMMA ResetFact ==
    ASSUME NEW l \in LinkType
    PROVE  /\ ResetModem(l) \in LinkType /\ ResetModem(l).state = "Settling"
           /\ ResetModem(l).pausedByFail /\ ~ResetModem(l).leased
           /\ ~ResetModem(l).redoPdp /\ ResetModem(l).mqttFailures = 0
  <1>1. PICK d \in LinkType : d = Down(l, "Settling") /\ d.state = "Settling"
                              /\ d.pausedByFail /\ ~d.leased
    BY DownFact DEF LinkStates
  <1>2. ResetModem(l) = [d EXCEPT !.mqttFailures = 0, !.redoPdp = FALSE,
                                  !.compareIp = FALSE]
    BY <1>1 DEF ResetModem
  <1>3. /\ ResetModem(l).state = d.state
        /\ (ResetModem(l).pausedByFail <=> d.pausedByFail)
        /\ (ResetModem(l).leased <=> d.leased)
        /\ ~ResetModem(l).redoPdp /\ ResetModem(l).mqttFailures = 0
    BY <1>2 DEF LinkType
  <1>4. ResetModem(l) \in LinkType
    <2>1. PICK e \in LinkType : e = [d EXCEPT !.mqttFailures = 0]
      <3> 0 \in 0..255
        OBVIOUS
      <3> QED
        BY DEF LinkType
    <2>2. ResetModem(l) = [e EXCEPT !.redoPdp = FALSE, !.compareIp = FALSE]
      BY <1>2, <2>1
    <2> QED
      BY <2>2 DEF LinkType
  <1> QED
    BY <1>1, <1>3, <1>4

(* A link that becomes ready no longer pauses the session.                 *)
LEMMA ReadyFact ==
    ASSUME NEW l \in LinkType, NEW ip \in Ips \cup {NoIp}
    PROVE  LET r == [l EXCEPT !.compareIp = FALSE, !.lastIp = ip,
                              !.state = "Ready", !.pausedByFail = FALSE]
           IN  r \in LinkType /\ ~r.pausedByFail
  <1> DEFINE a == [l EXCEPT !.compareIp = FALSE]
  <1> DEFINE b == [a EXCEPT !.lastIp = ip]
  <1> DEFINE c == [b EXCEPT !.state = "Ready"]
  <1> DEFINE d == [c EXCEPT !.pausedByFail = FALSE]
  <1>1. a \in LinkType
    BY DEF LinkType
  <1>2. b \in LinkType
    <2> HIDE DEF a
    <2> QED
      BY <1>1 DEF LinkType
  <1>3. c \in LinkType
    <2> HIDE DEF b
    <2> QED
      BY <1>2 DEF LinkType, LinkStates
  <1>4. d \in LinkType /\ ~d.pausedByFail
    <2> HIDE DEF c
    <2>1. d \in LinkType
      BY <1>3 DEF LinkType
    <2>2. d.pausedByFail = FALSE
      BY <1>3 DEF LinkType
    <2> QED
      BY <2>1, <2>2
  <1>5. d = [l EXCEPT !.compareIp = FALSE, !.lastIp = ip,
                      !.state = "Ready", !.pausedByFail = FALSE]
    OBVIOUS
  <1> QED
    BY <1>4, <1>5

(* A closed session: nothing on the modem, nothing on its way there.       *)
Off(s) == ~s.had /\ ~s.connected /\ ~s.opening

(* No session is up without a usable link, and none once it has been       *)
(* suspended or ended.                                                     *)
LEMMA OffFact ==
    ASSUME TypeOK, SessionInv
    PROVE  /\ ~Runs \/ ~Usable => Off(session)
           /\ Off(Suspend(session))
           /\ Off(Resume(Suspend(session)))
           /\ Off(EndSession(session))
  <1>1. session \in SessionType
    BY DEF TypeOK
  <1>2. ~Runs \/ ~Usable => Off(session)
    BY DEF SessionInv, Off
  <1>3. Off(Suspend(session))
    BY <1>1, <1>2, SuspendFact DEF Off, Runs
  <1>4. Off(Resume(Suspend(session)))
    BY <1>1, <1>3, SuspendFact, ResumeFact DEF Off
  <1>5. Off(EndSession(session))
    BY <1>1, EndFact DEF Off
  <1> QED
    BY <1>2, <1>3, <1>4, <1>5

-----------------------------------------------------------------------------
(* The link's own passes and the session's.                                *)

(* GsmLink::loop() keeps the invariant, in each of its states.             *)
LEMMA LinkLoopKeeps ==
    ASSUME IInv, GsmLoop
    PROVE  IInv'
  <1> USE DEF IInv
  <1>a. link \in LinkType /\ session \in SessionType /\ rebuilt \in BOOLEAN
    BY DEF TypeOK
  <1>0. /\ UNCHANGED <<bound, started, wasConnected, paused, ota, gsmOpen, wifiOpen>>
        /\ UNCHANGED <<modemWell, wifiUp, espConnected, subscribed>>
        /\ pc = "app" /\ pc' = "session"
    BY DEF GsmLoop, Step, loopVars, httpVars, envVars
  <1>1. ASSUME link.state # "Ready", link' \in LinkType, session' \in SessionType,
               rebuilt' \in BOOLEAN, ~link'.leased,
               link'.pausedByFail => ~Ready', link'.redoPdp => ~Ready',
               link'.mqttFailures < ResetModemAfter,
               link'.mqttFailures >= RedoPdpAfter => rebuilt' \/ link'.redoPdp,
               Off(session'), session'.suspended => link'.pausedByFail
        PROVE  IInv'
    <2>1. TypeOK'
      BY <1>0, <1>1 DEF TypeOK
    <2>2. ~gsmOpen
      BY <1>1 DEF LinkInv, Ready
    <2>3. LinkInv'
      BY <1>0, <1>1, <2>2 DEF LinkInv
    <2>4. SessionInv'
      BY <1>1 DEF SessionInv, SomeoneResumes, Off
    <2>5. GprsInv'
      BY <1>0, <2>2 DEF GprsInv
    <2> QED
      BY <2>1, <2>3, <2>4, <2>5
  <1>2. ASSUME link.state # "Ready"
        PROVE  ~link.leased /\ Off(session) /\ (session.suspended => link.pausedByFail)
    BY <1>2, OffFact DEF LinkInv, SessionInv, SomeoneResumes, Ready, Usable
  <1>3. ASSUME NEW from \in LinkStates, NEW to \in LinkStates,
               from # "Ready", to # "Ready", Enter(from, to)
        PROVE  IInv'
    <2>1. link' = [link EXCEPT !.state = to] /\ session' = session /\ rebuilt' = rebuilt
          /\ link.state = from
      BY <1>3 DEF Enter
    <2>2. /\ link' \in LinkType /\ link'.state = to
          /\ (link'.leased <=> link.leased) /\ (link'.pausedByFail <=> link.pausedByFail)
          /\ (link'.redoPdp <=> link.redoPdp) /\ link'.mqttFailures = link.mqttFailures
      BY <1>a, <2>1 DEF LinkType
    <2> QED
      BY <1>1, <1>2, <1>3, <1>a, <2>1, <2>2 DEF LinkInv, Ready
  <1>4. ASSUME link.state # "Ready", FailLink
        PROVE  IInv'
    <2>1. /\ link' \in LinkType /\ link'.state = "Backoff" /\ link'.pausedByFail
          /\ ~link'.leased /\ (link'.redoPdp <=> link.redoPdp)
          /\ link'.mqttFailures = link.mqttFailures
      BY <1>a, <1>4, FailFact DEF FailLink
    <2>2. session' = Suspend(session) /\ rebuilt' = rebuilt
      BY <1>4 DEF FailLink
    <2> QED
      BY <1>1, <1>4, <1>a, <2>1, <2>2, SuspendFact, OffFact DEF LinkInv, Ready
  <1>5. ASSUME link.state # "Ready", ResetLink
        PROVE  IInv'
    <2>1. /\ link' \in LinkType /\ link'.state = "Settling" /\ link'.pausedByFail
          /\ ~link'.leased /\ ~link'.redoPdp /\ link'.mqttFailures = 0
      BY <1>a, <1>5, ResetFact DEF ResetLink
    <2>2. session' = Suspend(session) /\ rebuilt' = FALSE
      BY <1>5 DEF ResetLink
    <2>3. session' \in SessionType /\ Off(session')
      BY <1>a, <2>2, SuspendFact, OffFact
    <2>4. link'.mqttFailures < ResetModemAfter /\ ~(link'.mqttFailures >= RedoPdpAfter)
      BY <2>1, LadderAssumption
    <2>5. ~Ready'
      BY <2>1 DEF Ready
    <2> QED
      BY <1>1, <1>5, <2>1, <2>2, <2>3, <2>4, <2>5
  <1>6. CASE ModemAnswers
    BY <1>6, <1>3 DEF ModemAnswers, LinkStates
  <1>7. CASE ModemInit
    BY <1>7, <1>3 DEF ModemInit, LinkStates
  <1>8. CASE Registered
    BY <1>8, <1>3 DEF Registered, LinkStates
  <1>9. CASE BackoffOver
    BY <1>9, <1>3 DEF BackoffOver, LinkStates
  <1>10. CASE ModemSilent
    BY <1>10, <1>4 DEF ModemSilent
  <1>11. CASE NotRegistered
    BY <1>11, <1>5 DEF NotRegistered
  <1>12. CASE NotAttached
    BY <1>12, <1>5 DEF NotAttached
  <1>13. CASE PdpUnchanged
    BY <1>13, <1>5 DEF PdpUnchanged
  <1>14. CASE RebuildPdp
    <2>1. /\ link' \in LinkType /\ link'.state = "Attaching" /\ link.state = "Attaching"
          /\ (link'.leased <=> link.leased) /\ (link'.pausedByFail <=> link.pausedByFail)
          /\ ~link'.redoPdp /\ link'.mqttFailures = link.mqttFailures
      BY ZenonT(60), <1>a, <1>14 DEF RebuildPdp, LinkType
    <2>2. session' = session /\ rebuilt' = TRUE
      BY <1>14 DEF RebuildPdp
    <2> QED
      BY <1>1, <1>2, <1>a, <2>1, <2>2 DEF LinkInv, Ready
  <1>15. CASE PdpUp
    <2>1. /\ link' \in LinkType /\ link.state = "Attaching"
          /\ (link'.leased <=> link.leased) /\ ~link'.pausedByFail
          /\ ~link.redoPdp /\ ~link'.redoPdp
          /\ link'.mqttFailures = link.mqttFailures
      <3>1. PICK ip \in Ips \cup {NoIp} :
                link' = [link EXCEPT !.compareIp = FALSE, !.lastIp = ip,
                                     !.state = "Ready", !.pausedByFail = FALSE]
        BY <1>15 DEF PdpUp
      <3>2. link.state = "Attaching" /\ ~link.redoPdp
        BY <1>15 DEF PdpUp
      <3>3. link' \in LinkType /\ ~link'.pausedByFail
        BY <1>a, <3>1, ReadyFact
      <3>4. /\ (link'.leased <=> link.leased) /\ (link'.redoPdp <=> link.redoPdp)
            /\ link'.mqttFailures = link.mqttFailures
        BY <1>a, <3>1 DEF LinkType
      <3> QED
        BY <3>2, <3>3, <3>4
    <2>2. rebuilt' = rebuilt /\ session' = GiveBackAfterFail(session)
      BY <1>15 DEF PdpUp
    <2>3. /\ GiveBackAfterFail(session) \in SessionType
          /\ ~GiveBackAfterFail(session).suspended
          /\ Off(GiveBackAfterFail(session))
      BY <1>a, <1>2, <2>1, ResumeFact DEF GiveBackAfterFail, Off, SessionType
    <2>4. session' \in SessionType /\ ~session'.suspended /\ Off(session')
      BY <2>2, <2>3 DEF Off, SessionType
    <2> QED
      BY <1>1, <1>2, <1>a, <2>1, <2>2, <2>4 DEF LinkInv, Ready
  <1>16. CASE LinkWaits
    <2>1. UNCHANGED <<link, session, rebuilt>>
      BY <1>16 DEF LinkWaits
    <2> QED
      BY <1>0, <2>1 DEF TypeOK, LinkInv, SessionInv, SomeoneResumes, GprsInv,
                        Ready, Runs, Usable
  <1> QED
    BY <1>6, <1>7, <1>8, <1>9, <1>10, <1>11, <1>12, <1>13, <1>14, <1>15, <1>16
    DEF GsmLoop, LinkLoop, LinkProgress

(* Counting a failure touches nothing but the count.                       *)
LEMMA CountedFact ==
    ASSUME NEW l \in LinkType
    PROVE  /\ Counted(l) \in LinkType /\ Counted(l).state = l.state
           /\ (Counted(l).leased <=> l.leased)
           /\ (Counted(l).pausedByFail <=> l.pausedByFail)
           /\ (Counted(l).redoPdp <=> l.redoPdp)
  BY DEF Counted, LinkType

(* A failure that escalates leaves the session suspended; one that does    *)
(* not leaves it to try again.                                             *)
LEMMA ReportKeeps ==
    ASSUME IInv, MayConnect, NEW s \in SessionType, ~s.suspended,
           Off(s), ReportTransportFailure(s)
    PROVE  /\ link' \in LinkType /\ session' \in SessionType /\ rebuilt' \in BOOLEAN
           /\ ~link'.leased /\ Off(session')
           /\ link'.pausedByFail => ~Ready'
           /\ link'.redoPdp => ~Ready'
           /\ link'.mqttFailures < ResetModemAfter
           /\ link'.mqttFailures >= RedoPdpAfter => rebuilt' \/ link'.redoPdp
           /\ session'.suspended => link'.pausedByFail
  <1> DEFINE l == Counted(link)
  <1>a. link \in LinkType /\ session \in SessionType /\ rebuilt \in BOOLEAN
    BY DEF IInv, TypeOK
  <1>b. /\ l \in LinkType /\ l.state = "Ready" /\ ~l.leased
        /\ ~l.pausedByFail /\ ~l.redoPdp /\ l.mqttFailures \in 0..255
    BY <1>a, CountedFact DEF IInv, LinkInv, MayConnect, Usable, Ready, LinkType
  <1>c. Suspend(s) \in SessionType /\ Off(Suspend(s))
    BY SuspendFact DEF Off
  <1>1. CASE ResetsModem(l) /\ link' = ResetModem(l) /\ session' = Suspend(s)
                /\ rebuilt' = FALSE
    <2>1. /\ link' \in LinkType /\ link'.state = "Settling" /\ link'.pausedByFail
          /\ ~link'.leased /\ ~link'.redoPdp /\ link'.mqttFailures = 0
      BY <1>1, <1>b, ResetFact
    <2>2. link'.mqttFailures < ResetModemAfter /\ ~(link'.mqttFailures >= RedoPdpAfter)
      BY <2>1, LadderAssumption
    <2>3. ~Ready'
      BY <2>1 DEF Ready
    <2> HIDE DEF l
    <2> QED
      BY <1>1, <1>c, <2>1, <2>2, <2>3
  <1>2. CASE RedoesPdp(l) /\ link' = [Fail(l) EXCEPT !.redoPdp = TRUE]
                /\ session' = Suspend(s) /\ UNCHANGED rebuilt
    <2>1. PICK f \in LinkType : /\ f = Fail(l) /\ f.state = "Backoff"
                                /\ f.pausedByFail /\ ~f.leased
                                /\ f.mqttFailures = l.mqttFailures
      BY <1>b, FailFact
    <2>2. link' = [f EXCEPT !.redoPdp = TRUE]
      BY <1>2, <2>1
    <2>3. /\ link' \in LinkType /\ link'.state = "Backoff" /\ link'.pausedByFail
          /\ ~link'.leased /\ link'.redoPdp /\ link'.mqttFailures = l.mqttFailures
      BY ZenonT(60), <2>1, <2>2 DEF LinkType
    <2>4. l.mqttFailures < ResetModemAfter
      BY <1>2, <1>b, LadderAssumption DEF RedoesPdp, ResetsModem
    <2> QED
      BY <1>2, <1>a, <1>c, <2>3, <2>4 DEF Ready
  <1>3. CASE ~ResetsModem(l) /\ ~RedoesPdp(l) /\ link' = l /\ session' = s
                /\ UNCHANGED rebuilt
    <2>1. l.mqttFailures < ResetModemAfter /\ ~(l.mqttFailures >= RedoPdpAfter)
      BY <1>3, <1>b, LadderAssumption DEF RedoesPdp, ResetsModem
    <2> QED
      BY <1>3, <1>a, <1>b, <2>1 DEF Ready
  <1> QED
    BY <1>1, <1>2, <1>3 DEF ReportTransportFailure, MayConnect

(* GsmMqttClient::loop() keeps it, whatever the broker answers.            *)
LEMMA SessionLoopKeeps ==
    ASSUME IInv, SessionLoop
    PROVE  IInv'
  <1>a. link \in LinkType /\ session \in SessionType /\ rebuilt \in BOOLEAN
    BY DEF IInv, TypeOK
  <1>0. /\ UNCHANGED <<bound, started, wasConnected, paused, ota, gsmOpen, wifiOpen>>
        /\ UNCHANGED <<modemWell, wifiUp, espConnected>>
        /\ pc = "session" /\ pc' = "bind"
    BY DEF SessionLoop, Step, loopVars, httpVars, envVars
  <1>1. ASSUME UNCHANGED <<link, rebuilt>>, subscribed' \in {"none", "asked", "missed"},
               session' \in SessionType, SessionInv'
        PROVE  IInv'
    BY <1>0, <1>1 DEF IInv, TypeOK, LinkInv, GprsInv, Ready
  <1>2. CASE SessionIdle
    <2>1. UNCHANGED <<link, session, rebuilt, subscribed>>
      BY <1>2 DEF SessionIdle
    <2> QED
      BY <1>1, <1>a, <2>1 DEF IInv, TypeOK, SessionInv, SomeoneResumes, Runs,
                              Usable, Ready
  <1>3. CASE SessionServes
    <2>1. /\ UNCHANGED <<link, rebuilt, subscribed>>
          /\ session' \in SessionType /\ session'.had
          /\ session.connected /\ Runs
          /\ (session'.connected <=> session.connected)
          /\ (session'.opening <=> session.opening)
          /\ (session'.configured <=> session.configured)
          /\ (session'.suspended <=> session.suspended)
      BY <1>3, <1>a DEF SessionServes, SessionType
    <2> QED
      BY <1>1, <2>1 DEF IInv, TypeOK, SessionInv, SomeoneResumes, Runs, Usable, Ready
  <1>4. CASE SessionLost
    <2>1. /\ UNCHANGED <<link, rebuilt, subscribed>>
          /\ session' \in SessionType /\ ~session'.had /\ ~session'.connected
          /\ session.had
          /\ (session'.opening <=> session.opening)
          /\ (session'.configured <=> session.configured)
          /\ (session'.suspended <=> session.suspended)
      BY <1>4, <1>a DEF SessionLost, SessionType
    <2> QED
      BY <1>1, <2>1 DEF IInv, TypeOK, SessionInv, SomeoneResumes, Runs, Usable, Ready
  <1>5. CASE SessionBlocked
    <2>1. /\ UNCHANGED <<link, rebuilt, subscribed>>
          /\ session' \in SessionType /\ ~session'.opening
          /\ (session'.had <=> session.had)
          /\ (session'.connected <=> session.connected)
          /\ (session'.configured <=> session.configured)
          /\ (session'.suspended <=> session.suspended)
      BY <1>5, <1>a DEF SessionBlocked, SessionType
    <2> QED
      BY <1>1, <2>1 DEF IInv, TypeOK, SessionInv, SomeoneResumes, Runs, Usable, Ready
  <1>6. CASE SessionWaits
    <2>1. UNCHANGED <<link, session, rebuilt, subscribed>>
      BY <1>6 DEF SessionWaits
    <2> QED
      BY <1>1, <1>a, <2>1 DEF IInv, TypeOK, SessionInv, SomeoneResumes, Runs,
                              Usable, Ready
  <1>7. CASE SessionOpening \/ SessionRefused
    <2>1. /\ UNCHANGED <<link, rebuilt, subscribed>> /\ MayConnect
          /\ session' \in SessionType
          /\ (session'.had <=> session.had)
          /\ (session'.connected <=> session.connected)
          /\ (session'.configured <=> session.configured)
          /\ (session'.suspended <=> session.suspended)
      BY <1>7, <1>a DEF SessionOpening, SessionRefused, SessionType
    <2> QED
      BY <1>1, <2>1 DEF IInv, TypeOK, SessionInv, SomeoneResumes, MayConnect,
                        Closed, Runs, Usable, Ready
  <1>8. CASE SessionConnects
    <2>1. /\ session' \in SessionType /\ session'.had /\ session'.connected
          /\ (session'.configured <=> session.configured)
          /\ (session'.suspended <=> session.suspended)
          /\ MayConnect /\ rebuilt' = FALSE
          /\ link' = [link EXCEPT !.mqttFailures = 0]
      BY <1>8, <1>a DEF SessionConnects, ReportConnected, SessionType
    <2>1a. subscribed' \in {"none", "asked", "missed"}
      BY <1>8 DEF SessionConnects, IInv, TypeOK
    <2>2. /\ link' \in LinkType /\ link'.mqttFailures = 0
          /\ link'.state = link.state /\ (link'.leased <=> link.leased)
          /\ (link'.pausedByFail <=> link.pausedByFail)
          /\ (link'.redoPdp <=> link.redoPdp)
      <3> 0 \in 0..255
        OBVIOUS
      <3> QED
        BY <1>a, <2>1 DEF LinkType
    <2>3. TypeOK'
      BY ZenonT(60), <1>0, <2>1, <2>1a, <2>2 DEF IInv, TypeOK
    <2>4. LinkInv'
      BY <1>0, <2>1, <2>2, LadderAssumption DEF IInv, LinkInv, Ready
    <2>5. SessionInv'
      BY <2>1, <2>2 DEF IInv, SessionInv, SomeoneResumes, MayConnect, Closed,
                        Runs, Usable, Ready
    <2> QED
      BY <1>0, <2>3, <2>4, <2>5 DEF IInv, GprsInv
  <1>9. CASE SessionFails
    <2> DEFINE s == [session EXCEPT !.opening = FALSE]
    <2>1. MayConnect /\ ReportTransportFailure(s) /\ UNCHANGED subscribed
      BY <1>9 DEF SessionFails
    <2>2. s \in SessionType /\ ~s.suspended /\ Off(s)
      BY <1>a, <2>1 DEF SessionType, Off, MayConnect, Closed, Runs
    <2> HIDE DEF s
    <2>3. /\ link' \in LinkType /\ session' \in SessionType /\ rebuilt' \in BOOLEAN
          /\ ~link'.leased /\ Off(session')
          /\ link'.pausedByFail => ~Ready'
          /\ link'.redoPdp => ~Ready'
          /\ link'.mqttFailures < ResetModemAfter
          /\ link'.mqttFailures >= RedoPdpAfter => rebuilt' \/ link'.redoPdp
          /\ session'.suspended => link'.pausedByFail
      BY <2>1, <2>2, ReportKeeps
    <2>4. ~gsmOpen
      BY <2>1 DEF MayConnect, Usable, IInv, LinkInv
    <2>5. TypeOK'
      BY <1>0, <2>1, <2>3 DEF IInv, TypeOK
    <2>6. LinkInv'
      BY <1>0, <2>3, <2>4 DEF LinkInv
    <2>7. SessionInv'
      BY <2>3 DEF SessionInv, SomeoneResumes, Off
    <2> QED
      BY <1>0, <2>4, <2>5, <2>6, <2>7 DEF IInv, GprsInv
  <1> QED
    BY <1>2, <1>3, <1>4, <1>5, <1>6, <1>7, <1>8, <1>9 DEF SessionLoop

-----------------------------------------------------------------------------
(* The steps of the device.                                                *)

(* A session that fits a link in the sense of SessionInv.                  *)
Fits(l, s) ==
    /\ s \in SessionType
    /\ (s.had <=> s.connected)
    /\ s.connected \/ s.opening =>
          s.configured /\ ~s.suspended /\ l.state = "Ready" /\ ~l.leased
    /\ s.suspended => l.leased \/ l.pausedByFail

(* A link that differs from this one in its lease at most.                 *)
Lent(l, lent) ==
    /\ l \in LinkType
    /\ l.state = link.state
    /\ (l.leased <=> lent)
    /\ (l.pausedByFail <=> link.pausedByFail)
    /\ (l.redoPdp <=> link.redoPdp)
    /\ l.mqttFailures = link.mqttFailures

(* Link and session as they are, in the words of Lent and Fits.            *)
LEMMA Here ==
    ASSUME IInv
    PROVE  Lent(link, gsmOpen) /\ Fits(link, session)
  BY DEF IInv, TypeOK, LinkInv, SessionInv, SomeoneResumes, Runs, Usable, Ready,
         Lent, Fits

(* Every step that leaves the ladder alone preserves the two invariants.   *)
LEMMA There ==
    ASSUME IInv, UNCHANGED rebuilt, gsmOpen' \in BOOLEAN,
           Lent(link', gsmOpen'), Fits(link', session'),
           gsmOpen' => link'.state = "Ready"
    PROVE  LinkInv' /\ SessionInv'
  <1>1. LinkInv'
    BY DEF IInv, LinkInv, Lent, Ready
  <1>2. SessionInv'
    BY DEF SessionInv, SomeoneResumes, Runs, Usable, Ready, Fits
  <1> QED
    BY <1>1, <1>2

(* bindTransports() keeps the invariant: it leaves behind what it had      *)
(* opened.                                                                 *)
LEMMA BindKeeps ==
    ASSUME IInv, BindTransports
    PROVE  IInv'
  <1>1. /\ UNCHANGED <<link, rebuilt, modemWell, wasConnected, paused, ota>>
        /\ UNCHANGED <<gsmOpen, wifiOpen, wifiUp, subscribed>>
        /\ pc' = "mqtt" /\ bound' = Wanted
        /\ started' = (started /\ bound = Wanted)
        /\ espConnected' = (espConnected /\ Wanted = "wifi")
        /\ session' = session \/ session' = EndSession(session)
    BY DEF BindTransports, Step, httpVars
  <1>2. Fits(link, EndSession(session))
    BY Here, EndFact DEF Fits
  <1>3. Lent(link', gsmOpen') /\ Fits(link', session') /\ gsmOpen' \in BOOLEAN
        /\ (gsmOpen' => link'.state = "Ready")
    BY <1>1, <1>2, Here DEF Lent, IInv, TypeOK, LinkInv, Ready
  <1>4. LinkInv' /\ SessionInv'
    BY <1>1, <1>3, There
  <1>5. TypeOK'
    BY <1>1, <1>3 DEF IInv, TypeOK, Wanted, Fits, Lent
  <1>6. GprsInv'
    BY <1>1 DEF IInv, GprsInv, Wanted
  <1> QED
    BY <1>4, <1>5, <1>6 DEF IInv

(* mqttStep() keeps it, whichever client is bound.                         *)
LEMMA MqttKeeps ==
    ASSUME IInv, MqttStep
    PROVE  IInv'
  <1>1. /\ UNCHANGED <<link, rebuilt, bound, paused, ota>>
        /\ UNCHANGED <<gsmOpen, wifiOpen, modemWell, wifiUp, espConnected>>
        /\ pc' = "ota"
    BY DEF MqttStep, Step, httpVars, envVars
  <1>2. session' = session \/ session' = BeginSession(session)
    BY DEF MqttStep
  <1>3. wasConnected' \in BOOLEAN /\ subscribed' \in {"none", "asked", "missed"} /\ started' \in BOOLEAN
    <2>1. Connected \in BOOLEAN
      BY DEF Connected, IInv, TypeOK, SessionType
    <2>2. CASE paused
      BY <2>2 DEF MqttStep, IInv, TypeOK
    <2>3. CASE ~paused
      BY <2>1, <2>3 DEF MqttStep, MqttEdges, Noted, IInv, TypeOK
    <2> QED
      BY <2>2, <2>3
  <1>4. Fits(link, BeginSession(session))
    BY Here, BeginFact DEF Fits
  <1>5. Lent(link', gsmOpen') /\ Fits(link', session') /\ gsmOpen' \in BOOLEAN
        /\ (gsmOpen' => link'.state = "Ready")
    BY <1>1, <1>2, <1>4, Here DEF Lent, IInv, TypeOK, LinkInv, Ready
  <1>6. LinkInv' /\ SessionInv'
    BY <1>1, <1>5, There
  <1>7. TypeOK'
    BY <1>1, <1>3, <1>5 DEF IInv, TypeOK, Fits, Lent
  <1>8. GprsInv'
    BY <1>1 DEF IInv, GprsInv
  <1> QED
    BY <1>6, <1>7, <1>8 DEF IInv

(* A request of the application gives back the lease it takes; the session *)
(* it suspended is not up when it returns.                                 *)
LEMMA AppHttpKeeps ==
    ASSUME IInv, AppHttp
    PROVE  IInv' /\ link' = link /\ ~session'.connected
  <1>1. /\ UNCHANGED <<link, rebuilt, pc, bound, started, wasConnected, paused, ota>>
        /\ UNCHANGED <<gsmOpen, wifiOpen, modemWell, wifiUp, espConnected>>
        /\ subscribed' \in {"none", "asked", "missed"}
        /\ session' = Resume(Suspend(session))
    BY DEF AppHttp, ReleaseSession, loopVars, httpVars, envVars, IInv, TypeOK
  <1>2. Suspend(session) \in SessionType /\ Off(Suspend(session))
    BY SuspendFact, OffFact DEF IInv, TypeOK
  <1>3. Fits(link, session') /\ ~session'.connected
    BY <1>1, <1>2, ResumeFact DEF Fits, Off
  <1>4. Lent(link', gsmOpen') /\ Fits(link', session') /\ gsmOpen' \in BOOLEAN
        /\ (gsmOpen' => link'.state = "Ready")
    BY <1>1, <1>3, Here DEF Lent, IInv, TypeOK, LinkInv, Ready
  <1>5. LinkInv' /\ SessionInv'
    BY <1>1, <1>4, There
  <1>6. TypeOK' /\ GprsInv'
    BY <1>1, <1>4 DEF IInv, TypeOK, GprsInv, Fits
  <1> QED
    BY <1>1, <1>3, <1>5, <1>6 DEF IInv

(* The end of a download gives the modem back with a closed session that   *)
(* runs again.                                                             *)
LEMMA EndedFact ==
    ASSUME IInv, NEW s, Fits(link, s)
    PROVE  /\ Lent(LinkEnded, gsmOpen /\ bound # "gsm")
           /\ Fits(LinkEnded, Ended(s))
           /\ Ended(s).connected => s.connected
  <1>a. link \in LinkType /\ (link.leased <=> gsmOpen) /\ s \in SessionType
    BY DEF IInv, TypeOK, LinkInv, Fits
  <1>1. CASE bound = "gsm" /\ gsmOpen
    <2>1. /\ LinkEnded \in LinkType /\ LinkEnded.state = link.state
          /\ ~LinkEnded.leased
          /\ (LinkEnded.pausedByFail <=> link.pausedByFail)
          /\ (LinkEnded.redoPdp <=> link.redoPdp)
          /\ LinkEnded.mqttFailures = link.mqttFailures
      BY ZenonT(60), <1>1, <1>a DEF LinkEnded, Release, LinkType
    <2>2. Ended(s) = Resume(s)
      BY <1>1, <1>a DEF Ended, ReleaseSession
    <2>3. ~s.connected /\ ~s.opening /\ ~s.had
      BY <1>1, <1>a DEF Fits
    <2> QED
      BY <1>1, <1>a, <2>1, <2>2, <2>3, ResumeFact DEF Lent, Fits
  <1>2. CASE ~(bound = "gsm" /\ gsmOpen)
    <2>1. LinkEnded = link /\ Ended(s) = s
      BY <1>2 DEF LinkEnded, Ended
    <2> QED
      BY <1>2, <2>1, Here DEF Lent
  <1> QED
    BY <1>1, <1>2

(* A session paused for a download fits the link.                          *)
LEMMA PausedFact ==
    ASSUME IInv
    PROVE  Fits(link, PausedSession) /\ (PausedSession.connected => session.connected)
  <1>1. Fits(link, EndSession(session)) /\ ~EndSession(session).connected
    BY Here, EndFact DEF Fits
  <1> QED
    BY <1>1, Here DEF PausedSession

(* What every step of an update does to the link and the session.          *)
OtaMoved ==
    /\ Lent(link', gsmOpen') /\ Fits(link', session')
    /\ gsmOpen' \in BOOLEAN /\ wifiOpen' \in BOOLEAN
    /\ gsmOpen' => link'.state = "Ready"
    /\ session'.connected => session.connected

(* Every branch of an update does no more than that.                       *)
LEMMA OtaMoves ==
    ASSUME IInv, OtaStep
    PROVE  OtaMoved
  <1>a. /\ link \in LinkType /\ gsmOpen \in BOOLEAN /\ wifiOpen \in BOOLEAN
        /\ gsmOpen => link.state = "Ready"
    BY DEF IInv, TypeOK, LinkInv, Ready
  <1>1. ASSUME UNCHANGED <<link, session, gsmOpen>>, wifiOpen' \in BOOLEAN
        PROVE  OtaMoved
    BY <1>1, <1>a, Here DEF OtaMoved, Lent
  <1>2. ASSUME EndStream
        PROVE  /\ gsmOpen' = (gsmOpen /\ bound # "gsm")
               /\ gsmOpen' \in BOOLEAN /\ wifiOpen' \in BOOLEAN
    BY <1>2 DEF EndStream
  <1>3. ASSUME EndDownload(session)
        PROVE  OtaMoved
    <2>1. link' = LinkEnded /\ session' = Ended(session) /\ EndStream
      BY <1>3 DEF EndDownload
    <2>2. /\ Lent(link', gsmOpen') /\ Fits(link', session')
          /\ session'.connected => session.connected
      BY <1>2, <2>1, Here, EndedFact
    <2> QED
      BY <1>2, <1>a, <2>1, <2>2 DEF OtaMoved, Lent
  <1>4. ASSUME NothingToDo \/ OrderWaits \/ OrderDropped \/ Chunk
        PROVE  OtaMoved
    <2>1. UNCHANGED <<link, session, gsmOpen, wifiOpen>>
      BY <1>4 DEF NothingToDo, OrderWaits, OrderDropped, Chunk, httpVars
    <2> QED
      BY <1>1, <1>a, <2>1
  <1>5. ASSUME NotFetchable \/ EndOfFile \/ DownloadFails
        PROVE  OtaMoved
    BY <1>3, <1>5 DEF NotFetchable, EndOfFile, DownloadFails
  <1> DEFINE p == Ended(PausedSession)
  <1>6. /\ Lent(LinkEnded, gsmOpen /\ bound # "gsm") /\ Fits(LinkEnded, p)
        /\ p.connected => session.connected
    BY PausedFact, EndedFact
  <1>7. p \in SessionType /\ LinkEnded \in LinkType
    BY <1>6 DEF Fits, Lent
  <1> HIDE DEF p
  <1>8. ASSUME LinkEnded.state = "Ready"
        PROVE  /\ Suspend(p) \in SessionType /\ Suspend(p).suspended /\ Off(Suspend(p))
    BY <1>6, <1>7, SuspendFact DEF Fits, Off
  <1>9. ASSUME StartDownload
        PROVE  OtaMoved
    <2>1. CASE bound = "gsm"
      <3>1. /\ MayAcquire(LinkEnded) /\ link' = Acquire(LinkEnded)
            /\ session' = Suspend(p) /\ gsmOpen' = TRUE /\ wifiOpen' = wifiOpen
        BY <1>9, <2>1 DEF StartDownload, p
      <3>2. /\ link' \in LinkType /\ link'.state = "Ready" /\ link'.leased
            /\ link'.state = LinkEnded.state
            /\ (link'.pausedByFail <=> LinkEnded.pausedByFail)
            /\ (link'.redoPdp <=> LinkEnded.redoPdp)
            /\ link'.mqttFailures = LinkEnded.mqttFailures
        BY <1>7, <3>1 DEF MayAcquire, Acquire, LinkType
      <3>3. Lent(link', gsmOpen')
        BY <1>6, <3>1, <3>2 DEF Lent
      <3>4. Fits(link', session') /\ ~session'.connected
        BY <1>8, <3>1, <3>2 DEF Fits, Off
      <3> QED
        BY <1>a, <3>1, <3>2, <3>3, <3>4 DEF OtaMoved
    <2>2. CASE bound # "gsm"
      <3>1. UNCHANGED <<link, session, gsmOpen>> /\ wifiOpen' = TRUE
        BY <1>9, <2>2 DEF StartDownload
      <3> QED
        BY <1>1, <3>1
    <2> QED
      BY <2>1, <2>2
  <1>10. ASSUME StartFails
         PROVE  OtaMoved
    <2>1. link' = LinkEnded /\ EndStream
      BY <1>10 DEF StartFails, OpenFails
    <2>2. CASE session' = p
      <3>1. Lent(link', gsmOpen') /\ Fits(link', session')
        BY <1>2, <1>6, <2>1, <2>2
      <3> QED
        BY <1>2, <1>6, <1>a, <2>1, <2>2, <3>1 DEF OtaMoved, Lent
    <2>3. CASE LinkEnded.state = "Ready" /\ session' = Resume(Suspend(p))
      <3>1. Fits(LinkEnded, session') /\ ~session'.connected
        BY <1>8, <2>3, ResumeFact DEF Fits, Off
      <3>2. Lent(link', gsmOpen') /\ Fits(link', session')
        BY <1>2, <1>6, <2>1, <3>1
      <3> QED
        BY <1>2, <1>a, <2>1, <2>3, <3>1, <3>2 DEF OtaMoved
    <2> QED
      BY <1>10, <2>2, <2>3 DEF StartFails, OpenFails, MayAcquire, ReleaseSession, p
  <1> QED
    BY <1>4, <1>5, <1>9, <1>10 DEF OtaStep

(* The types of what else an update changes.                               *)
LEMMA OtaTypes ==
    ASSUME IInv, OtaStep
    PROVE  /\ ota' \in {"none", "order", "downloading", "verifying"}
           /\ bound' = bound /\ pc' = "app"
           /\ started' \in BOOLEAN /\ wasConnected' \in BOOLEAN
           /\ paused' \in BOOLEAN /\ espConnected' \in BOOLEAN
           /\ subscribed' \in {"none", "asked", "missed"}
  <1>a. /\ started \in BOOLEAN /\ wasConnected \in BOOLEAN /\ paused \in BOOLEAN
        /\ espConnected \in BOOLEAN /\ subscribed \in {"none", "asked", "missed"}
        /\ ota \in {"none", "order", "downloading", "verifying"}
    BY DEF IInv, TypeOK
  <1>1. CASE StartDownload
    BY <1>1, <1>a, ModeAssumption DEF StartDownload, OtaStep, Step, Pauses, IInv, TypeOK
  <1>2. CASE StartFails
    BY <1>2, <1>a DEF StartFails, OpenFails, OtaStep, Step
  <1>3. CASE UNCHANGED <<espConnected, subscribed>> /\ (NothingToDo \/ Chunk)
    BY <1>3, <1>a DEF NothingToDo, Chunk, loopVars, OtaStep, Step
  <1>4. CASE /\ UNCHANGED <<espConnected, subscribed>>
             /\ \/ OrderWaits \/ OrderDropped \/ NotFetchable
                \/ EndOfFile \/ DownloadFails
    BY <1>4, <1>a DEF OrderWaits, OrderDropped, NotFetchable, EndOfFile,
                      DownloadFails, OtaStep, Step
  <1> QED
    BY <1>1, <1>2, <1>3, <1>4 DEF OtaStep

(* A step of an update keeps the invariant.                                *)
LEMMA OtaKeeps ==
    ASSUME IInv, OtaStep
    PROVE  IInv'
  <1>1. UNCHANGED <<rebuilt, modemWell, wifiUp>>
    BY DEF OtaStep
  <1>2. LinkInv' /\ SessionInv'
    BY <1>1, OtaMoves, There DEF OtaMoved
  <1>3. TypeOK'
    BY <1>1, OtaMoves, OtaTypes DEF OtaMoved, IInv, TypeOK, Lent, Fits
  <1>4. GprsInv'
    <2> SUFFICES ASSUME ~Both, gsmOpen' PROVE ota' = "downloading" /\ bound' = "gsm"
      BY DEF GprsInv
    <2>1. CASE StartDownload
      BY <2>1, OtaTypes DEF StartDownload, IInv, GprsInv, TypeOK
    <2>2. ASSUME ~StartDownload PROVE gsmOpen
      <3>1. ~EndStream => gsmOpen' = gsmOpen
        BY <2>2 DEF OtaStep, NothingToDo, OrderWaits, OrderDropped, NotFetchable,
                    EndOfFile, DownloadFails, EndDownload, StartFails, Chunk, httpVars
      <3> QED
        BY <3>1 DEF EndStream
    <2>3. CASE ~StartDownload
      <3>1. ota = "downloading" /\ bound = "gsm" /\ link.leased /\ ~session.connected
        BY <2>2, <2>3 DEF IInv, GprsInv, LinkInv, SessionInv, Usable
      <3>2. ~MayBegin /\ ~Hearing /\ ~EndStream
        BY <3>1 DEF MayBegin, Hearing, Connected, EndStream
      <3>3. Chunk
        BY <2>3, <3>1, <3>2 DEF OtaStep, NothingToDo, OrderWaits, OrderDropped,
           NotFetchable, EndOfFile, DownloadFails, EndDownload, StartFails,
           StartDownload
      <3> QED
        BY <3>1, <3>3 DEF Chunk, loopVars
    <2> QED
      BY <2>1, <2>3
  <1> QED
    BY <1>2, <1>3, <1>4 DEF IInv

(* A device that has just started.                                         *)
LEMMA NewFact ==
    /\ NewLink \in LinkType /\ NewLink.state = "Settling" /\ ~NewLink.leased
    /\ ~NewLink.pausedByFail /\ ~NewLink.redoPdp /\ NewLink.mqttFailures = 0
    /\ NewSession \in SessionType /\ Off(NewSession) /\ ~NewSession.suspended
  <1>1. 0 \in 0..255
    OBVIOUS
  <1>2. /\ NewLink \in LinkType /\ NewLink.state = "Settling" /\ ~NewLink.leased
        /\ ~NewLink.pausedByFail /\ ~NewLink.redoPdp /\ NewLink.mqttFailures = 0
    BY <1>1 DEF NewLink, LinkType, LinkStates
  <1>3. NewSession \in SessionType /\ Off(NewSession) /\ ~NewSession.suspended
    BY DEF NewSession, SessionType, Off
  <1> QED
    BY <1>2, <1>3

(* The restart into a new image does: nothing is leased after it.          *)
LEMMA AppliedKeeps ==
    ASSUME IInv, Applied
    PROVE  IInv'
  <1>1. /\ link' = NewLink /\ session' = NewSession /\ rebuilt' = FALSE
        /\ pc' = "app" /\ bound' = "wifi" /\ ota' = "none"
        /\ started' = FALSE /\ wasConnected' = FALSE /\ paused' = FALSE
        /\ gsmOpen' = FALSE /\ wifiOpen' = FALSE
        /\ espConnected' = FALSE /\ subscribed' = "none"
        /\ modemWell' = modemWell /\ wifiUp' = wifiUp
    BY DEF Applied
  <1>2. TypeOK'
    BY <1>1, NewFact DEF TypeOK, IInv
  <1>3. LinkInv'
    BY <1>1, NewFact, LadderAssumption DEF LinkInv
  <1>4. SessionInv' /\ GprsInv'
    BY <1>1, NewFact DEF SessionInv, SomeoneResumes, Off, GprsInv
  <1> QED
    BY <1>2, <1>3, <1>4 DEF IInv

(* The modem, WiFi and the other client change nothing the invariant       *)
(* speaks of, and neither does a stutter.                                  *)
LEMMA EnvironmentKeeps ==
    ASSUME IInv, ModemChanges \/ WifiChanges \/ EspChanges \/ UNCHANGED vars
    PROVE  IInv' /\ link' = link /\ session' = session
  <1>1. /\ UNCHANGED <<link, session, rebuilt, pc, bound, started, wasConnected>>
        /\ UNCHANGED <<paused, ota, gsmOpen, wifiOpen, subscribed>>
        /\ modemWell' \in BOOLEAN /\ wifiUp' \in BOOLEAN /\ espConnected' \in BOOLEAN
    BY DEF ModemChanges, WifiChanges, EspChanges, vars, linkVars, loopVars,
           httpVars, IInv, TypeOK
  <1> QED
    BY <1>1 DEF IInv, TypeOK, LinkInv, SessionInv, SomeoneResumes, GprsInv,
                Runs, Usable, Ready

(* The invariant is inductive.                                             *)
LEMMA StepKeeps ==
    ASSUME IInv, [Next]_vars
    PROVE  IInv'
  BY LinkLoopKeeps, SessionLoopKeeps, BindKeeps, MqttKeeps, OtaKeeps,
     AppliedKeeps, AppHttpKeeps, EnvironmentKeeps DEF Next, Pass

(* It holds at the start.                                                  *)
LEMMA InitHolds ==
    ASSUME Init
    PROVE  IInv
  <1>1. TypeOK
    BY NewFact DEF Init, TypeOK
  <1>2. LinkInv
    BY NewFact, LadderAssumption DEF Init, LinkInv
  <1>3. SessionInv /\ GprsInv
    BY NewFact DEF Init, SessionInv, SomeoneResumes, Off, GprsInv
  <1> QED
    BY <1>1, <1>2, <1>3 DEF IInv

-----------------------------------------------------------------------------
(* The theorems.                                                           *)

(* The invariant holds in every run of every device: a lease is an open    *)
(* download, a session on the modem has it to itself, no rung of the       *)
(* ladder is passed without being taken.                                   *)
THEOREM Inductive == Spec => []IInv
  <1>1. Init => IInv
    BY InitHolds
  <1>2. IInv /\ [Next]_vars => IInv'
    BY StepKeeps
  <1> QED
    BY <1>1, <1>2, PTL DEF Spec

(* suspend() is called by the lease and by a link going down, and keeps one*)
(* flag for both: a suspended session always has one of them left to       *)
(* resume it.                                                              *)
THEOREM SessionIsResumed == Spec => []SomeoneResumes
  <1>1. IInv => SomeoneResumes
    BY DEF IInv, SessionInv
  <1> QED
    BY <1>1, Inductive, PTL

(* On a device that has only the modem, acquireForHttp() is always matched *)
(* by releaseHttp(), failures included.                                    *)
THEOREM LeaseMatched ==
    ASSUME ~Both
    PROVE  Spec => []LeaseIsMatched
  <1>1. IInv => LeaseIsMatched
    BY DEF IInv, LinkInv, GprsInv, LeaseIsMatched
  <1> QED
    BY <1>1, Inductive, PTL

-----------------------------------------------------------------------------
(* The recovery ladder.                                                    *)

(* One failure counts once.                                                *)
LEMMA CountUp ==
    ASSUME NEW l \in LinkType
    PROVE  Counted(l).mqttFailures <= l.mqttFailures + 1
  <1>1. l.mqttFailures \in 0..255
    BY DEF LinkType
  <1>2. Counted(l).mqttFailures =
            IF l.mqttFailures < 255 THEN l.mqttFailures + 1 ELSE l.mqttFailures
    BY DEF Counted, LinkType
  <1> QED
    BY <1>1, <1>2

(* The modem is reset from a link that is up only by the last rung, and    *)
(* whoever is on the last rung has been on the one before.                 *)
LEMMA ResetFromReady ==
    ASSUME IInv, [Next]_vars, pc = "session", link.state = "Ready",
           link'.state = "Settling"
    PROVE  rebuilt
  <1>1. SessionLoop
    BY EnvironmentKeeps DEF Next, Pass, GsmLoop, BindTransports, MqttStep,
                            OtaStep, Applied, AppHttp, Step
  <1>a. link \in LinkType /\ link.mqttFailures \in 0..255 /\ ~link.redoPdp
    BY DEF IInv, TypeOK, LinkInv, Ready, LinkType
  <1>2. CASE link'.state = link.state
    BY <1>2
  <1>3. CASE SessionFails
    <2> DEFINE s == [session EXCEPT !.opening = FALSE]
    <2> DEFINE l == Counted(link)
    <2>1. ReportTransportFailure(s)
      BY <1>3 DEF SessionFails
    <2>2. l \in LinkType /\ l.state = "Ready"
      BY <1>a, CountedFact
    <2> HIDE DEF s
    <2>3. ~(link' = l /\ session' = s)
      BY <2>2
    <2>4. ASSUME link' = [Fail(l) EXCEPT !.redoPdp = TRUE] PROVE FALSE
      <3>1. PICK f \in LinkType : f = Fail(l) /\ f.state = "Backoff"
        BY <2>2, FailFact
      <3>2. link'.state = f.state
        BY <2>4, <3>1 DEF LinkType
      <3> QED
        BY <3>1, <3>2
    <2>5. ~UNCHANGED <<link, rebuilt>>
      OBVIOUS
    <2>6. ResetsModem(l)
      BY <2>1, <2>3, <2>4, <2>5 DEF ReportTransportFailure
    <2>7. link.mqttFailures >= RedoPdpAfter
      <3>1. l.mqttFailures \in 0..255 /\ l.mqttFailures >= ResetModemAfter
        BY <2>2, <2>6 DEF ResetsModem, LinkType
      <3>2. l.mqttFailures <= link.mqttFailures + 1
        BY <1>a, CountUp
      <3>3. ASSUME NEW a \in 0..255, NEW b \in 0..255, b >= ResetModemAfter, b <= a + 1
            PROVE  a >= RedoPdpAfter
        BY <3>3, LadderAssumption
      <3> HIDE DEF l
      <3> QED
        BY <1>a, <3>1, <3>2, <3>3
    <2> QED
      BY <1>a, <2>7 DEF IInv, LinkInv
  <1>4. CASE SessionConnects
    <2>1. link'.state = link.state
      BY <1>4, <1>a DEF SessionConnects, ReportConnected, LinkType
    <2> QED
      BY <2>1
  <1>5. CASE ~SessionFails /\ ~SessionConnects
    <2>1. link' = link
      BY <1>1, <1>5 DEF SessionLoop, SessionIdle, SessionServes, SessionLost,
         SessionBlocked, SessionWaits, SessionOpening, SessionRefused
    <2> QED
      BY <2>1
  <1> QED
    BY <1>3, <1>4, <1>5

(* reportMqttTransportFailure() resets the modem only when rebuilding the  *)
(* PDP since the last connection did not help, however failures of MQTT    *)
(* and of the link itself interleave.                                      *)
THEOREM LastResort == Spec => ResetIsLastResort
  <1>1. IInv /\ [Next]_vars =>
          [pc = "session" /\ link.state = "Ready" /\ link'.state = "Settling"
             => rebuilt]_vars
    BY ResetFromReady
  <1> QED
    BY <1>1, Inductive, PTL DEF Spec, ResetIsLastResort

-----------------------------------------------------------------------------
(* The refinement of the lease.                                            *)

LeaseStep == [Lease!Next \/ Applied]_(Lease!leaseVars)

(* A step of a link that stays as it is connects nothing, or nobody had it.*)
LEMMA SameState ==
    ASSUME IInv, IInv', link'.state = link.state,
           session'.connected => session.connected
    PROVE  LeaseStep
  <1>1. (Ready' <=> Ready) /\ (link'.leased => Ready) /\ (session.connected => ~link.leased)
    BY DEF IInv, LinkInv, SessionInv, Ready, Usable
  <1> QED
    BY <1>1 DEF LeaseStep, Lease!Next, Lease!leaseVars, Lease!TakeForHttp, Lease!GiveBack,
                Lease!CloseSession, Ready

(* A step with nothing leased and no session after it: the link comes up   *)
(* or goes down, the session ends, or nothing happens to the lease.        *)
LEMMA OtherState ==
    ASSUME IInv, ~link.leased, ~link'.leased, ~session'.connected
    PROVE  LeaseStep
  <1>1. session.connected => Ready
    BY DEF IInv, SessionInv, Usable
  <1> QED
    BY <1>1 DEF LeaseStep, Lease!Next, Lease!leaseVars, Lease!LinkComesUp,
                Lease!LinkGoesDown, Lease!CloseSession, Ready

(* GsmLink::loop() is a step of the lease.                                 *)
LEMMA LinkLoopRefines ==
    ASSUME IInv, IInv', GsmLoop
    PROVE  LeaseStep
  <1>1. CASE LinkWaits
    <2>1. link' = link /\ session' = session
      BY <1>1 DEF LinkWaits
    <2> QED
      BY <2>1, SameState
  <1>2. CASE ~LinkWaits
    <2>a. session \in SessionType /\ gsmOpen' = gsmOpen
      BY DEF IInv, TypeOK, GsmLoop, httpVars
    <2>1. link.state # "Ready"
      BY <1>2 DEF GsmLoop, LinkLoop, LinkProgress, ModemAnswers, ModemInit,
         Registered, RebuildPdp, PdpUnchanged, PdpUp, BackoffOver, ModemSilent,
         NotRegistered, NotAttached, Enter
    <2>2. ~link.leased /\ ~link'.leased /\ ~session.connected
      BY <2>a, <2>1 DEF IInv, LinkInv, SessionInv, Usable, Ready
    <2>3. ~Suspend(session).connected /\ ~Resume(session).connected
      BY <2>a, <2>2, SuspendFact, ResumeFact
    <2>4. CASE PdpUp
      <3>1. session' = GiveBackAfterFail(session)
        BY <2>4 DEF PdpUp
      <3>2. GiveBackAfterFail(session) \in SessionType /\ ~GiveBackAfterFail(session).connected
        BY <2>a, <2>2, <2>3, ResumeFact DEF GiveBackAfterFail
      <3>3. ~session'.connected
        BY <3>1, <3>2 DEF SessionType
      <3> QED
        BY <2>2, <3>3, OtherState
    <2>5. CASE ~PdpUp
      <3>1. session' = session \/ session' = Suspend(session)
        BY <1>2, <2>5 DEF GsmLoop, LinkLoop, LinkProgress, ModemAnswers, ModemInit,
           Registered, RebuildPdp, PdpUnchanged, BackoffOver, ModemSilent,
           NotRegistered, NotAttached, Enter, FailLink, ResetLink
      <3> QED
        BY <2>2, <2>3, <3>1, OtherState
    <2> QED
      BY <2>4, <2>5
  <1> QED
    BY <1>1, <1>2

(* GsmMqttClient::loop() connects only while nothing is leased.            *)
LEMMA SessionLoopRefines ==
    ASSUME IInv, IInv', SessionLoop
    PROVE  LeaseStep
  <1>a. /\ link \in LinkType /\ session \in SessionType /\ gsmOpen' = gsmOpen
        /\ (link.leased <=> gsmOpen) /\ (link'.leased <=> gsmOpen')
    BY DEF IInv, TypeOK, LinkInv, SessionLoop, httpVars
  <1>1. CASE SessionConnects
    <2>1. ~session.connected /\ Ready /\ ~link.leased
      BY <1>1 DEF SessionConnects, MayConnect, Closed, Usable
    <2>2. session'.connected /\ link'.state = link.state
      BY <1>1, <1>a DEF SessionConnects, ReportConnected, SessionType, LinkType
    <2> QED
      BY <1>a, <2>1, <2>2 DEF LeaseStep, Lease!Next, Lease!leaseVars, Lease!OpenSession, Ready
  <1>2. CASE SessionFails
    <2>1. ~link.leased /\ MayConnect
          /\ ReportTransportFailure([session EXCEPT !.opening = FALSE])
      BY <1>2 DEF SessionFails, MayConnect, Usable
    <2>2. PICK s \in SessionType : ~s.connected /\ ReportTransportFailure(s)
      <3> DEFINE s == [session EXCEPT !.opening = FALSE]
      <3>1. s \in SessionType /\ ~s.connected
        BY <1>a, <2>1 DEF SessionType, MayConnect, Closed
      <3> QED
        BY <2>1, <3>1
    <2>3. ~Suspend(s).connected
      BY <2>2, SuspendFact
    <2>4. session' = s \/ session' = Suspend(s)
      BY <2>2 DEF ReportTransportFailure
    <2> QED
      BY <1>a, <2>1, <2>2, <2>3, <2>4, OtherState
  <1>3. CASE ~SessionConnects /\ ~SessionFails
    <2>1. link' = link
      BY <1>3 DEF SessionLoop, SessionIdle, SessionServes, SessionLost,
         SessionBlocked, SessionWaits, SessionOpening, SessionRefused
    <2>2. session'.connected => session.connected
      BY <1>3, <1>a DEF SessionLoop, SessionIdle, SessionServes, SessionLost,
         SessionBlocked, SessionWaits, SessionOpening, SessionRefused, SessionType
    <2> QED
      BY <2>1, <2>2, SameState
  <1> QED
    BY <1>1, <1>2, <1>3

(* Every step of the device is a step of the lease, a stutter or a         *)
(* restart.                                                                *)
LEMMA StepRefines ==
    ASSUME IInv, [Next]_vars
    PROVE  LeaseStep
  <1>a. IInv' /\ session \in SessionType
    BY StepKeeps DEF IInv, TypeOK
  <1>1. CASE GsmLoop
    BY <1>1, <1>a, LinkLoopRefines
  <1>2. CASE SessionLoop
    BY <1>2, <1>a, SessionLoopRefines
  <1>3. CASE BindTransports
    <2>1. link' = link /\ (session'.connected => session.connected)
      BY <1>3, <1>a, EndFact DEF BindTransports
    <2> QED
      BY <1>a, <2>1, SameState
  <1>4. CASE MqttStep
    <2>1. link' = link /\ (session'.connected => session.connected)
      BY <1>4, <1>a, BeginFact DEF MqttStep
    <2> QED
      BY <1>a, <2>1, SameState
  <1>5. CASE OtaStep
    BY <1>5, <1>a, OtaMoves, SameState DEF OtaMoved, Lent
  <1>6. CASE Applied
    BY <1>6 DEF LeaseStep
  <1>7. CASE AppHttp
    BY <1>7, <1>a, AppHttpKeeps, SameState
  <1>8. CASE ModemChanges \/ WifiChanges \/ EspChanges \/ UNCHANGED vars
    BY <1>8, <1>a, EnvironmentKeeps, SameState
  <1> QED
    BY <1>1, <1>2, <1>3, <1>4, <1>5, <1>6, <1>7, <1>8 DEF Next, Pass

(* GsmLink, GsmHttpClient and GsmMqttClient together keep the promise of   *)
(* the lease: one user at a time, HTTP before MQTT, no link that goes down *)
(* under an exchange.                                                      *)
THEOREM Refinement == Spec => ImplementsLease
  <1>1. Init => Lease!Init
    BY NewFact DEF Init, Lease!Init, Ready, Off
  <1>2. IInv /\ [Next]_vars => [Lease!Next \/ Applied]_(Lease!leaseVars)
    BY StepRefines DEF LeaseStep
  <1> QED
    BY <1>1, <1>2, Inductive, PTL DEF Spec, ImplementsLease
-----------------------------------------------------------------------------
(* The topics, on a device with only the modem.                            *)

(* GsmLink::loop() brings no session up.                                   *)
LEMMA LinkLoopTopics ==
    ASSUME ~Both, IInv, TopicsInv, GsmLoop
    PROVE  TopicsInv'
  <1>a. session \in SessionType /\ BoundInv /\ EdgeInv
    BY DEF IInv, TypeOK, TopicsInv
  <1>0. /\ UNCHANGED <<bound, started, wasConnected, paused, subscribed>>
        /\ pc = "app" /\ pc' = "session"
    BY DEF GsmLoop, Step, loopVars
  <1>1. CASE link.state = "Ready"
    <2>1. link' = link /\ session' = session
      BY <1>1 DEF GsmLoop, LinkLoop, LinkProgress, ModemAnswers, ModemInit,
         Registered, RebuildPdp, PdpUnchanged, PdpUp, BackoffOver, ModemSilent,
         NotRegistered, NotAttached, Enter, LinkWaits
    <2> QED
      BY <1>a, <1>0, <2>1 DEF TopicsInv, BoundInv, EdgeInv
  <1>2. CASE link.state # "Ready"
    <2>1. ~session.connected /\ ~link.leased
      BY <1>2 DEF IInv, LinkInv, SessionInv, Usable, Ready
    <2>2. \/ session' = session \/ session' = Suspend(session)
          \/ session' = Resume(session)
      BY DEF GsmLoop, LinkLoop, LinkProgress, ModemAnswers, ModemInit,
         Registered, RebuildPdp, PdpUnchanged, PdpUp, BackoffOver, ModemSilent,
         NotRegistered, NotAttached, Enter, LinkWaits, FailLink, ResetLink,
         GiveBackAfterFail
    <2>3. ~session'.connected /\ (session'.configured <=> session.configured)
      BY <1>a, <2>1, <2>2, SuspendFact, ResumeFact
    <2> QED
      BY <1>a, <1>0, <2>1, <2>3 DEF TopicsInv, BoundInv, EdgeInv
  <1> QED
    BY <1>1, <1>2

(* A session comes up in the pass that sees the edge, or is missed.        *)
LEMMA SessionLoopTopics ==
    ASSUME ~Both, IInv, TopicsInv, SessionLoop
    PROVE  TopicsInv'
  <1>a. session \in SessionType /\ BoundInv /\ EdgeInv
    BY DEF IInv, TypeOK, TopicsInv
  <1>0. /\ UNCHANGED <<bound, started, wasConnected, paused>>
        /\ pc = "session" /\ pc' = "bind"
    BY DEF SessionLoop, Step, loopVars
  <1>1. CASE SessionConnects
    <2>1. /\ (session'.configured <=> session.configured)
          /\ ~session.connected /\ ~session.suspended /\ session.configured
          /\ subscribed' = IF subscribed = "missed" THEN subscribed ELSE "none"
      BY <1>1, <1>a DEF SessionConnects, MayConnect, Closed, Runs, SessionType
    <2> QED
      BY <1>a, <1>0, <2>1 DEF TopicsInv, BoundInv, EdgeInv
  <1>2. CASE ~SessionConnects
    <2>1. /\ (session'.configured <=> session.configured)
          /\ (session'.connected => session.connected)
          /\ subscribed' = subscribed
      <3>1. CASE SessionFails
        <4> DEFINE s == [session EXCEPT !.opening = FALSE]
        <4>1. /\ s \in SessionType /\ ~s.connected
              /\ (s.configured <=> session.configured)
          BY <1>a, <3>1 DEF SessionFails, MayConnect, Closed, SessionType
        <4>2. ReportTransportFailure(s) /\ subscribed' = subscribed
          BY <3>1 DEF SessionFails
        <4> HIDE DEF s
        <4>3. session' = s \/ session' = Suspend(s)
          BY <4>2 DEF ReportTransportFailure
        <4>4. ~Suspend(s).connected /\ (Suspend(s).configured <=> s.configured)
          BY <4>1, SuspendFact
        <4> QED
          BY <4>1, <4>2, <4>3, <4>4
      <3>2. CASE ~SessionFails
        BY <1>a, <1>2, <3>2 DEF SessionLoop, SessionIdle, SessionServes, SessionLost,
           SessionBlocked, SessionWaits, SessionOpening, SessionRefused, SessionType
      <3> QED
        BY <3>1, <3>2
    <2> QED
      BY <1>a, <1>0, <2>1 DEF TopicsInv, BoundInv, EdgeInv
  <1> QED
    BY <1>1, <1>2

(* With only the modem the clients bound never change.                     *)
LEMMA BindTopics ==
    ASSUME ~Both, IInv, TopicsInv, BindTransports
    PROVE  TopicsInv'
  <1>a. bound \in {"wifi", "gsm"} /\ BoundInv /\ EdgeInv
    BY DEF IInv, TypeOK, TopicsInv
  <1>1. /\ UNCHANGED <<link, wasConnected, paused, subscribed, session>>
        /\ pc = "bind" /\ pc' = "mqtt" /\ bound' = "gsm"
        /\ started' = (started /\ bound = "gsm")
    BY DEF BindTransports, Step, Wanted
  <1> QED
    BY <1>a, <1>1 DEF TopicsInv, BoundInv, EdgeInv

(* mqttStep() asks for the topics on the edge it sees.                     *)
LEMMA MqttTopics ==
    ASSUME ~Both, IInv, TopicsInv, MqttStep
    PROVE  TopicsInv'
  <1>a. session \in SessionType /\ BoundInv /\ EdgeInv
    BY DEF IInv, TypeOK, TopicsInv
  <1>0. /\ UNCHANGED <<link, bound, paused>> /\ pc = "mqtt" /\ pc' = "ota"
        /\ bound \in {"wifi", "gsm"} /\ paused \in BOOLEAN
        /\ started \in BOOLEAN /\ wasConnected \in BOOLEAN
    BY DEF MqttStep, Step, IInv, TypeOK
  <1>1. bound = "gsm" /\ (session.configured <=> started)
    BY <1>a, <1>0 DEF BoundInv
  <1>2. CASE paused
    <2>1. UNCHANGED <<wasConnected, subscribed, started, session>>
      BY <1>2 DEF MqttStep
    <2>2. ~session.connected /\ ~wasConnected
      BY <1>a, <1>1, <1>2 DEF BoundInv, IInv, SessionInv, Runs
    <2> QED
      BY <1>a, <1>0, <1>1, <2>1, <2>2 DEF TopicsInv, BoundInv, EdgeInv
  <1>3. CASE ~paused
    <2>1. PICK starts \in Starts :
             /\ started' = (started \/ starts)
             /\ session' = IF starts /\ bound = "gsm"
                           THEN BeginSession(session) ELSE session
      BY <1>3 DEF MqttStep
    <2>2. starts \in BOOLEAN
      BY <2>1, <1>0 DEF Starts, MayStart
    <2>3. /\ (session'.connected <=> session.connected)
          /\ (session'.configured <=> started')
      BY <1>a, <1>0, <1>1, <2>1, <2>2, BeginFact
    <2>4. /\ wasConnected' = session.connected
          /\ subscribed' = IF session.connected /\ ~wasConnected THEN "asked"
                           ELSE IF ~session.connected THEN "none" ELSE subscribed
      BY <1>1, <1>3 DEF MqttStep, MqttEdges, Noted, Connected
    <2> QED
      BY <1>a, <1>0, <1>1, <1>3, <2>3, <2>4 DEF TopicsInv, BoundInv, EdgeInv
  <1> QED
    BY <1>2, <1>3

(* A request between two passes hides an edge only by missing it.          *)
LEMMA AppHttpTopics ==
    ASSUME ~Both, IInv, TopicsInv, AppHttp
    PROVE  TopicsInv'
  <1>a. session \in SessionType /\ BoundInv /\ EdgeInv
    BY DEF IInv, TypeOK, TopicsInv
  <1>1. /\ UNCHANGED <<link, pc, bound, started, wasConnected, paused>>
        /\ pc = "app" /\ ~link.leased
        /\ session' = Resume(Suspend(session))
        /\ subscribed' = IF session.connected THEN "missed" ELSE subscribed
    BY DEF AppHttp, MayAcquire, ReleaseSession, loopVars
  <1>2. (session'.configured <=> session.configured) /\ ~session'.connected
    BY <1>a, <1>1, SuspendFact, ResumeFact, AppHttpKeeps
  <1> QED
    BY <1>a, <1>1, <1>2 DEF TopicsInv, BoundInv, EdgeInv

(* The session after pauseMqttForOta() is stopped if and only if mqttStep  *)
(* knows, and so it stays under the lease.                                 *)
LEMMA PausedTopics ==
    ASSUME ~Both, IInv, TopicsInv, bound = "gsm"
    PROVE  LET p == Ended(PausedSession) IN
           /\ p \in SessionType
           /\ (p.configured <=> started /\ ~Pauses)
           /\ (p.connected <=> session.connected /\ ~Pauses)
  <1>1. (session.configured <=> started) /\ session \in SessionType
    BY DEF TopicsInv, BoundInv, IInv, TypeOK
  <1>2. /\ PausedSession \in SessionType
        /\ (PausedSession.configured <=> started /\ ~Pauses)
        /\ (PausedSession.connected <=> session.connected /\ ~Pauses)
    BY <1>1, EndFact DEF PausedSession, Pauses
  <1>3. /\ Ended(PausedSession) = PausedSession
           \/ Ended(PausedSession) = Resume(PausedSession)
    BY DEF Ended, ReleaseSession
  <1> QED
    BY <1>2, <1>3, ResumeFact

(* A download takes the session down, and gives it back for a later pass   *)
(* to see, or for none.                                                    *)
LEMMA OtaTopics ==
    ASSUME ~Both, IInv, TopicsInv, OtaStep
    PROVE  TopicsInv'
  <1>a. /\ session \in SessionType /\ BoundInv /\ EdgeInv
        /\ link \in LinkType
        /\ started \in BOOLEAN /\ wasConnected \in BOOLEAN /\ paused \in BOOLEAN
    BY DEF IInv, TypeOK, TopicsInv
  <1>0. bound' = bound /\ bound = "gsm" /\ pc = "ota" /\ pc' = "app"
    BY <1>a, OtaTypes DEF OtaStep, Step, BoundInv, IInv, TypeOK
  <1>1. /\ (session.configured <=> started)
        /\ paused => ~started /\ ~wasConnected
        /\ wasConnected /\ ~session.connected => subscribed = "missed"
        /\ session.connected => subscribed # "none"
    BY <1>a, <1>0 DEF BoundInv, EdgeInv
  <1>2. ASSUME UNCHANGED <<started, wasConnected, subscribed>>,
               paused' = paused \/ paused' = FALSE,
               session' = session \/ session' = Resume(session)
        PROVE  TopicsInv'
    <2>1. /\ (session'.configured <=> session.configured)
          /\ (session'.connected <=> session.connected)
      BY <1>a, <1>2, ResumeFact
    <2> QED
      BY <1>0, <1>1, <1>2, <2>1 DEF TopicsInv, BoundInv, EdgeInv
  <1>3. CASE /\ UNCHANGED subscribed
             /\ \/ NothingToDo \/ OrderWaits \/ OrderDropped
                \/ NotFetchable \/ Chunk \/ EndOfFile \/ DownloadFails
    <2>1. /\ UNCHANGED <<started, wasConnected>>
          /\ paused' = paused \/ paused' = FALSE
          /\ session' = session \/ session' = Ended(session)
      BY <1>3 DEF NothingToDo, OrderWaits, OrderDropped, NotFetchable, Chunk,
                  EndOfFile, DownloadFails, EndDownload, loopVars
    <2>2. session' = session \/ session' = Resume(session)
      BY <2>1 DEF Ended, ReleaseSession
    <2> QED
      BY <1>2, <1>3, <2>1, <2>2
  <1> DEFINE p == Ended(PausedSession)
  <1>4. /\ p \in SessionType
        /\ (p.configured <=> started /\ ~Pauses)
        /\ (p.connected <=> session.connected /\ ~Pauses)
    BY <1>0, PausedTopics
  <1> HIDE DEF p
  <1>5. /\ (Suspend(p).configured <=> p.configured) /\ Suspend(p).suspended
        /\ Suspend(p) \in SessionType
    BY <1>4, SuspendFact
  <1>6. CASE StartDownload
    <2>1. /\ paused' = (paused \/ Pauses) /\ started' = (started /\ ~Pauses)
          /\ wasConnected' = (wasConnected /\ ~Pauses)
          /\ subscribed' = subscribed
          /\ MayAcquire(LinkEnded) /\ link' = Acquire(LinkEnded)
          /\ session' = Suspend(p)
      BY <1>0, <1>6 DEF StartDownload, p
    <2>2. link'.leased
      BY <1>a, <2>1 DEF Acquire, LinkEnded, Release, LinkType
    <2>3. ~session'.connected
      BY <1>6, <2>2, OtaKeeps DEF IInv, SessionInv, Usable
    <2> QED
      BY <1>0, <1>1, <1>4, <1>5, <2>1, <2>2, <2>3 DEF TopicsInv, BoundInv, EdgeInv
  <1>7. CASE StartFails
    <2>1. /\ paused' = FALSE /\ started' = (started /\ ~Pauses)
          /\ wasConnected' = (wasConnected /\ ~Pauses)
      BY <1>7 DEF StartFails
    <2>2. CASE session' = p /\ subscribed' = subscribed
      BY <1>0, <1>1, <1>4, <2>1, <2>2 DEF TopicsInv, BoundInv, EdgeInv
    <2>3. CASE /\ session' = Resume(Suspend(p)) /\ LinkEnded.state = "Ready"
               /\ subscribed' = IF p.connected THEN "missed" ELSE subscribed
      <3>1. /\ (session'.configured <=> p.configured)
            /\ (session'.connected <=> Suspend(p).connected)
        BY <1>5, <2>3, ResumeFact
      <3>2. ~Suspend(p).connected
        BY <1>4, SuspendFact, PausedFact, EndedFact DEF Fits, p
      <3> QED
        BY <1>0, <1>1, <1>4, <2>1, <2>3, <3>1, <3>2 DEF TopicsInv, BoundInv, EdgeInv
    <2>4. \/ session' = p /\ subscribed' = subscribed
          \/ OpenFails(LinkEnded, p)
      BY <1>7 DEF StartFails, p
    <2> QED
      BY <2>2, <2>3, <2>4 DEF OpenFails, MayAcquire, ReleaseSession
  <1> QED
    BY <1>3, <1>6, <1>7 DEF OtaStep

(* Every step keeps it.                                                    *)
LEMMA StepTopics ==
    ASSUME ~Both, IInv, TopicsInv, [Next]_vars
    PROVE  TopicsInv'
  <1>1. CASE Applied
    <2>1. /\ session' = NewSession /\ pc' = "app" /\ bound' = "wifi"
          /\ started' = FALSE /\ wasConnected' = FALSE /\ paused' = FALSE
      BY <1>1 DEF Applied
    <2> QED
      BY <2>1 DEF TopicsInv, BoundInv, EdgeInv, NewSession
  <1>2. CASE ModemChanges \/ WifiChanges \/ EspChanges \/ UNCHANGED vars
    <2>1. UNCHANGED <<link, session, pc, bound, started, wasConnected, paused, subscribed>>
      BY <1>2 DEF ModemChanges, WifiChanges, EspChanges, vars, linkVars, loopVars
    <2> QED
      BY <2>1 DEF TopicsInv, BoundInv, EdgeInv
  <1> QED
    BY <1>1, <1>2, LinkLoopTopics, SessionLoopTopics, BindTopics, MqttTopics,
       OtaTopics, AppHttpTopics DEF Next, Pass

(* Whatever took the session down - the link, the broker, a download, with *)
(* or without pauseMqttForOta() - a session that is up at the end of       *)
(* mqttStep has been asked for its topics since it was opened, or was      *)
(* closed by an HTTP exchange that mqttStep could not see.                 *)
THEOREM TopicsAsked == Spec => []TopicsAskedAgain
  <1>1. Init => TopicsInv
    BY DEF Init, TopicsInv, BoundInv, EdgeInv, NewSession
  <1>2. IInv /\ TopicsInv /\ [Next]_vars => TopicsInv'
    <2>1. CASE Both
      BY <2>1 DEF TopicsInv
    <2>2. CASE ~Both
      BY <2>2, StepTopics
    <2> QED
      BY <2>1, <2>2
  <1>3. TopicsInv => TopicsAskedAgain
    BY DEF TopicsInv, EdgeInv, TopicsAskedAgain
  <1> QED
    BY <1>1, <1>2, <1>3, Inductive, PTL DEF Spec
=============================================================================
