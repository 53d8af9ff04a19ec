--------------------------- MODULE StartupProofs ---------------------------
(***************************************************************************)
(* The network policy reaches every process its variable reaches and holds *)
(* there, for every set of processes.  And the launcher's command line,    *)
(* for every one there is: what holds of the network holds behind it; its  *)
(* options and its command are found where they stand; a wait limit is     *)
(* never lost in the DWORD product; and the tool reads the words it was    *)
(* meant to get.                                                           *)
(*                                                                         *)
(* The parser, the expansion of response files, the quoting and its        *)
(* reading are folds.  Each is an instance of FoldProofs, and the          *)
(* invariant of each says what has been made of the part seen so far.      *)
(***************************************************************************)
EXTENDS Startup, SequenceTheorems, TLAPS

-----------------------------------------------------------------------------
(* The network policy                                                      *)

\* A process that carried the variable still has it as the launcher set it and
\* read its policy from it; nothing happens before the launcher starts a tool.
Carried ==
    /\ \A p \in carried : /\ PolicyOf(env[p]) = Wanted
                          /\ g_policy[p] = Wanted
                          /\ life[p] # "unborn"
    /\ asked = "none" => carried = {} /\ \A p \in Procs : life[p] = "unborn"

NetInv ==
    /\ NetTypeOK /\ Carried
    /\ BlockedHasNoSocket /\ ContainedToLoopback /\ LoopbackStaysUsable

\* What the launcher and a parent do to a process: it reads the policy that
\* the value stands for, and nobody else is touched.
LEMMA AttachReads ==
    ASSUME NetTypeOK, NEW p \in Procs, NEW value \in EnvValues,
           InitializeAndAttachNetworkDetours(p, value)
    PROVE  /\ env' \in [Procs -> EnvValues] /\ g_policy' \in [Procs -> Policies]
           /\ g_attached' \in [Procs -> BOOLEAN]
           /\ env'[p] = value /\ g_policy'[p] = PolicyOf(value)
           /\ \A q \in Procs \ {p} : /\ env'[q] = env[q]
                                     /\ g_policy'[q] = g_policy[q]
                                     /\ g_attached'[q] = g_attached[q]
BY DEF NetTypeOK, InitializeAndAttachNetworkDetours, PolicyOf, Policies, EnvValues

LEMMA NetInitInv == NetInit => NetInv
BY RootAssumption DEF NetInit, NetInv, NetTypeOK, Carried, BlockedHasNoSocket,
   ContainedToLoopback, LoopbackStaysUsable, Policies, EnvValues, SocketStates,
   Calls, Quiet

LEMMA StartToolInv ==
    ASSUME NetInv, NEW policy \in Policies, StartTool(policy)
    PROVE  NetInv'
<1> DEFINE value == CASE policy = "LoopbackOnly" -> "loopback"
                      [] policy = "BlockAll" -> "block"
                      [] OTHER -> launcherEnv
<1>1. value \in EnvValues BY DEF NetInv, NetTypeOK, EnvValues
<1>2. /\ asked = "none" /\ asked' = policy
      /\ life' = [life EXCEPT ![Root] = "alive"] /\ carried' = {Root}
      /\ launcherEnv' = launcherEnv /\ socket' = socket /\ last' = Quiet
      /\ InitializeAndAttachNetworkDetours(Root, value)
  BY DEF StartTool
<1>3. NetTypeOK /\ Carried BY DEF NetInv
<1> HIDE DEF value
<1>4. /\ env' \in [Procs -> EnvValues] /\ g_policy' \in [Procs -> Policies]
      /\ g_attached' \in [Procs -> BOOLEAN]
      /\ env'[Root] = value /\ g_policy'[Root] = PolicyOf(value)
  BY <1>1, <1>2, <1>3, RootAssumption, AttachReads
<1>5. PolicyOf(value) = Wanted'
  <2>1. CASE policy = "Allow"
    BY <1>2, <2>1 DEF value, Wanted
  <2>2. CASE policy = "LoopbackOnly"
    BY <1>2, <2>2 DEF value, Wanted, PolicyOf
  <2>3. CASE policy = "BlockAll"
    BY <1>2, <2>3 DEF value, Wanted, PolicyOf
  <2> QED BY <2>1, <2>2, <2>3 DEF Policies
<1>6. \A p \in Procs : socket[p] = "none"
  BY <1>2, <1>3 DEF NetTypeOK, Carried
<1>7. NetTypeOK'
  BY <1>2, <1>3, <1>4, <1>6, RootAssumption DEF NetTypeOK, Quiet, Calls
<1>8. Carried'
  BY <1>2, <1>3, <1>4, <1>5, RootAssumption DEF Carried, NetTypeOK, Policies
<1>9. BlockedHasNoSocket' /\ ContainedToLoopback'
  BY <1>2, <1>6, RootAssumption DEF BlockedHasNoSocket, ContainedToLoopback
<1>10. LoopbackStaysUsable'
  BY <1>2 DEF LoopbackStaysUsable, Quiet
<1> QED BY <1>7, <1>8, <1>9, <1>10 DEF NetInv

LEMMA CreateProcessInv ==
    ASSUME NetInv, NEW p \in Procs, NEW c \in Procs, NEW value \in EnvValues,
           NEW inherit \in BOOLEAN, CreateProcess(p, c, value, inherit)
    PROVE  NetInv'
<1>1. /\ life[p] = "alive" /\ life[c] = "unborn"
      /\ life' = [life EXCEPT ![c] = "alive"]
      /\ carried' = IF p \in carried /\ value = env[p] THEN carried \cup {c} ELSE carried
      /\ socket' = [socket EXCEPT ![c] = IF inherit THEN socket[p] ELSE "none"]
      /\ last' = Quiet /\ asked' = asked /\ launcherEnv' = launcherEnv
      /\ InitializeAndAttachNetworkDetours(c, value)
  BY DEF CreateProcess
<1>2. NetTypeOK /\ Carried BY DEF NetInv
<1>3. /\ env' \in [Procs -> EnvValues] /\ g_policy' \in [Procs -> Policies]
      /\ g_attached' \in [Procs -> BOOLEAN]
      /\ env'[c] = value /\ g_policy'[c] = PolicyOf(value)
      /\ \A q \in Procs \ {c} : /\ env'[q] = env[q]
                                /\ g_policy'[q] = g_policy[q]
                                /\ g_attached'[q] = g_attached[q]
  BY <1>1, <1>2, AttachReads
<1>4. Wanted' = Wanted BY <1>1 DEF Wanted
<1>5. c \notin carried /\ c # p /\ carried \subseteq Procs
  BY <1>1, <1>2 DEF Carried, NetTypeOK
<1>6. NetTypeOK'
  BY <1>1, <1>2, <1>3, <1>5, RootAssumption DEF NetTypeOK, Quiet, Calls, SocketStates
<1>7. Carried'
  <2>1. asked' # "none" BY <1>1, <1>2 DEF Carried
  <2>2. ASSUME NEW q \in carried'
        PROVE  PolicyOf(env'[q]) = Wanted' /\ g_policy'[q] = Wanted' /\ life'[q] # "unborn"
    <3>1. CASE q = c
      <4>1. p \in carried /\ value = env[p] BY <1>1, <1>5, <3>1
      <4>2. PolicyOf(value) = Wanted BY <1>2, <4>1 DEF Carried
      <4> QED BY <1>1, <1>2, <1>3, <1>4, <3>1, <4>2 DEF NetTypeOK
    <3>2. CASE q # c
      BY <1>1, <1>2, <1>3, <1>4, <1>5, <3>2 DEF Carried, NetTypeOK
    <3> QED BY <3>1, <3>2
  <2> QED BY <2>1, <2>2 DEF Carried
<1>8. \A q \in carried' : \/ q \in carried /\ socket'[q] = socket[q]
                          \/ q = c /\ p \in carried /\ socket'[q] \in {"none", socket[p]}
  BY <1>1, <1>2, <1>5 DEF NetTypeOK
<1>9. BlockedHasNoSocket'
  BY <1>4, <1>8 DEF NetInv, BlockedHasNoSocket
<1>10. ContainedToLoopback'
  <2> SUFFICES ASSUME Wanted' = "LoopbackOnly", \A q \in carried' : g_attached'[q]
               PROVE  \A q \in carried' : socket'[q] # "outside"
    BY DEF ContainedToLoopback
  <2>1. \A q \in carried : g_attached[q] BY <1>1, <1>3, <1>5
  <2>2. \A q \in carried : socket[q] # "outside"
    BY <1>4, <2>1 DEF NetInv, ContainedToLoopback
  <2> QED BY <1>8, <2>2
<1>11. LoopbackStaysUsable'
  BY <1>1 DEF LoopbackStaysUsable, Quiet
<1> QED BY <1>6, <1>7, <1>9, <1>10, <1>11 DEF NetInv

\* A step that changes sockets and the last call only.
LEMMA CarriedStays ==
    ASSUME NetInv, UNCHANGED <<launcherEnv, asked, life, process>>
    PROVE  Carried' /\ Wanted' = Wanted
BY DEF NetInv, Carried, Wanted, process

LEMMA ExitProcessInv ==
    ASSUME NetInv, NEW p \in Procs, ExitProcess(p)
    PROVE  NetInv'
<1>1. Wanted' = Wanted BY DEF ExitProcess, Wanted
<1>2. NetTypeOK' BY DEF NetInv, NetTypeOK, ExitProcess, process, SocketStates
<1>3. Carried' 
  <2>1. asked # "none" BY DEF NetInv, Carried, ExitProcess
  <2> QED BY <1>1, <2>1 DEF NetInv, NetTypeOK, Carried, ExitProcess, process
<1>4. BlockedHasNoSocket' /\ ContainedToLoopback'
  BY <1>1 DEF NetInv, NetTypeOK, BlockedHasNoSocket, ContainedToLoopback, ExitProcess, process
<1>5. LoopbackStaysUsable'
  BY DEF NetInv, LoopbackStaysUsable, ExitProcess, process
<1> QED BY <1>2, <1>3, <1>4, <1>5 DEF NetInv

LEMMA OpenSocketInv ==
    ASSUME NetInv, NEW p \in Procs, OpenSocket(p)
    PROVE  NetInv'
<1>1. Carried' /\ Wanted' = Wanted BY CarriedStays DEF OpenSocket
<1>2. NetTypeOK'
  BY DEF NetInv, NetTypeOK, OpenSocket, Report, process, SocketStates, IsAllNetworkBlocked
<1>3. BlockedHasNoSocket'
  BY <1>1 DEF NetInv, NetTypeOK, Carried, BlockedHasNoSocket, OpenSocket,
     IsAllNetworkBlocked, process
<1>4. ContainedToLoopback'
  BY <1>1 DEF NetInv, NetTypeOK, ContainedToLoopback, OpenSocket, process
<1>5. LoopbackStaysUsable'
  BY DEF LoopbackStaysUsable, OpenSocket, Report, IsAllNetworkBlocked, process
<1> QED BY <1>1, <1>2, <1>3, <1>4, <1>5 DEF NetInv

LEMMA CloseSocketInv ==
    ASSUME NetInv, NEW p \in Procs, CloseSocket(p)
    PROVE  NetInv'
<1>1. Carried' /\ Wanted' = Wanted BY CarriedStays DEF CloseSocket
<1>2. NetTypeOK'
  BY DEF NetInv, NetTypeOK, CloseSocket, process, SocketStates
<1>3. BlockedHasNoSocket' /\ ContainedToLoopback'
  BY <1>1 DEF NetInv, NetTypeOK, BlockedHasNoSocket, ContainedToLoopback, CloseSocket, process
<1>4. LoopbackStaysUsable'
  BY DEF NetInv, LoopbackStaysUsable, CloseSocket, process
<1> QED BY <1>1, <1>2, <1>3, <1>4 DEF NetInv

\* A hooked call that is let through under -N stays on the machine.
LEMMA AllowedStaysInside ==
    ASSUME NEW p \in Procs, NEW a \in Addrs, g_policy[p] = "LoopbackOnly", a.len = "whole"
    PROVE  AddrAllowed(p, a) <=> Reaches(a) = "inside"
BY DEF AddrAllowed, IsLoopbackAddr, Reaches, Addrs

LEMMA CallWithAddressInv ==
    ASSUME NetInv, NEW p \in Procs, NEW call \in Calls, NEW a \in Addrs,
           CallWithAddress(p, call, a)
    PROVE  NetInv'
<1> DEFINE refused == g_attached[p] /\ ~AddrAllowed(p, a)
           given == a.len = "whole"
<1>1. /\ life[p] = "alive" /\ socket[p] # "none"
      /\ last' = [proc |-> p, act |-> call,
                  target |-> IF given THEN Reaches(a) ELSE "none", refused |-> refused]
      /\ socket' = IF ~refused /\ given /\ socket[p] # "outside"
                   THEN [socket EXCEPT ![p] = Reaches(a)] ELSE socket
      /\ UNCHANGED <<launcherEnv, asked, life, process>>
  BY DEF CallWithAddress, Report
<1>2. Carried' /\ Wanted' = Wanted BY <1>1, CarriedStays
<1>3. Reaches(a) \in {"inside", "outside"} BY DEF Reaches
<1>4. AddrAllowed(p, a) \in BOOLEAN
  BY DEF AddrAllowed, IsLoopbackAddr
<1>5. refused \in BOOLEAN /\ given \in BOOLEAN BY <1>4 DEF NetInv, NetTypeOK
<1>6. NetTypeOK /\ Carried BY DEF NetInv
<1>7. (g_policy[p] = "LoopbackOnly" /\ given) => (AddrAllowed(p, a) <=> Reaches(a) = "inside")
  BY AllowedStaysInside
<1>8. g_policy[p] = "LoopbackOnly" /\ refused => ~given \/ Reaches(a) # "inside"
  BY <1>7
<1>9. g_policy[p] = "LoopbackOnly" /\ g_attached[p] /\ ~refused /\ given => Reaches(a) = "inside"
  BY <1>7
<1> HIDE DEF refused, given
<1>10. NetTypeOK'
  BY <1>1, <1>3, <1>5, <1>6 DEF NetTypeOK, process, SocketStates
<1>11. BlockedHasNoSocket'
  BY <1>1, <1>2, <1>6 DEF NetInv, NetTypeOK, BlockedHasNoSocket, process
<1>12. ContainedToLoopback'
  <2> SUFFICES ASSUME Wanted' = "LoopbackOnly", \A q \in carried' : g_attached'[q],
                      NEW q \in carried'
               PROVE  socket'[q] # "outside"
    BY DEF ContainedToLoopback
  <2>1. q \in carried /\ q \in Procs /\ g_attached[q] /\ socket[q] # "outside"
    BY <1>1, <1>2, <1>6 DEF NetInv, NetTypeOK, ContainedToLoopback, process
  <2>2. g_policy[q] = "LoopbackOnly" BY <1>2, <1>6, <2>1 DEF Carried
  <2>3. CASE q = p BY <1>1, <1>3, <1>6, <1>9, <2>1, <2>2, <2>3 DEF NetTypeOK
  <2>4. CASE q # p BY <1>1, <1>6, <2>1, <2>4 DEF NetTypeOK
  <2> QED BY <2>3, <2>4
<1>13. LoopbackStaysUsable'
  BY <1>1, <1>8 DEF LoopbackStaysUsable, Calls, process
<1> QED BY <1>2, <1>10, <1>11, <1>12, <1>13 DEF NetInv

LEMMA ResolveNameInv ==
    ASSUME NetInv, NEW p \in Procs, NEW host \in Hosts, ResolveName(p, host)
    PROVE  NetInv'
<1>1. Carried' /\ Wanted' = Wanted BY CarriedStays DEF ResolveName
<1>2. NameResolutionAllowed(p, host) \in BOOLEAN
  BY DEF NameResolutionAllowed
<1>3. NetTypeOK'
  BY <1>2 DEF NetInv, NetTypeOK, ResolveName, Report, process
<1>4. BlockedHasNoSocket' /\ ContainedToLoopback'
  BY <1>1 DEF NetInv, BlockedHasNoSocket, ContainedToLoopback, ResolveName, process
<1>5. LoopbackStaysUsable'
  BY DEF LoopbackStaysUsable, ResolveName, Report, NameResolutionAllowed, Hosts, process
<1> QED BY <1>1, <1>3, <1>4, <1>5 DEF NetInv

LEMMA NetInvStep == NetInv /\ [NetNext]_netvars => NetInv'
<1> SUFFICES ASSUME NetInv, [NetNext]_netvars PROVE NetInv'
  OBVIOUS
<1>1. ASSUME NEW policy \in Policies, StartTool(policy) PROVE NetInv'
  BY <1>1, StartToolInv
<1>2. ASSUME NEW p \in Procs, NEW c \in Procs, NEW value \in EnvValues,
             NEW inherit \in BOOLEAN, CreateProcess(p, c, value, inherit)
      PROVE  NetInv'
  BY <1>2, CreateProcessInv
<1>3. ASSUME NEW p \in Procs, ExitProcess(p) \/ OpenSocket(p) \/ CloseSocket(p)
      PROVE  NetInv'
  BY <1>3, ExitProcessInv, OpenSocketInv, CloseSocketInv
<1>4. ASSUME NEW p \in Procs, NEW call \in Calls, NEW a \in Addrs,
             CallWithAddress(p, call, a)
      PROVE  NetInv'
  BY <1>4, CallWithAddressInv
<1>5. ASSUME NEW p \in Procs, NEW host \in Hosts, ResolveName(p, host) PROVE NetInv'
  BY <1>5, ResolveNameInv
<1>6. CASE UNCHANGED netvars
  BY <1>6 DEF NetInv, NetTypeOK, Carried, Wanted, BlockedHasNoSocket,
     ContainedToLoopback, LoopbackStaysUsable, netvars
<1> QED BY <1>1, <1>2, <1>3, <1>4, <1>5, <1>6 DEF NetNext, NetStep

LEMMA NetInvMeans == NetInv => PolicyPropagates
BY DEF NetInv, Carried, PolicyPropagates

\* The launcher's network policy holds in every process its environment
\* variable comes down to, for any number of processes: all of them read the
\* policy that was asked for (InitializeAndAttachNetworkDetours), none has a
\* socket under -n, and none gets outside under -N if hooking succeeded.
THEOREM NetworkPolicyHolds ==
    NetSpec => [](PolicyPropagates /\ BlockedHasNoSocket
                    /\ ContainedToLoopback /\ LoopbackStaysUsable)
<1>1. NetInv => PolicyPropagates /\ BlockedHasNoSocket
                  /\ ContainedToLoopback /\ LoopbackStaysUsable
  BY NetInvMeans DEF NetInv
<1> QED BY <1>1, NetInitInv, NetInvStep, PTL DEF NetSpec

-----------------------------------------------------------------------------
(* The network behind the command line                                     *)

LEMMA StartupInit == Init => NetInit
BY DEF Init

LEMMA StartupStep == [Next]_vars => [NetNext]_netvars
<1> SUFFICES ASSUME [Next]_vars PROVE [NetNext]_netvars
  OBVIOUS
<1>1. CASE Parse BY <1>1 DEF Parse
<1>2. CASE RefuseForeignMachine BY <1>2 DEF RefuseForeignMachine
<1>3. CASE Build BY <1>3 DEF Build
<1>4. CASE Launch
  <2>1. Policy(o.networkPolicy) \in Policies BY DEF Policy, Policies
  <2>2. StartTool(Policy(o.networkPolicy)) BY <1>4 DEF Launch
  <2> QED BY <2>1, <2>2 DEF NetNext
<1>5. CASE Run BY <1>5 DEF Run, NetNext
<1>6. CASE Ended BY <1>6 DEF Ended, vars
<1>7. CASE UNCHANGED vars BY <1>7 DEF vars
<1> QED BY <1>1, <1>2, <1>3, <1>4, <1>5, <1>6, <1>7 DEF Next

LEMMA StartupFollowsNetwork == Spec => NetSpec
BY StartupInit, StartupStep, PTL DEF Spec, NetSpec

\* Whatever the command line, the processes its policy variable comes down to
\* run under the policy that ParseOptions took from it.
THEOREM PolicyReachesTree == Spec => []PolicyPropagates
BY StartupFollowsNetwork, NetworkPolicyHolds, PTL

\* Behind -n none of them ever has a socket, hooks or no hooks.
THEOREM NoSocketBehindBlock == Spec => []BlockedHasNoSocket
BY StartupFollowsNetwork, NetworkPolicyHolds, PTL

\* Behind -N their sockets stay on the machine if all of them were hooked.
THEOREM LoopbackContains == Spec => []ContainedToLoopback
BY StartupFollowsNetwork, NetworkPolicyHolds, PTL

\* Behind -N nothing that stays on the machine is refused them.
THEOREM LoopbackUsable == Spec => []LoopbackStaysUsable
BY StartupFollowsNetwork, NetworkPolicyHolds, PTL

\* Of an even range an even product never leaves the odd INFINITE over: a
\* limit of any number of seconds stays a limit, and only 0 is none.
THEOREM LimitStaysLimit ==
    ASSUME NEW secs \in Nat
    PROVE  WaitMs(secs) = INFINITE <=> secs = 0
<1>1. CASE secs = 0 BY <1>1 DEF WaitMs
<1>2. CASE secs # 0
  <2> SUFFICES ASSUME (secs * MsPerSec) % Word = Word - 1 PROVE FALSE
    BY <1>2 DEF WaitMs, INFINITE
  <2> DEFINE product == secs * MsPerSec
  <2>1. Word \in Nat \ {0} /\ Word % 2 = 0 /\ MsPerSec \in Nat \ {0} /\ MsPerSec % 2 = 0
    BY CommandLineAssumption
  <2>2. PICK w \in Nat : Word = 2 * w BY <2>1
  <2>3. PICK m \in Nat : MsPerSec = 2 * m BY <2>1
  <2>4. product \in Nat /\ secs * m \in Nat /\ product = 2 * (secs * m)
    BY <2>3
  <2>5. PICK q \in Nat : product = Word * q + (Word - 1)
    <3> HIDE DEF product
    <3>1. product % Word = Word - 1 BY DEF product
    <3>2. product = Word * (product \div Word) + (product % Word) /\ product \div Word \in Nat
      BY <2>1, <2>4
    <3>3. product = Word * (product \div Word) + (Word - 1)
      BY <3>1, <3>2
    <3> QED BY <3>2, <3>3, Zenon
  <2> HIDE DEF product
  <2>6. q * w \in Nat /\ Word * q = 2 * (q * w) BY <2>2, <2>5
  <2>7. \A a, b \in Nat, c \in Nat : 2 * a # 2 * b + (2 * c - 1) OBVIOUS
  <2> QED BY <2>2, <2>4, <2>5, <2>6, <2>7
<1> QED BY <1>1, <1>2
-----------------------------------------------------------------------------
(* The words of the command line.                                          *)

\* Where the loop of ParseOptions starts.
ParseStart == [o |-> Defaults, pending |-> "none", command |-> FALSE]

ParsedOptions ==
    [failed : {FALSE}, networkPolicy : 0 .. 2, hermetic : BOOLEAN, filterInputs : BOOLEAN,
     writeOverlay : BOOLEAN, timeoutSecs : Nat, killDelaySecs : Nat, workingDir : STRING \cup {"current"},
     scopes : Seq(ValueOptions \X STRING), args : Seq(STRING)]

ParseStates ==
    [o : ParsedOptions \cup {Died}, pending : {"none"} \cup ValueOptions, command : BOOLEAN]

\* An option waits for its value after an odd number of them.
RunEnds(s, pending) ==
    \E j \in 1 .. Len(s) + 1 :
        RunOf(s, j, Len(s) + 1) /\ (pending # "none" <=> (Len(s) + 1 - j) % 2 = 1)

PolicyAsAsked(s, opts) ==
    /\ IsAsked(s, "-N") <=> opts.networkPolicy = 1
    /\ IsAsked(s, "-n") <=> opts.networkPolicy = 2

\* What has been made of the words read so far, unless the launcher gave up: before
\* the "--" of the command, and after it.
OptionsRead(s, st) ==
    st.o.args = << >> /\ RunEnds(s, st.pending) /\ PolicyAsAsked(s, st.o)

CommandRead(s, st) ==
    \E i \in 1 .. Len(s) :
        /\ s[i] = "--" /\ st.o.args = SubSeq(s, i + 1, Len(s))
        /\ PolicyAsAsked(SubSeq(s, 1, i), st.o)

ParseInv(s, st) ==
    /\ st \in ParseStates
    /\ ~st.o.failed => IF st.command THEN CommandRead(s, st) ELSE OptionsRead(s, st)

Loop == INSTANCE FoldProofs WITH Step <- ParseWord, Base <- ParseStart, Inv <- ParseInv

LEMMA LoopIsFold == ASSUME NEW s PROVE FoldLeft(ParseWord, ParseStart, s) = Loop!Fold(s)
BY DEF Loop!Fold, Loop!FoldLeft, Loop!MapThenFoldSet, FoldLeft, MapThenFoldSet, Max, Loop!Max

\* t is s and one member more.
OneMore(t, s, w) ==
    /\ Len(s) \in Nat /\ Len(t) = Len(s) + 1 /\ t[Len(s) + 1] = w
    /\ DOMAIN s = 1 .. Len(s) /\ DOMAIN t = 1 .. Len(s) + 1
    /\ \A i \in 1 .. Len(s) : t[i] = s[i]

LEMMA AppendIsOneMore ==
  ASSUME NEW U, NEW s \in Seq(U), NEW w \in U
  PROVE  OneMore(Append(s, w), s, w) /\ Append(s, w) \in Seq(U)
<1>1. /\ Append(s, w) \in Seq(U) /\ Len(Append(s, w)) = Len(s) + 1 /\ Len(s) \in Nat
      /\ Append(s, w)[Len(s) + 1] = w /\ DOMAIN s = 1 .. Len(s)
      /\ \A i \in 1 .. Len(s) : Append(s, w)[i] = s[i]
  OBVIOUS
<1>2. DOMAIN Append(s, w) = 1 .. Len(s) + 1
  BY <1>1
<1> QED
  BY <1>1, <1>2 DEF OneMore

LEMMA OneMoreIsAppend ==
  ASSUME NEW U, NEW s \in Seq(U), NEW w \in U, NEW t \in Seq(U), OneMore(t, s, w)
  PROVE  t = Append(s, w)
<1> DEFINE a == Append(s, w)
           n == Len(s)
<1>1. OneMore(a, s, w) /\ a \in Seq(U)
  BY AppendIsOneMore
<1> HIDE DEF a
<1>2. n \in Nat /\ Len(t) = n + 1 /\ Len(a) = n + 1 /\ \A i \in 1 .. n : t[i] = a[i]
  BY <1>1 DEF OneMore
<1>3. t[n + 1] = a[n + 1]
  BY <1>1 DEF OneMore
<1> HIDE DEF n
<1>4. \A i \in 1 .. n + 1 : i \in 1 .. n \/ i = n + 1
  BY <1>2
<1>5. \A i \in 1 .. Len(t) : t[i] = a[i]
  BY <1>2, <1>3, <1>4
<1>6. t = a
  BY <1>1, <1>2, <1>5, SeqEqual
<1> QED
  BY <1>6 DEF a

\* Two runs that end at one place start at one place.
LEMMA OneRun ==
  ASSUME NEW s, NEW i \in Nat, NEW h \in 1 .. i, NEW j \in 1 .. i,
         RunOf(s, h, i), RunOf(s, j, i)
  PROVE  h = j
<1>1. h < j => j - 1 \in h .. i - 1 /\ j > 1
  OBVIOUS
<1>2. j < h => h - 1 \in j .. i - 1 /\ h > 1
  OBVIOUS
<1>3. ~(h < j) /\ ~(j < h)
  BY <1>1, <1>2 DEF RunOf
<1> QED
  BY <1>3

\* A run depends on the words before its end only.
LEMMA RunStays ==
  ASSUME NEW t, NEW s, NEW w, OneMore(t, s, w), NEW i \in 1 .. Len(s) + 1,
         NEW j \in 1 .. i
  PROVE  RunOf(t, j, i) <=> RunOf(s, j, i)
<1>1. Len(s) \in Nat /\ \A k \in 1 .. Len(s) : t[k] = s[k]
  BY DEF OneMore
<1>2. /\ \A k \in j .. i - 1 : k \in 1 .. Len(s)
      /\ j > 1 => j - 1 \in 1 .. Len(s)
  BY <1>1
<1>3. /\ \A k \in j .. i - 1 : t[k] = s[k]
      /\ j > 1 => t[j - 1] = s[j - 1]
  BY <1>1, <1>2
<1> QED
  BY <1>3 DEF RunOf

LEMMA RunGoes ==
  ASSUME NEW t, NEW s, NEW w, OneMore(t, s, w), NEW pending \in {"none"} \cup ValueOptions,
         RunEnds(s, pending)
  PROVE  RunEnds(t, IF pending = "none" /\ w \in ValueOptions THEN w ELSE "none")
<1> DEFINE n == Len(s)
           next == IF pending = "none" /\ w \in ValueOptions THEN w ELSE "none"
<1>1. Len(t) = n + 1 /\ n \in Nat /\ t[n + 1] = w
  BY DEF OneMore
<1>2. PICK j \in 1 .. n + 1 : /\ RunOf(s, j, n + 1)
                              /\ pending # "none" <=> (n + 1 - j) % 2 = 1
  BY DEF RunEnds
<1>3. RunOf(t, j, n + 1)
  <2>1. n + 1 \in 1 .. n + 1 /\ j \in 1 .. n + 1
    BY <1>1
  <2> QED
    BY <1>2, <2>1, RunStays
<1> HIDE DEF n
<1>0. j \in Nat /\ j >= 1 /\ j <= n + 1
  BY <1>1
<1>4. SUFFICES \E h \in 1 .. n + 2 : RunOf(t, h, n + 2)
                                     /\ (next # "none" <=> (n + 2 - h) % 2 = 1)
  <2>1. Len(t) + 1 = n + 2
    BY <1>1
  <2> QED
    BY <1>1, <2>1 DEF RunEnds
<1>5. CASE w \notin ValueOptions
  <2>1. n + 2 \in 1 .. n + 2 /\ ~((n + 2 - (n + 2)) % 2 = 1) /\ next = "none"
    BY <1>1, <1>5
  <2>2. RunOf(t, n + 2, n + 2)
    <3>1. n + 2 - 1 = n + 1 /\ (n + 2) .. n + 1 = {}
      BY <1>1
    <3>2. \A k \in (n + 2) .. (n + 2 - 1) : t[k] \in ValueOptions
      BY <1>1
    <3>3. t[n + 2 - 1] \notin ValueOptions
      BY <1>1, <1>5, <3>1
    <3> QED
      BY <1>1, <3>1, <3>2, <3>3 DEF RunOf
  <2> QED
    BY <2>1, <2>2
<1>6. CASE w \in ValueOptions
  <2>1. j \in 1 .. n + 2
    BY <1>0, <1>1
  <2>2. RunOf(t, j, n + 2)
    <3>1. \A k \in j .. n + 2 - 1 : k \in j .. n + 1 - 1 \/ k = n + 1
      BY <1>0, <1>1
    <3>2. \A k \in j .. n + 2 - 1 : t[k] \in ValueOptions
      BY <1>1, <1>3, <1>6, <3>1 DEF RunOf
    <3> QED
      BY <1>1, <1>3, <3>2 DEF RunOf
  <2>3. (n + 2 - j) % 2 = 1 <=> ~((n + 1 - j) % 2 = 1)
    BY <1>0, <1>1
  <2>4. next # "none" <=> pending = "none"
    BY <1>6 DEF ValueOptions
  <2> QED
    BY <1>2, <2>1, <2>2, <2>3, <2>4
<1> QED
  BY <1>5, <1>6

\* Whether a word is a value is a matter of the words before it.
LEMMA ValueGoes ==
  ASSUME NEW t, NEW s, NEW w, OneMore(t, s, w), NEW i \in 1 .. Len(s) + 1
  PROVE  IsValue(t, i) <=> IsValue(s, i)
<1>1. Len(s) \in Nat /\ \A j \in 1 .. i - 1 : j \in 1 .. i
  BY DEF OneMore
<1>2. \A j \in 1 .. i - 1 : RunOf(t, j, i) <=> RunOf(s, j, i)
  BY <1>1, RunStays
<1> QED
  BY <1>2 DEF IsValue

LEMMA ValueIsNext ==
  ASSUME NEW s, Len(s) \in Nat, NEW pending, RunEnds(s, pending)
  PROVE  IsValue(s, Len(s) + 1) <=> pending # "none"
<1> DEFINE i == Len(s) + 1
<1>1. i \in Nat /\ i # 0
  OBVIOUS
<1>2. PICK j \in 1 .. i : RunOf(s, j, i) /\ (pending # "none" <=> (i - j) % 2 = 1)
  BY DEF RunEnds
<1> HIDE DEF i
<1>3. \A h \in 1 .. i - 1 : h \in 1 .. i
  BY <1>1
<1>4. \A h \in 1 .. i - 1 : RunOf(s, h, i) => h = j
  BY <1>1, <1>2, <1>3, OneRun
<1>5. (i - j) % 2 = 1 => j \in 1 .. i - 1
  BY <1>1
<1>6. IsValue(s, i) <=> (i - j) % 2 = 1
  BY <1>2, <1>4, <1>5 DEF IsValue
<1> QED
  BY <1>2, <1>6 DEF i

LEMMA AskedGoes ==
  ASSUME NEW t, NEW s, NEW w, OneMore(t, s, w), NEW pending, RunEnds(s, pending),
         NEW flag
  PROVE  IsAsked(t, flag) <=> IsAsked(s, flag) \/ (w = flag /\ pending = "none")
<1> DEFINE n == Len(s)
<1>1. /\ DOMAIN t = 1 .. n + 1 /\ DOMAIN s = 1 .. n /\ n \in Nat /\ t[n + 1] = w
      /\ \A i \in 1 .. n : t[i] = s[i]
  BY DEF OneMore
<1>2. \A i \in 1 .. n + 1 : IsValue(t, i) <=> IsValue(s, i)
  BY ValueGoes
<1>3. IsValue(s, n + 1) <=> pending # "none"
  BY <1>1, ValueIsNext
<1> HIDE DEF n
<1>4. \A i \in 1 .. n + 1 : i \in 1 .. n \/ i = n + 1
  BY <1>1
<1>5. (\A i \in 1 .. n : i \in 1 .. n + 1) /\ n + 1 \in 1 .. n + 1
  BY <1>1
<1>6. IsAsked(t, flag) <=> \/ \E i \in 1 .. n : s[i] = flag /\ ~IsValue(s, i)
                           \/ w = flag /\ pending = "none"
  BY <1>1, <1>2, <1>3, <1>4, <1>5 DEF IsAsked
<1> QED
  BY <1>1, <1>6 DEF IsAsked


LEMMA PolicyIsSet ==
  ASSUME NEW p \in ParsedOptions, NEW v \in 0 .. 2,
         NEW q, q = [p EXCEPT !.networkPolicy = v]
  PROVE  q \in ParsedOptions /\ q.args = p.args /\ q.networkPolicy = v
<1>1. q \in ParsedOptions
  BY DEF ParsedOptions
<1>2. q.args = p.args
  BY DEF ParsedOptions
<1>3. q.networkPolicy = v
  BY DEF ParsedOptions
<1> QED
  BY <1>1, <1>2, <1>3

LEMMA SwitchMeans ==
  ASSUME NEW p \in ParsedOptions, NEW w \in Switches
  PROVE  \/ Switch(p, w) = Died
         \/ /\ Switch(p, w) \in ParsedOptions /\ Switch(p, w).args = p.args
            /\ Switch(p, w).networkPolicy = 1 <=> p.networkPolicy = 1 \/ w = "-N"
            /\ Switch(p, w).networkPolicy = 2 <=> p.networkPolicy = 2 \/ w = "-n"
<1>1. CASE w = "-N"
  <2>1. CASE p.networkPolicy = 2
    <3>1. Switch(p, w) = Died
      BY <1>1, <2>1 DEF Switch
    <3> QED
      BY <3>1
  <2>2. CASE p.networkPolicy # 2
    <3>1. Switch(p, w) = [p EXCEPT !.networkPolicy = 1]
      BY <1>1, <2>2 DEF Switch
    <3>2. /\ Switch(p, w) \in ParsedOptions /\ Switch(p, w).args = p.args
          /\ Switch(p, w).networkPolicy = 1
      <4>1. 1 \in 0 .. 2
        OBVIOUS
      <4> QED
        BY <3>1, <4>1, PolicyIsSet
    <3> QED
      BY <1>1, <2>2, <3>1, <3>2
  <2> QED
    BY <2>1, <2>2
<1>2. CASE w = "-n"
  <2>1. CASE p.networkPolicy = 1
    <3>1. Switch(p, w) = Died
      BY <1>2, <2>1 DEF Switch
    <3> QED
      BY <3>1
  <2>2. CASE p.networkPolicy # 1
    <3>1. Switch(p, w) = [p EXCEPT !.networkPolicy = 2]
      BY <1>2, <2>2 DEF Switch
    <3>2. /\ Switch(p, w) \in ParsedOptions /\ Switch(p, w).args = p.args
          /\ Switch(p, w).networkPolicy = 2
      <4>1. 2 \in 0 .. 2
        OBVIOUS
      <4> QED
        BY <3>1, <4>1, PolicyIsSet
    <3> QED
      BY <1>2, <2>2, <3>1, <3>2
  <2> QED
    BY <2>1, <2>2
<1>3. CASE w = "-H"
  BY <1>3 DEF Switch, ParsedOptions
<1>4. CASE w = "--filter-inputs"
  BY <1>4 DEF Switch, ParsedOptions
<1>5. CASE w = "--write-overlay"
  BY <1>5 DEF Switch, ParsedOptions
<1> QED
  BY <1>1, <1>2, <1>3, <1>4, <1>5 DEF Switches

LEMMA ValuedMeans ==
  ASSUME NEW p \in ParsedOptions, NEW name \in ValueOptions, NEW w \in STRING
  PROVE  /\ Valued(p, name, w) \in ParsedOptions /\ Valued(p, name, w).args = p.args
         /\ Valued(p, name, w).networkPolicy = p.networkPolicy
<1>1. ParseUint(w) \in Nat
  BY CommandLineAssumption DEF ParseUint
<1>2. CASE name = "-W"
  BY <1>2 DEF Valued, ParsedOptions
<1>3. CASE name = "-T"
  BY <1>1, <1>3 DEF Valued, ParsedOptions
<1>4. CASE name = "-t"
  BY <1>1, <1>4 DEF Valued, ParsedOptions
<1>5. CASE name \notin {"-W", "-T", "-t"}
  <2>1. Valued(p, name, w) = [p EXCEPT !.scopes = Append(@, <<name, w>>)]
    BY <1>5 DEF Valued
  <2>2. <<name, w>> \in ValueOptions \X STRING
    OBVIOUS
  <2>3. Append(p.scopes, <<name, w>>) \in Seq(ValueOptions \X STRING)
    BY <2>2, AppendIsOneMore DEF ParsedOptions
  <2> QED
    BY <2>1, <2>3 DEF ParsedOptions
<1> QED
  BY <1>2, <1>3, <1>4, <1>5

\* What a word more does to the pieces of a row.
LEMMA AppendCuts ==
  ASSUME NEW U, NEW s \in Seq(U), NEW w \in U, NEW i \in 1 .. Len(s)
  PROVE  /\ SubSeq(Append(s, w), 1, i) = SubSeq(s, 1, i)
         /\ SubSeq(Append(s, w), i + 1, Len(Append(s, w))) = Append(SubSeq(s, i + 1, Len(s)), w)
<1> DEFINE n == Len(s)
           t == Append(s, w)
<1>1. /\ t \in Seq(U) /\ n \in Nat /\ Len(t) = n + 1 /\ t[n + 1] = w
      /\ \A j \in 1 .. n : t[j] = s[j]
  BY AppendIsOneMore DEF OneMore
<1> HIDE DEF t
<1>2. SubSeq(t, 1, i) = SubSeq(s, 1, i)
  <2>1. \A j \in 1 .. i : t[j] = s[j]
    BY <1>1
  <2> QED
    BY <1>1, <2>1
<1>3. SubSeq(t, i + 1, Len(t)) = Append(SubSeq(s, i + 1, n), w)
  <2> DEFINE a == SubSeq(t, i + 1, Len(t))
             b == SubSeq(s, i + 1, n)
  <2>1. a \in Seq(U) /\ Len(a) = n + 1 - i /\ \A j \in 1 .. n + 1 - i : a[j] = t[i + j]
    BY <1>1, SubSeqProperties
  <2>2. b \in Seq(U) /\ Len(b) = n - i /\ \A j \in 1 .. n - i : b[j] = s[i + j]
    BY <1>1, SubSeqProperties
  <2> HIDE DEF a, b
  <2>3. /\ Append(b, w) \in Seq(U) /\ Len(Append(b, w)) = n - i + 1
        /\ Append(b, w)[n - i + 1] = w /\ \A j \in 1 .. n - i : Append(b, w)[j] = b[j]
    <3>1. Len(b) + 1 = n - i + 1
      BY <1>1, <2>2
    <3> QED
      <4>1. OneMore(Append(b, w), b, w) /\ Append(b, w) \in Seq(U)
        BY <2>2, AppendIsOneMore
      <4> QED
        BY <2>2, <3>1, <4>1 DEF OneMore
  <2>4. \A j \in 1 .. n + 1 - i : a[j] = Append(b, w)[j]
    <3>1. SUFFICES ASSUME NEW j \in 1 .. n + 1 - i PROVE a[j] = Append(b, w)[j]
      OBVIOUS
    <3>2. CASE j = n + 1 - i
      BY <1>1, <2>1, <2>3, <3>2
    <3>3. CASE j # n + 1 - i
      <4>1. j \in 1 .. n - i /\ i + j \in 1 .. n
        BY <1>1, <3>3
      <4> QED
        BY <1>1, <2>1, <2>2, <2>3, <4>1
    <3> QED
      BY <3>2, <3>3
  <2>5. a = Append(b, w)
    <3>1. Len(a) = Len(Append(b, w)) /\ \A j \in 1 .. Len(a) : a[j] = Append(b, w)[j]
      BY <1>1, <2>1, <2>3, <2>4
    <3> QED
      BY <2>1, <2>3, <3>1, SeqEqual
  <2> QED
    BY <2>5 DEF a, b
<1> QED
  BY <1>2, <1>3 DEF t

LEMMA SubSeqAll ==
  ASSUME NEW U, NEW s \in Seq(U)
  PROVE  SubSeq(s, 1, Len(s)) = s /\ SubSeq(s, Len(s) + 1, Len(s)) = << >>
OBVIOUS

\* The loop keeps what has been made of the words before.
LEMMA ParseGoes ==
  ASSUME NEW s \in Seq(STRING), NEW w \in STRING, NEW st, ParseInv(s, st)
  PROVE  ParseInv(Append(s, w), ParseWord(st, w))
<1> DEFINE t == Append(s, w)
           st2 == ParseWord(st, w)
<1>0. OneMore(t, s, w) /\ t \in Seq(STRING)
  BY AppendIsOneMore
<1>1. /\ t \in Seq(STRING) /\ Len(t) = Len(s) + 1 /\ Len(s) \in Nat /\ t[Len(s) + 1] = w
      /\ \A i \in 1 .. Len(s) : t[i] = s[i]
  BY <1>0 DEF OneMore
<1> HIDE DEF t, st2
<1> SUFFICES ParseInv(t, st2)
  BY DEF t, st2
<1>2. /\ st \in ParseStates
      /\ st.o \in ParsedOptions \cup {Died}
      /\ st.pending \in {"none"} \cup ValueOptions /\ st.command \in BOOLEAN
  BY DEF ParseInv, ParseStates
<1>3. \A p \in ParsedOptions : p.failed = FALSE
  BY DEF ParsedOptions
<1>4. Died.failed = TRUE
  BY DEF Died
<1>5. CASE st.o.failed
  <2>1. st2 = st
    BY <1>5 DEF st2, ParseWord
  <2> QED
    BY <1>2, <1>5, <2>1 DEF ParseInv
<1>6. CASE ~st.o.failed /\ st.command
  <2>1. st.o \in ParsedOptions
    BY <1>2, <1>4, <1>6
  <2>2. st2 = [st EXCEPT !.o.args = Append(@, w)]
    BY <1>6 DEF st2, ParseWord
  <2>3. Append(st.o.args, w) \in Seq(STRING)
    BY <2>1, AppendIsOneMore DEF ParsedOptions
  <2>4. st2.o \in ParsedOptions /\ st2.o.args = Append(st.o.args, w)
        /\ st2.o.networkPolicy = st.o.networkPolicy /\ st2.command = TRUE
        /\ st2.pending = st.pending
    BY <1>2, <1>6, <2>1, <2>2, <2>3 DEF ParsedOptions, ParseStates
  <2>5. st2 \in ParseStates
    BY <1>2, <2>1, <2>2, <2>3 DEF ParsedOptions, ParseStates
  <2>6. PICK i \in 1 .. Len(s) : /\ s[i] = "--" /\ st.o.args = SubSeq(s, i + 1, Len(s))
                                 /\ PolicyAsAsked(SubSeq(s, 1, i), st.o)
    BY <1>6 DEF ParseInv, CommandRead
  <2>7. t[i] = "--" /\ i \in 1 .. Len(t)
    BY <1>1, <2>6
  <2>8. SubSeq(t, 1, i) = SubSeq(s, 1, i)
    <3>1. SubSeq(Append(s, w), 1, i) = SubSeq(s, 1, i)
      BY ONLY s \in Seq(STRING), w \in STRING, i \in 1 .. Len(s), AppendCuts
    <3> QED
      BY <3>1 DEF t
  <2>9. Append(st.o.args, w) = SubSeq(t, i + 1, Len(t))
    <3>1. SubSeq(Append(s, w), i + 1, Len(Append(s, w))) = Append(SubSeq(s, i + 1, Len(s)), w)
      BY ONLY s \in Seq(STRING), w \in STRING, i \in 1 .. Len(s), AppendCuts
    <3> QED
      BY <2>6, <3>1 DEF t
  <2> QED
    BY <2>4, <2>5, <2>6, <2>7, <2>8, <2>9 DEF ParseInv, CommandRead, PolicyAsAsked
<1>7. CASE ~st.o.failed /\ ~st.command
  <2>1. st.o \in ParsedOptions /\ st.o.args = << >> /\ RunEnds(s, st.pending)
        /\ PolicyAsAsked(s, st.o)
    BY <1>2, <1>4, <1>7 DEF ParseInv, OptionsRead
  <2>2. RunEnds(t, IF st.pending = "none" /\ w \in ValueOptions THEN w ELSE "none")
    BY <1>0, <1>2, <2>1, RunGoes
  <2>3. /\ IsAsked(t, "-N") <=> st.o.networkPolicy = 1 \/ (w = "-N" /\ st.pending = "none")
        /\ IsAsked(t, "-n") <=> st.o.networkPolicy = 2 \/ (w = "-n" /\ st.pending = "none")
    BY <1>0, <2>1, AskedGoes DEF PolicyAsAsked
  <2>4. CASE st.pending # "none"
    <3> DEFINE p == Valued(st.o, st.pending, w)
    <3>1. st2 = [st EXCEPT !.o = p, !.pending = "none"]
      BY <1>7, <2>4 DEF st2, ParseWord
    <3>2. p \in ParsedOptions /\ p.args = << >> /\ p.networkPolicy = st.o.networkPolicy
      BY <1>2, <2>1, <2>4, ValuedMeans
    <3> HIDE DEF p
    <3>3. st2.o = p /\ st2.pending = "none" /\ st2.command = FALSE /\ st2 \in ParseStates
      BY <1>2, <1>7, <3>1, <3>2 DEF ParseStates
    <3> QED
      BY <2>2, <2>3, <2>4, <3>2, <3>3 DEF ParseInv, OptionsRead, PolicyAsAsked
  <2>5. CASE st.pending = "none" /\ w = "--"
    <3>1. st2 = [st EXCEPT !.command = TRUE]
      BY <1>7, <2>5 DEF st2, ParseWord, Switches, ValueOptions
    <3>2. st2.o = st.o /\ st2.command = TRUE /\ st2 \in ParseStates
      BY <1>2, <3>1 DEF ParseStates
    <3>3. /\ Len(t) \in 1 .. Len(t) /\ t[Len(t)] = "--"
          /\ SubSeq(t, Len(t) + 1, Len(t)) = << >> /\ SubSeq(t, 1, Len(t)) = t
      BY <1>1, <2>5, SubSeqAll
    <3>4. PolicyAsAsked(t, st.o)
      BY <2>3, <2>5 DEF PolicyAsAsked
    <3> QED
      BY <2>1, <3>2, <3>3, <3>4 DEF ParseInv, CommandRead
  <2>6. CASE st.pending = "none" /\ w \in Switches
    <3> DEFINE p == Switch(st.o, w)
    <3>1. st2 = [st EXCEPT !.o = p]
      <4>1. w # "--" /\ w \notin ValueOptions
        BY <2>6 DEF Switches, ValueOptions
      <4> QED
        BY <1>7, <2>6, <4>1 DEF st2, ParseWord
    <3>2. p \in ParsedOptions \cup {Died}
      BY <2>1, <2>6, SwitchMeans
    <3>3. ~p.failed => /\ p.args = << >>
                       /\ p.networkPolicy = 1 <=> st.o.networkPolicy = 1 \/ w = "-N"
                       /\ p.networkPolicy = 2 <=> st.o.networkPolicy = 2 \/ w = "-n"
      BY <1>4, <2>1, <2>6, SwitchMeans
    <3> HIDE DEF p
    <3>4. st2.o = p /\ st2.pending = "none" /\ st2.command = FALSE /\ st2 \in ParseStates
      BY <1>2, <1>7, <2>6, <3>1, <3>2 DEF ParseStates
    <3>5. w \notin ValueOptions
      BY <2>6 DEF Switches, ValueOptions
    <3> QED
      BY <2>2, <2>3, <2>6, <3>3, <3>4, <3>5 DEF ParseInv, OptionsRead, PolicyAsAsked
  <2>7. CASE st.pending = "none" /\ w \in ValueOptions
    <3>1. st2 = [st EXCEPT !.pending = w]
      BY <1>7, <2>7 DEF st2, ParseWord, Switches, ValueOptions
    <3>2. st2.o = st.o /\ st2.pending = w /\ st2.command = FALSE /\ st2 \in ParseStates
      BY <1>2, <1>7, <2>7, <3>1 DEF ParseStates
    <3>3. w # "-N" /\ w # "-n"
      BY <2>7 DEF ValueOptions
    <3> QED
      BY <2>1, <2>2, <2>3, <2>7, <3>2, <3>3 DEF ParseInv, OptionsRead, PolicyAsAsked
  <2>8. CASE st.pending = "none" /\ w # "--" /\ w \notin Switches /\ w \notin ValueOptions
    <3>1. st2 = [st EXCEPT !.o = Died]
      BY <1>7, <2>8 DEF st2, ParseWord
    <3> QED
      BY <1>2, <1>4, <3>1 DEF ParseInv, ParseStates
  <2> QED
    BY <2>4, <2>5, <2>6, <2>7, <2>8
<1> QED
  BY <1>2, <1>5, <1>6, <1>7

\* The options that come out of any row of words.
LEMMA ParseMeans ==
  ASSUME NEW s \in Seq(STRING)
  PROVE  ParseInv(s, FoldLeft(ParseWord, ParseStart, s))
<1>1. ParseInv(<< >>, ParseStart)
  <2>1. Defaults \in ParsedOptions /\ Defaults.args = << >> /\ Defaults.networkPolicy = 0
        /\ ~Defaults.failed
    <3>1. << >> \in Seq(ValueOptions \X STRING) /\ << >> \in Seq(STRING)
      BY EmptySeq
    <3>2. 0 \in 0 .. 2 /\ 0 \in Nat
      OBVIOUS
    <3> QED
      BY <3>1, <3>2 DEF Defaults, ParsedOptions
  <2>2. ParseStart \in ParseStates /\ ParseStart.o = Defaults /\ ParseStart.pending = "none"
        /\ ~ParseStart.command
    BY <2>1 DEF ParseStart, ParseStates
  <2>3. RunEnds(<< >>, "none")
    <3>1. Len(<< >>) = 0 /\ 1 \in 1 .. 0 + 1 /\ 1 .. 0 = {} /\ (0 + 1 - 1) % 2 # 1 /\ ~(1 > 1)
      OBVIOUS
    <3>2. RunOf(<< >>, 1, 1)
      <4>1. 1 .. 1 - 1 = {}
        OBVIOUS
      <4> QED
        BY <3>1, <4>1 DEF RunOf
    <3>3. ~((1 - 1) % 2 = 1) /\ 0 + 1 = 1
      OBVIOUS
    <3> QED
      BY <3>1, <3>2, <3>3 DEF RunEnds
  <2>4. PolicyAsAsked(<< >>, Defaults)
    BY <2>1 DEF PolicyAsAsked, IsAsked
  <2> QED
    BY <2>1, <2>2, <2>3, <2>4 DEF ParseInv, OptionsRead
<1>2. \A r \in Seq(STRING) : ParseInv(r, Loop!Fold(r))
  BY <1>1, ParseGoes, Loop!FoldInduction
<1> QED
  BY <1>2, LoopIsFold


-----------------------------------------------------------------------------
(* The pieces the words are expanded to, one after the other.              *)

Joined(a, b) == a \o b

\* Every member of the joined pieces comes from one of them; if that and all that
\* follow hold one member each, what follows is what they hold.
Comes(ss, v, i, k) ==
    /\ \E h \in 1 .. Len(ss[k]) : v[i] = ss[k][h]
    /\ (\A h \in k .. Len(ss) : Len(ss[h]) = 1) =>
           /\ Len(v) - i = Len(ss) - k
           /\ \A j \in 0 .. Len(ss) - k : v[i + j] = ss[k + j][1]

JoinInv(ss, v) ==
    \A U : ss \in Seq(Seq(U)) =>
        /\ v = FlattenSeq(ss) /\ v \in Seq(U)
        /\ \A i \in 1 .. Len(v) : \E k \in 1 .. Len(ss) : Comes(ss, v, i, k)

Pieces == INSTANCE FoldProofs WITH Step <- Joined, Base <- << >>, Inv <- JoinInv

LEMMA PiecesAreJoined == \A ss : FlattenSeq(ss) = Pieces!Chain(ss)
BY DEF FlattenSeq, Pieces!Chain, Joined

LEMMA FlattenOfMore ==
  ASSUME NEW U, NEW ss \in Seq(Seq(U)), NEW s \in Seq(U), FlattenSeq(ss) \in Seq(U)
  PROVE  FlattenSeq(Append(ss, s)) = FlattenSeq(ss) \o s
<1>1. CASE ss = << >>
  <2>1. FlattenSeq(<< >>) = << >>
    BY PiecesAreJoined, Pieces!ChainOfNone
  <2>2. Append(<< >>, s) = <<s>>
    OBVIOUS
  <2>3. FlattenSeq(<<s>>) = s
    BY PiecesAreJoined, Pieces!ChainOfOne
  <2>4. << >> \o s = s
    OBVIOUS
  <2> QED
    BY <1>1, <2>1, <2>2, <2>3, <2>4
<1>2. CASE ss # << >>
  <2>1. Pieces!Chain(Append(ss, s)) = Joined(Pieces!Chain(ss), s)
    BY <1>2, Pieces!ChainOfMore
  <2> QED
    BY <2>1, PiecesAreJoined DEF Joined
<1> QED
  BY <1>1, <1>2

LEMMA IsSeq ==
  ASSUME NEW V, NEW n \in Nat, NEW s \in [1 .. n -> V]
  PROVE  s \in Seq(V)
OBVIOUS

\* One piece more.
LEMMA ComesGoes ==
  ASSUME NEW U, NEW ss \in Seq(Seq(U)), NEW s \in Seq(U), NEW v \in Seq(U),
         NEW tt, OneMore(tt, ss, s), NEW z, z = v \o s,
         \A i \in 1 .. Len(v) : \E k \in 1 .. Len(ss) : Comes(ss, v, i, k)
  PROVE  \A i \in 1 .. Len(z) : \E k \in 1 .. Len(tt) : Comes(tt, z, i, k)
<1> DEFINE n == Len(ss)
           m == Len(v)
           N == Len(tt)
           M == Len(z)
<1>1. n \in Nat /\ N = n + 1 /\ N \in Nat /\ tt[N] = s /\ \A i \in 1 .. n : tt[i] = ss[i]
  BY DEF OneMore
<1>2. /\ m \in Nat /\ Len(s) \in Nat /\ M = m + Len(s) /\ M \in Nat
      /\ \A i \in 1 .. m : z[i] = v[i]
      /\ \A i \in 1 .. Len(s) : z[m + i] = s[i]
  BY ConcatProperties
<1>3. \A i \in 1 .. m : \E k \in 1 .. n : Comes(ss, v, i, k)
  OBVIOUS
<1>4. \A i, k : /\ \E h \in 1 .. Len(tt[k]) : z[i] = tt[k][h]
                /\ (\A h \in k .. N : Len(tt[h]) = 1) =>
                      M - i = N - k /\ \A j \in 0 .. N - k : z[i + j] = tt[k + j][1]
                => Comes(tt, z, i, k)
  BY DEF Comes
<1>5. SUFFICES ASSUME NEW i \in 1 .. M PROVE \E k \in 1 .. N : Comes(tt, z, i, k)
  OBVIOUS
<1> HIDE DEF n, m, N, M
<1>6. CASE i \in 1 .. m
  <2>1. PICK k \in 1 .. n : Comes(ss, v, i, k)
    BY <1>3, <1>6
  <2>2. k \in 1 .. N /\ tt[k] = ss[k] /\ z[i] = v[i]
    <3>1. k \in 1 .. N /\ tt[k] = ss[k]
      BY <1>1
    <3>2. z[i] = v[i]
      BY <1>2, <1>6
    <3> QED
      BY <3>1, <3>2
  <2>3. \E h \in 1 .. Len(tt[k]) : z[i] = tt[k][h]
    BY <2>1, <2>2 DEF Comes
  <2>4. ASSUME \A h \in k .. N : Len(tt[h]) = 1
        PROVE  M - i = N - k /\ \A j \in 0 .. N - k : z[i + j] = tt[k + j][1]
    <3>1. \A h \in k .. n : h \in k .. N /\ h \in 1 .. n
      BY <1>1
    <3>2. \A h \in k .. n : Len(ss[h]) = 1
      BY <1>1, <2>4, <3>1
    <3>3. m - i = n - k /\ \A j \in 0 .. n - k : v[i + j] = ss[k + j][1]
      BY <2>1, <3>2 DEF Comes, n, m
    <3>4. M = m + 1
      <4>1. N \in k .. N
        BY <1>1
      <4>2. Len(s) = 1
        BY <1>1, <2>4, <4>1
      <4> QED
        BY <1>2, <4>2
    <3>5. ASSUME NEW j \in 0 .. N - k PROVE z[i + j] = tt[k + j][1]
      <4>1. j \in 0 .. n - k \/ j = N - k
        BY <1>1
      <4>2. CASE j \in 0 .. n - k
        <5>1. i + j \in 1 .. m /\ k + j \in 1 .. n
          <6>1. k + j \in 1 .. n
            BY <1>1, <4>2
          <6>2. j \in 0 .. m - i
            BY <3>3, <4>2
          <6>3. i + j \in 1 .. m
            BY <1>2, <1>6, <6>2
          <6> QED
            BY <6>1, <6>3
        <5> QED
          BY <1>1, <1>2, <3>3, <4>2, <5>1
      <4>3. CASE j = N - k
        <5>1. i + j = m + 1 /\ k + j = N /\ 1 \in 1 .. Len(s)
          BY <1>1, <1>2, <1>6, <3>3, <3>4, <4>3
        <5> QED
          BY <1>1, <1>2, <5>1
      <4> QED
        BY <4>1, <4>2, <4>3
    <3>6. M - i = N - k
      BY <1>1, <1>2, <3>3, <3>4, SMTT(40)
    <3> QED
      BY <3>5, <3>6
  <2> QED
    BY <1>4, <2>2, <2>3, <2>4
<1>7. CASE i \notin 1 .. m
  <2>1. i - m \in 1 .. Len(s) /\ i = m + (i - m) /\ N \in 1 .. N
    BY <1>1, <1>2, <1>7
  <2>2. z[i] = s[i - m]
    BY <1>2, <2>1
  <2>3. \E h \in 1 .. Len(tt[N]) : z[i] = tt[N][h]
    BY <1>1, <2>1, <2>2
  <2>4. ASSUME \A h \in N .. N : Len(tt[h]) = 1
        PROVE  M - i = N - N /\ \A j \in 0 .. N - N : z[i + j] = tt[N + j][1]
    <3>1. Len(s) = 1
      BY <1>1, <2>4
    <3>2. i - m = 1 /\ M = i
      BY <1>2, <2>1, <3>1
    <3>3. z[i] = tt[N][1]
      BY <1>1, <2>2, <3>2
    <3>4. M - i = N - N /\ \A j \in 0 .. N - N : i + j = i /\ N + j = N
      BY <1>1, <1>2, <3>2
    <3> QED
      BY <3>3, <3>4
  <2> QED
    BY <1>4, <2>1, <2>3, <2>4
<1> QED
  BY <1>6, <1>7

LEMMA JoinGoes ==
  ASSUME NEW U, NEW ss \in Seq(Seq(U)), NEW s \in Seq(U), NEW v, JoinInv(ss, v)
  PROVE  JoinInv(Append(ss, s), Joined(v, s))
<1>1. SUFFICES ASSUME NEW W, Append(ss, s) \in Seq(Seq(W))
               PROVE  /\ v \o s = FlattenSeq(Append(ss, s)) /\ v \o s \in Seq(W)
                      /\ \A i \in 1 .. Len(v \o s) : \E k \in 1 .. Len(Append(ss, s)) :
                             Comes(Append(ss, s), v \o s, i, k)
  BY DEF JoinInv, Joined
<1>2. OneMore(Append(ss, s), ss, s)
  BY AppendIsOneMore
<1>3. ss \in Seq(Seq(W)) /\ s \in Seq(W)
  <2> DEFINE tt == Append(ss, s)
  <2>1. Len(ss) \in Nat /\ Len(tt) = Len(ss) + 1 /\ tt[Len(ss) + 1] = s
        /\ \A i \in 1 .. Len(ss) : tt[i] = ss[i]
    BY <1>2 DEF OneMore
  <2>2. \A i \in 1 .. Len(tt) : tt[i] \in Seq(W)
    BY <1>1, ElementOfSeq
  <2> HIDE DEF tt
  <2>3. s \in Seq(W)
    BY <2>1, <2>2
  <2>4. \A i \in 1 .. Len(ss) : ss[i] \in Seq(W)
    BY <2>1, <2>2
  <2>5. ss \in Seq(Seq(W))
    <3>1. ss \in [1 .. Len(ss) -> Seq(W)]
      BY <2>4, LenProperties
    <3> QED
      BY <2>1, <3>1, IsSeq
  <2> QED
    BY <2>3, <2>5
<1>4. v = FlattenSeq(ss) /\ v \in Seq(W)
      /\ \A i \in 1 .. Len(v) : \E k \in 1 .. Len(ss) : Comes(ss, v, i, k)
  BY <1>3 DEF JoinInv
<1>5. FlattenSeq(Append(ss, s)) = v \o s
  BY <1>3, <1>4, FlattenOfMore
<1>6. v \o s \in Seq(W)
  BY <1>3, <1>4
<1> QED
  BY <1>2, <1>3, <1>4, <1>5, <1>6, ComesGoes

LEMMA JoinMeans ==
  ASSUME NEW U, NEW ss \in Seq(Seq(U))
  PROVE  /\ FlattenSeq(ss) \in Seq(U)
         /\ \A i \in 1 .. Len(FlattenSeq(ss)) : \E k \in 1 .. Len(ss) :
                Comes(ss, FlattenSeq(ss), i, k)
<1>1. JoinInv(<< >>, << >>)
  <2>1. FlattenSeq(<< >>) = << >>
    BY PiecesAreJoined, Pieces!ChainOfNone
  <2>2. \A W : << >> \in Seq(W)
    BY EmptySeq
  <2>3. 1 .. Len(<< >>) = {}
    OBVIOUS
  <2> QED
    BY <2>1, <2>2, <2>3 DEF JoinInv
<1>2. \A r \in Seq(Seq(U)), s \in Seq(U) : \A v : JoinInv(r, v) => JoinInv(Append(r, s), Joined(v, s))
  BY JoinGoes
<1>3. \A r \in Seq(Seq(U)) : JoinInv(r, Pieces!Fold(r))
  BY <1>1, <1>2, Pieces!FoldInduction
<1>4. JoinInv(ss, Pieces!Fold(ss))
  BY <1>3
<1> QED
  BY <1>4 DEF JoinInv


-----------------------------------------------------------------------------
(* The options, and where the command starts.                              *)

Ends(ws) == {i \in DOMAIN ws : ws[i] = "--"}
LastRead(ws) == IF Ends(ws) = {} THEN Len(ws) ELSE Min(Ends(ws))
Piece(ws, i) ==
    IF i <= LastRead(ws) /\ ws[i] \in DOMAIN Files THEN Files[ws[i]] ELSE <<ws[i]>>
PiecesOf(ws) == [i \in DOMAIN ws |-> Piece(ws, i)]

LEMMA ExpandedWords ==
  ASSUME NEW ws, ~ExpandArguments(ws).failed
  PROVE  ExpandArguments(ws).words = FlattenSeq(PiecesOf(ws))
<1>1. ExpandArguments(ws) = IF \E i \in 1 .. LastRead(ws) : ws[i] \in Lost
                            THEN Died
                            ELSE [failed |-> FALSE, words |-> FlattenSeq(PiecesOf(ws))]
  BY DEF ExpandArguments, LastRead, Ends, PiecesOf, Piece
<1>2. Died.failed = TRUE
  BY DEF Died
<1> QED
  BY <1>1, <1>2

LEMMA PiecesType ==
  ASSUME NEW ws \in Seq(STRING)
  PROVE  PiecesOf(ws) \in Seq(Seq(STRING)) /\ Len(PiecesOf(ws)) = Len(ws)
<1>1. Len(ws) \in Nat /\ DOMAIN ws = 1 .. Len(ws) /\ \A i \in 1 .. Len(ws) : ws[i] \in STRING
  OBVIOUS
<1>2. ASSUME NEW i \in 1 .. Len(ws) PROVE Piece(ws, i) \in Seq(STRING)
  <2>1. <<ws[i]>> \in Seq(STRING)
    BY <1>1
  <2>2. ws[i] \in DOMAIN Files => Files[ws[i]] \in Seq(STRING)
    BY CommandLineAssumption
  <2> QED
    BY <2>1, <2>2 DEF Piece
<1>3. PiecesOf(ws) \in [1 .. Len(ws) -> Seq(STRING)]
  BY <1>1, <1>2 DEF PiecesOf
<1>4. PiecesOf(ws) \in Seq(Seq(STRING))
  BY <1>1, <1>3, IsSeq
<1>5. DOMAIN PiecesOf(ws) = 1 .. Len(ws)
  BY <1>3
<1>6. Len(PiecesOf(ws)) = Len(ws)
  BY <1>1, <1>4, <1>5, LenProperties
<1> QED
  BY <1>4, <1>6

\* What comes of words that do not make the launcher give up.
LEMMA OptionsMean ==
  ASSUME NEW ws \in Seq(STRING), ~ParseOptions(ws).failed
  PROVE  LET e == ExpandArguments(ws).words
             opts == ParseOptions(ws)
         IN /\ opts \in ParsedOptions
            /\ e = FlattenSeq(PiecesOf(ws)) /\ e \in Seq(STRING)
            /\ \E i \in 1 .. Len(e) : /\ e[i] = "--" /\ opts.args = SubSeq(e, i + 1, Len(e))
                                      /\ PolicyAsAsked(SubSeq(e, 1, i), opts)
<1> DEFINE x == ExpandArguments(ws)
           e == x.words
           end == FoldLeft(ParseWord, ParseStart, e)
<1>1. ParseOptions(ws) = IF x.failed \/ end.o.failed \/ end.o.args = << >>
                         THEN Died ELSE end.o
  BY DEF ParseOptions, ParseStart
<1>2. Died.failed = TRUE
  BY DEF Died
<1> HIDE DEF end
<1>3. ~x.failed /\ ~end.o.failed /\ end.o.args # << >> /\ ParseOptions(ws) = end.o
  BY <1>1, <1>2
<1>4. e = FlattenSeq(PiecesOf(ws))
  BY <1>3, ExpandedWords
<1>5. e \in Seq(STRING)
  BY <1>4, PiecesType, JoinMeans
<1> HIDE DEF x
<1>6. ParseInv(e, end)
  BY <1>5, ParseMeans DEF end
<1>7. end.command
  BY <1>3, <1>6 DEF ParseInv, OptionsRead, ParseStates
<1>8. CommandRead(e, end) /\ end.o \in ParsedOptions
  BY <1>2, <1>3, <1>6, <1>7 DEF ParseInv, ParseStates
<1> QED
  BY <1>3, <1>4, <1>5, <1>8 DEF CommandRead, x

LEMMA LeastEnd ==
  ASSUME NEW ws \in Seq(STRING), NEW k \in Ends(ws)
  PROVE  LastRead(ws) <= k /\ LastRead(ws) \in Ends(ws)
<1> DEFINE E == Ends(ws)
<1>1. E \in SUBSET Nat /\ E # {}
  BY DEF Ends
<1> HIDE DEF E
<1>2. PICK n \in E : \A m \in E : n <= m
  BY <1>1, Loop!LeastCounterexample
<1>3. Min(E) \in E /\ \A m \in E : Min(E) <= m
  BY <1>2 DEF Min
<1> QED
  BY <1>1, <1>3 DEF E, LastRead

\* A "--" of the expanded words stands on the command line, and so does the rest.
LEMMA EndsStand ==
  ASSUME NEW ws \in Seq(STRING), \A f \in DOMAIN Files : ~Contains(Files[f], "--"),
         NEW i \in 1 .. Len(FlattenSeq(PiecesOf(ws))),
         FlattenSeq(PiecesOf(ws))[i] = "--"
  PROVE  \E k \in 1 .. Len(ws) :
            /\ ws[k] = "--"
            /\ SubSeq(FlattenSeq(PiecesOf(ws)), i + 1, Len(FlattenSeq(PiecesOf(ws))))
                 = SubSeq(ws, k + 1, Len(ws))
<1> DEFINE ss == PiecesOf(ws)
           e == FlattenSeq(ss)
           n == Len(ws)
           m == Len(e)
<1>1. ss \in Seq(Seq(STRING)) /\ Len(ss) = n /\ n \in Nat /\ DOMAIN ws = 1 .. n
  BY PiecesType
<1>2. \A k \in 1 .. n : ss[k] = Piece(ws, k)
  BY <1>1 DEF PiecesOf
<1>3. e \in Seq(STRING) /\ \A j \in 1 .. m : \E k \in 1 .. n : Comes(ss, e, j, k)
  BY <1>1, JoinMeans
<1> HIDE DEF ss, e
<1>4. m \in Nat
  BY <1>3
<1> HIDE DEF m, n
<1>5. PICK k \in 1 .. n : Comes(ss, e, i, k)
  BY <1>3 DEF m, e, ss
<1>6. PICK h \in 1 .. Len(Piece(ws, k)) : Piece(ws, k)[h] = "--"
  BY <1>2, <1>5 DEF Comes, e, ss
<1>7. ~(k <= LastRead(ws) /\ ws[k] \in DOMAIN Files)
  <2>1. SUFFICES ASSUME ws[k] \in DOMAIN Files, Piece(ws, k) = Files[ws[k]] PROVE FALSE
    BY DEF Piece
  <2> QED
    BY <1>6, <2>1 DEF Contains
<1>8. Piece(ws, k) = <<ws[k]>>
  BY <1>7 DEF Piece
<1>9. ws[k] = "--"
  <2>1. Len(<<ws[k]>>) = 1 /\ <<ws[k]>>[1] = ws[k] /\ \A j \in 1 .. 1 : j = 1
    OBVIOUS
  <2> QED
    BY <1>6, <1>8, <2>1
<1>10. ASSUME NEW j \in k .. n PROVE Piece(ws, j) = <<ws[j]>>
  <2>1. k \in Ends(ws)
    BY <1>1, <1>9 DEF Ends
  <2>2. LastRead(ws) <= k /\ ws[LastRead(ws)] = "--" /\ LastRead(ws) \in Nat
    BY <2>1, <1>1, LeastEnd DEF Ends
  <2>3. j <= LastRead(ws) => ws[j] = "--"
    BY <1>1, <2>2
  <2> QED
    BY <2>3, CommandLineAssumption DEF Piece
<1>11. \A j \in k .. n : ss[j] = <<ws[j]>> /\ Len(ss[j]) = 1 /\ ss[j][1] = ws[j]
  <2>1. ASSUME NEW j \in k .. n PROVE ss[j] = <<ws[j]>>
    <3>1. j \in 1 .. n
      BY <1>1
    <3> QED
      BY <1>2, <1>10, <3>1
  <2>2. \A x : Len(<<x>>) = 1 /\ <<x>>[1] = x
    OBVIOUS
  <2> QED
    BY <2>1, <2>2
<1>12. m - i = n - k /\ \A j \in 0 .. n - k : e[i + j] = ws[k + j]
  <2>1. m - i = n - k /\ \A j \in 0 .. n - k : e[i + j] = ss[k + j][1]
    BY <1>1, <1>5, <1>11 DEF Comes, m
  <2>2. \A j \in 0 .. n - k : k + j \in k .. n
    BY <1>1
  <2> QED
    BY <1>11, <2>1, <2>2
<1>13. SubSeq(e, i + 1, m) = SubSeq(ws, k + 1, n)
  <2> DEFINE a == SubSeq(e, i + 1, m)
             b == SubSeq(ws, k + 1, n)
  <2>0. i \in Nat /\ i >= 1 /\ i <= m
    BY <1>4 DEF m, e, ss
  <2>1. a \in Seq(STRING) /\ Len(a) = m - i /\ \A j \in 1 .. m - i : a[j] = e[i + j]
    BY <1>3, <1>4, <2>0, SubSeqProperties DEF m
  <2>2. b \in Seq(STRING) /\ Len(b) = n - k /\ \A j \in 1 .. n - k : b[j] = ws[k + j]
    BY <1>1, SubSeqProperties DEF n
  <2> HIDE DEF a, b
  <2>3. \A j \in 1 .. n - k : j \in 0 .. n - k
    BY <1>1
  <2>4. Len(a) = Len(b) /\ \A j \in 1 .. Len(a) : a[j] = b[j]
    BY <1>12, <2>1, <2>2, <2>3
  <2>5. a = b
    BY <2>1, <2>2, <2>4, SeqEqual
  <2> QED
    BY <2>5 DEF a, b
<1> QED
  BY <1>1, <1>9, <1>13 DEF e, ss, m, n

\* What the phases rest on.
ParsedInv ==
    /\ phase \in {"start", "parsed"} => words \in Seq(STRING)
    /\ phase = "parsed" => o = ParseOptions(words) /\ ~o.failed

LEMMA ParsedOnlyOnce == Spec => []ParsedInv
<1>1. Init => ParsedInv
  BY InputsAssumption DEF Init, ParsedInv
<1>2. ParsedInv /\ [Next]_vars => ParsedInv'
  <2> SUFFICES ASSUME ParsedInv, [Next]_vars PROVE ParsedInv'
    OBVIOUS
  <2>1. CASE Parse BY <2>1 DEF Parse, ParsedInv
  <2>2. CASE RefuseForeignMachine BY <2>2 DEF RefuseForeignMachine, ParsedInv
  <2>3. CASE Build BY <2>3 DEF Build, ParsedInv
  <2>4. CASE Launch BY <2>4 DEF Launch, ParsedInv
  <2>5. CASE Run BY <2>5 DEF Run, ParsedInv, launcher
  <2>6. CASE Ended BY <2>6 DEF Ended, ParsedInv, vars, launcher
  <2>7. CASE UNCHANGED vars BY <2>7 DEF ParsedInv, vars, launcher
  <2> QED BY <2>1, <2>2, <2>3, <2>4, <2>5, <2>6, <2>7 DEF Next
<1> QED
  BY <1>1, <1>2, PTL DEF Spec

\* For every command line and all response files: unless one of them holds a "--" of
\* its own, the tool's command is what stands after a "--" of the command line.
THEOREM CommandStands == Spec => []CommandAsWritten
<1>1. ParsedInv => CommandAsWritten
  <2> SUFFICES ASSUME ParsedInv, phase = "parsed",
                      \A f \in DOMAIN Files : ~Contains(Files[f], "--")
               PROVE  \E i \in DOMAIN words :
                        words[i] = "--" /\ o.args = SubSeq(words, i + 1, Len(words))
    BY DEF CommandAsWritten
  <2>1. words \in Seq(STRING) /\ o = ParseOptions(words) /\ ~ParseOptions(words).failed
    BY DEF ParsedInv
  <2> DEFINE e == FlattenSeq(PiecesOf(words))
  <2>2. PICK i \in 1 .. Len(e) : e[i] = "--" /\ o.args = SubSeq(e, i + 1, Len(e))
    BY <2>1, OptionsMean
  <2>3. PICK k \in 1 .. Len(words) :
            words[k] = "--" /\ SubSeq(e, i + 1, Len(e)) = SubSeq(words, k + 1, Len(words))
    BY <2>1, <2>2, EndsStand
  <2>4. DOMAIN words = 1 .. Len(words)
    BY <2>1
  <2> QED
    BY <2>2, <2>3, <2>4
<1> QED
  BY <1>1, ParsedOnlyOnce, PTL

\* For every command line and all response files: the policy is the one asked for by
\* the words before the command that are not the value of an option.
THEOREM PolicyAsked == Spec => []OnePolicyAsked
<1>1. ParsedInv => OnePolicyAsked
  <2> SUFFICES ASSUME ParsedInv, phase = "parsed"
               PROVE  PolicyAsAsked(SubSeq(ExpandArguments(words).words, 1,
                                           Len(ExpandArguments(words).words) - Len(o.args)), o)
    BY DEF OnePolicyAsked, PolicyAsAsked
  <2>1. words \in Seq(STRING) /\ o = ParseOptions(words) /\ ~ParseOptions(words).failed
    BY DEF ParsedInv
  <2> DEFINE e == ExpandArguments(words).words
  <2>2. e \in Seq(STRING)
    BY <2>1, OptionsMean
  <2>3. PICK i \in 1 .. Len(e) : /\ o.args = SubSeq(e, i + 1, Len(e))
                                 /\ PolicyAsAsked(SubSeq(e, 1, i), o)
    BY <2>1, OptionsMean
  <2> HIDE DEF e
  <2>4. Len(e) \in Nat /\ \A j \in i + 1 .. Len(e) : e[j] \in STRING
    BY <2>2
  <2>5. Len(SubSeq(e, i + 1, Len(e))) = Len(e) - i
    BY <2>4, SubSeqProperties
  <2>6. Len(e) - Len(o.args) = i
    BY <2>3, <2>4, <2>5
  <2> QED
    BY <2>3, <2>6 DEF e
<1> QED
  BY <1>1, ParsedOnlyOnce, PTL

\* The wait has no limit exactly if none was given, whatever the numbers.
THEOREM NoLimitUnlessAsked == Spec => []LimitOnlyIfGiven
<1>1. ParsedInv => LimitOnlyIfGiven
  <2> SUFFICES ASSUME ParsedInv, phase = "parsed"
               PROVE  WaitMs(o.timeoutSecs) = INFINITE <=> o.timeoutSecs = 0
    BY DEF LimitOnlyIfGiven
  <2>1. o \in ParsedOptions
    BY OptionsMean DEF ParsedInv
  <2>2. o.timeoutSecs \in Nat
    BY <2>1 DEF ParsedOptions
  <2> QED
    BY <2>2, LimitStaysLimit
<1> QED
  BY <1>1, ParsedOnlyOnce, PTL


-----------------------------------------------------------------------------
(* The words of the tool, written and read again.                          *)

\* What has been read after the marks of l: before a word, behind a, and in it.
Read(l) == FoldLeft(ArgvMark, ArgvStart, l)
Fresh(a) == [argv |-> a, word |-> << >>, open |-> FALSE, quoted |-> FALSE, bs |-> 0]
At(a, w, quoted, n) == [argv |-> a, word |-> w, open |-> TRUE, quoted |-> quoted, bs |-> n]

\* At the end of the word s.
Ready(a, s, st) == st.quoted = FALSE /\ Closed(st) = Fresh(Append(a, s))

\* A word and the backslashes behind it, and a letter behind them.
Grown(w, n) == w \o Times("bs", n)
GrownBy(w, n, c) == Append(Grown(w, n), c)

\* A mark that goes into the word as it is.
IsLetter(c, quoted) == c # "bs" /\ c # "quote" /\ (c = "space" => quoted = TRUE)

LEMMA TimesType ==
  ASSUME NEW n \in Nat
  PROVE  Times("bs", n) \in Seq({"bs"}) /\ Times("bs", n) \in Seq(Marks) /\ Len(Times("bs", n)) = n
<1>1. Times("bs", n) \in [1 .. n -> {"bs"}] /\ Times("bs", n) \in [1 .. n -> Marks]
  BY DEF Times, Marks
<1>2. Times("bs", n) \in Seq({"bs"}) /\ Times("bs", n) \in Seq(Marks)
  BY <1>1, IsSeq
<1> HIDE DEF Marks
<1>3. DOMAIN Times("bs", n) = 1 .. n
  BY <1>1
<1>4. Len(Times("bs", n)) = n
  BY <1>2, <1>3, LenProperties
<1> QED
  BY <1>2, <1>4

LEMMA NoTimes == Times("bs", 0) = << >>
<1>1. Times("bs", 0) \in Seq({"bs"}) /\ Len(Times("bs", 0)) = 0
  BY TimesType
<1> QED
  BY <1>1, EmptySeq

LEMMA OneTimeMore ==
  ASSUME NEW n \in Nat
  PROVE  Times("bs", n + 1) = Append(Times("bs", n), "bs")
<1> DEFINE t == Times("bs", n)
           u == Times("bs", n + 1)
<1>1. t \in Seq({"bs"}) /\ Len(t) = n /\ u \in Seq({"bs"}) /\ Len(u) = n + 1
  BY TimesType
<1>2. (\A i \in 1 .. n : t[i] = "bs") /\ (\A i \in 1 .. n + 1 : u[i] = "bs")
  BY DEF Times
<1> HIDE DEF t, u
<1>3. /\ Append(t, "bs") \in Seq({"bs"}) /\ Len(Append(t, "bs")) = n + 1
      /\ \A i \in 1 .. n + 1 : Append(t, "bs")[i] = "bs"
  <2>1. OneMore(Append(t, "bs"), t, "bs") /\ Append(t, "bs") \in Seq({"bs"})
    BY <1>1, AppendIsOneMore
  <2>2. \A i \in 1 .. n + 1 : i \in 1 .. n \/ i = n + 1
    OBVIOUS
  <2> QED
    BY <1>1, <1>2, <2>1, <2>2 DEF OneMore
<1>4. Len(u) = Len(Append(t, "bs")) /\ \A i \in 1 .. Len(u) : u[i] = Append(t, "bs")[i]
  BY <1>1, <1>2, <1>3
<1>5. u = Append(t, "bs")
  BY <1>1, <1>3, <1>4, SeqEqual
<1> QED
  BY <1>5 DEF t, u

LEMMA NotGrown == ASSUME NEW w \in Seq(Marks) PROVE Grown(w, 0) = w
BY NoTimes, ConcatEmptySeq DEF Grown

\* One mark, before a word and in it.
LEMMA ReadBackslash ==
  ASSUME NEW a, NEW w \in Seq(Marks), NEW quoted, NEW n \in Nat
  PROVE  ArgvMark(At(a, w, quoted, n), "bs") = At(a, w, quoted, n + 1)
BY DEF ArgvMark, At

LEMMA FreshBackslash ==
  ASSUME NEW a
  PROVE  ArgvMark(Fresh(a), "bs") = At(a, << >>, FALSE, 1)
<1>1. ArgvMark(Fresh(a), "bs") = [Fresh(a) EXCEPT !.bs = 0 + 1, !.open = TRUE]
  BY DEF ArgvMark, Fresh
<1>2. 0 + 1 = 1
  OBVIOUS
<1> QED
  BY <1>1, <1>2 DEF Fresh, At

LEMMA QuoteMark ==
  ASSUME NEW st, st.argv = << >> \/ st.bs % 2 = 0
  PROVE  ArgvMark(st, "quote") =
         [st EXCEPT !.word = @ \o (IF st.argv = << >> THEN Times("bs", st.bs)
                                                     ELSE Times("bs", st.bs \div 2)),
                    !.bs = 0, !.quoted = ~@, !.open = TRUE]
BY DEF ArgvMark

LEMMA ReadQuote ==
  ASSUME NEW a, NEW w \in Seq(Marks), NEW n \in Nat, a = << >> => n = 0, n % 2 = 0
  PROVE  ArgvMark(At(a, w, TRUE, n), "quote") = At(a, Grown(w, n \div 2), FALSE, 0)
<1> DEFINE st == At(a, w, TRUE, n)
<1>1. st.argv = a /\ st.word = w /\ st.bs = n /\ st.quoted = TRUE
  BY DEF At
<1>2. a = << >> => Times("bs", n) = Times("bs", n \div 2)
  OBVIOUS
<1> HIDE DEF st
<1>3. ArgvMark(st, "quote") =
        [st EXCEPT !.word = st.word \o (IF st.argv = << >> THEN Times("bs", st.bs)
                                                          ELSE Times("bs", st.bs \div 2)),
                   !.bs = 0, !.quoted = ~st.quoted, !.open = TRUE]
  BY <1>1, QuoteMark
<1>4. ArgvMark(st, "quote") =
        [st EXCEPT !.word = Grown(w, n \div 2), !.bs = 0, !.quoted = FALSE, !.open = TRUE]
  BY <1>1, <1>2, <1>3 DEF Grown
<1> USE DEF st
<1> QED
  BY <1>4 DEF At

LEMMA FreshQuote ==
  ASSUME NEW a
  PROVE  ArgvMark(Fresh(a), "quote") = At(a, << >>, TRUE, 0)
<1> DEFINE st == Fresh(a)
<1>1. st.argv = a /\ st.word = << >> /\ st.bs = 0 /\ st.quoted = FALSE
  BY DEF Fresh
<1>2. 0 % 2 = 0 /\ 0 \div 2 = 0
  OBVIOUS
<1>3. ArgvMark(st, "quote") =
        [st EXCEPT !.word = << >> \o Times("bs", 0), !.bs = 0, !.quoted = TRUE, !.open = TRUE]
  BY <1>1, <1>2, QuoteMark
<1>4. << >> \o Times("bs", 0) = << >>
  BY NoTimes
<1> QED
  BY <1>3, <1>4 DEF At, Fresh

LEMMA ReadEscapedQuote ==
  ASSUME NEW a, a # << >>, NEW w \in Seq(Marks), NEW quoted, NEW n \in Nat, n % 2 = 1
  PROVE  ArgvMark(At(a, w, quoted, n), "quote") = At(a, GrownBy(w, n \div 2, "quote"), quoted, 0)
<1> DEFINE st == At(a, w, quoted, n)
           half == Grown(w, n \div 2)
<1>1. st.argv = a /\ st.word = w /\ st.bs = n
  BY DEF At
<1>2. ~(n % 2 = 0)
  OBVIOUS
<1>3. ArgvMark(st, "quote") =
        [st EXCEPT !.word = Append(half, "quote"), !.bs = 0, !.open = TRUE]
  BY <1>1, <1>2 DEF ArgvMark, Grown
<1> QED
  BY <1>3 DEF At, GrownBy

LEMMA FlushedAt ==
  ASSUME NEW a, NEW w, NEW quoted, NEW n
  PROVE  Flushed(At(a, w, quoted, n)) = At(a, Grown(w, n), quoted, 0)
<1> DEFINE st == At(a, w, quoted, n)
           more == Grown(w, n)
<1>1. st.word = w /\ st.bs = n
  BY DEF At
<1>2. Flushed(st) = [st EXCEPT !.word = more, !.bs = 0]
  BY <1>1 DEF Flushed, Grown
<1> HIDE DEF more
<1>3. Flushed(st) = At(a, more, quoted, 0)
  BY <1>2 DEF At
<1> QED
  BY <1>3 DEF more

LEMMA ReadLetter ==
  ASSUME NEW a, NEW w \in Seq(Marks), NEW quoted, NEW n \in Nat,
         NEW c \in Marks, IsLetter(c, quoted)
  PROVE  ArgvMark(At(a, w, quoted, n), c) = At(a, GrownBy(w, n, c), quoted, 0)
<1> DEFINE st == At(a, w, quoted, n)
           more == Grown(w, n)
           f == At(a, more, quoted, 0)
<1>1. st.quoted = quoted /\ f.word = more
  BY DEF At
<1>2. ArgvMark(st, c) = [Flushed(st) EXCEPT !.word = Append(@, c), !.open = TRUE]
  BY <1>1 DEF ArgvMark, IsLetter
<1>3. Flushed(st) = f
  BY FlushedAt
<1>4. ArgvMark(st, c) = [f EXCEPT !.word = Append(more, c), !.open = TRUE]
  BY <1>1, <1>2, <1>3
<1> HIDE DEF more
<1>5. ArgvMark(st, c) = At(a, Append(more, c), quoted, 0)
  BY <1>4 DEF At
<1> QED
  BY <1>5 DEF more, GrownBy

LEMMA FreshLetter ==
  ASSUME NEW a, NEW c \in Marks, IsLetter(c, FALSE)
  PROVE  ArgvMark(Fresh(a), c) = At(a, <<c>>, FALSE, 0)
<1> DEFINE st == Fresh(a)
<1>1. st.quoted = FALSE /\ st.word = << >> /\ st.bs = 0
  BY DEF Fresh
<1>2. ArgvMark(st, c) = [Flushed(st) EXCEPT !.word = Append(@, c), !.open = TRUE]
  BY <1>1 DEF ArgvMark, IsLetter
<1>3. Flushed(st) = st
  <2>1. Flushed(st) = [st EXCEPT !.word = << >> \o Times("bs", 0), !.bs = 0]
    BY <1>1 DEF Flushed
  <2>2. << >> \o Times("bs", 0) = << >>
    BY NoTimes
  <2> QED
    BY <2>1, <2>2 DEF Fresh
<1>4. Append(<< >>, c) = <<c>>
  OBVIOUS
<1>5. ArgvMark(st, c) = [st EXCEPT !.word = <<c>>, !.open = TRUE]
  BY <1>1, <1>2, <1>3, <1>4
<1> QED
  BY <1>5 DEF At, Fresh

LEMMA ReadEnd ==
  ASSUME NEW a, NEW w, NEW n
  PROVE  Ready(a, Grown(w, n), At(a, w, FALSE, n))
<1> DEFINE st == At(a, w, FALSE, n)
           more == Grown(w, n)
           f == At(a, more, FALSE, 0)
<1>1. Flushed(st) = f
  BY FlushedAt
<1>2. f.argv = a /\ f.word = more /\ f.open = TRUE
  BY DEF At
<1>3. Closed(st) = [ArgvStart EXCEPT !.argv = Append(a, more)]
  BY <1>1, <1>2 DEF Closed
<1> HIDE DEF more
<1>4. Closed(st) = Fresh(Append(a, more))
  BY <1>3 DEF Fresh, ArgvStart
<1>5. st.quoted = FALSE
  BY DEF At
<1> QED
  BY <1>4, <1>5 DEF Ready, more


ReadStates ==
    [argv : Seq(Seq(Marks)), word : Seq(Marks), open : BOOLEAN, quoted : BOOLEAN, bs : Nat]

ReadInv(l, st) == st \in ReadStates

Reader == INSTANCE FoldProofs WITH Step <- ArgvMark, Base <- ArgvStart, Inv <- ReadInv

LEMMA ReadIsFold == ASSUME NEW l PROVE Read(l) = Reader!Fold(l)
BY DEF Read, Reader!Fold, Reader!FoldLeft, Reader!MapThenFoldSet, FoldLeft, MapThenFoldSet, Max,
       Reader!Max

LEMMA ReadOfNone == Read(<< >>) = Fresh(<< >>)
<1>1. Read(<< >>) = ArgvStart
  BY ReadIsFold, Reader!FoldOfNone
<1> QED
  BY <1>1 DEF ArgvStart, Fresh

LEMMA ReadOfMore ==
  ASSUME NEW l \in Seq(Marks), NEW c \in Marks
  PROVE  Read(Append(l, c)) = ArgvMark(Read(l), c)
BY ReadIsFold, Reader!FoldOfMore

LEMMA ConcatAppend ==
  ASSUME NEW U, NEW p \in Seq(U), NEW x \in Seq(U), NEW c \in U
  PROVE  /\ p \o Append(x, c) = Append(p \o x, c)
         /\ p \o x \in Seq(U) /\ Append(x, c) \in Seq(U) /\ p \o << >> = p
<1>1. Append(x, c) = x \o <<c>> /\ Append(p \o x, c) = (p \o x) \o <<c>>
  BY AppendIsConcat, ConcatProperties
<1>2. (p \o x) \o <<c>> = p \o (x \o <<c>>)
  <2>1. <<c>> \in Seq(U)
    OBVIOUS
  <2> QED
    BY <2>1, ConcatAssociative
<1>3. p \o x \in Seq(U) /\ Append(x, c) \in Seq(U) /\ p \o << >> = p
  BY ConcatProperties, AppendProperties, ConcatEmptySeq
<1> QED
  BY <1>1, <1>2, <1>3

LEMMA ReadOfConcat ==
  ASSUME NEW p \in Seq(Marks), NEW x \in Seq(Marks), NEW c \in Marks
  PROVE  Read(p \o Append(x, c)) = ArgvMark(Read(p \o x), c)
<1>1. p \o Append(x, c) = Append(p \o x, c) /\ p \o x \in Seq(Marks)
  BY ConcatAppend
<1>2. Read(Append(p \o x, c)) = ArgvMark(Read(p \o x), c)
  BY <1>1, ReadOfMore
<1> QED
  BY <1>1, <1>2

-----------------------------------------------------------------------------
\* An induction over a row that folds nothing.
Same(v, x) == v

\* A run of backslashes in a word is counted.
RunInv(x, v) ==
    \A p \in Seq(Marks) : \A a, w, quoted :
        w \in Seq(Marks) /\ Read(p) = At(a, w, quoted, 0) => Read(p \o x) = At(a, w, quoted, Len(x))

Runs == INSTANCE FoldProofs WITH Step <- Same, Base <- 0, Inv <- RunInv

LEMMA ReadRun ==
  ASSUME NEW p \in Seq(Marks), NEW a, NEW w \in Seq(Marks), NEW quoted, NEW n \in Nat,
         Read(p) = At(a, w, quoted, 0)
  PROVE  Read(p \o Times("bs", n)) = At(a, w, quoted, n)
<1>1. RunInv(<< >>, 0)
  BY ConcatEmptySeq DEF RunInv
<1>2. ASSUME NEW x \in Seq({"bs"}), NEW c \in {"bs"}, NEW v, RunInv(x, v)
      PROVE  RunInv(Append(x, c), Same(v, c))
  <2>1. x \in Seq(Marks) /\ c \in Marks /\ c = "bs"
    <3>1. {"bs"} \subseteq Marks
      BY DEF Marks
    <3> QED
      BY <3>1, SeqMonotonic
  <2>2. Len(x) \in Nat /\ Len(Append(x, c)) = Len(x) + 1
    OBVIOUS
  <2>3. SUFFICES ASSUME NEW r \in Seq(Marks), NEW b, NEW z \in Seq(Marks), NEW q,
                        Read(r) = At(b, z, q, 0)
                 PROVE  Read(r \o Append(x, c)) = At(b, z, q, Len(x) + 1)
    BY <2>2 DEF RunInv
  <2>4. Read(r \o x) = At(b, z, q, Len(x))
    BY <1>2, <2>3 DEF RunInv
  <2> QED
    <3>1. Read(r \o Append(x, c)) = ArgvMark(Read(r \o x), c)
      BY <2>1, ReadOfConcat
    <3>2. ArgvMark(At(b, z, q, Len(x)), "bs") = At(b, z, q, Len(x) + 1)
      BY <2>2, ReadBackslash
    <3> QED
      BY <2>1, <2>4, <3>1, <3>2
<1>3. \A x \in Seq({"bs"}) : RunInv(x, Runs!Fold(x))
  BY <1>1, <1>2, Runs!FoldInduction
<1>4. Times("bs", n) \in Seq({"bs"}) /\ Len(Times("bs", n)) = n
  BY TimesType
<1> QED
  BY <1>3, <1>4 DEF RunInv

-----------------------------------------------------------------------------
\* A word that needs no quotes is read as it stands.
NoneOf(marks, x) == \A i \in 1 .. Len(x) : x[i] \notin marks

LEMMA NoneOfMore ==
  ASSUME NEW marks, NEW x \in Seq(Marks), NEW c \in Marks, NoneOf(marks, Append(x, c))
  PROVE  NoneOf(marks, x) /\ c \notin marks
<1> DEFINE t == Append(x, c)
<1>1. Len(x) \in Nat /\ Len(t) = Len(x) + 1 /\ t[Len(x) + 1] = c /\ \A i \in 1 .. Len(x) : t[i] = x[i]
  BY AppendProperties
<1> HIDE DEF t
<1>2. Len(x) + 1 \in 1 .. Len(x) + 1 /\ \A i \in 1 .. Len(x) : i \in 1 .. Len(x) + 1
  BY <1>1
<1>3. NoneOf(marks, t)
  BY DEF t
<1> QED
  BY <1>1, <1>2, <1>3 DEF NoneOf

LEMMA GrownOnce ==
  ASSUME NEW w \in Seq(Marks), NEW n \in Nat
  PROVE  Append(Grown(w, n), "bs") = Grown(w, n + 1)
<1>1. "bs" \in Marks
  BY DEF Marks
<1>2. Times("bs", n) \in Seq(Marks) /\ Times("bs", n + 1) = Append(Times("bs", n), "bs")
  BY TimesType, OneTimeMore
<1>3. w \o Append(Times("bs", n), "bs") = Append(w \o Times("bs", n), "bs")
  BY <1>1, <1>2, ConcatAppend
<1> QED
  BY <1>2, <1>3 DEF Grown

\* What is read of such a word s, the backslashes at its end apart.
InWord(a, s, quoted, n, st) ==
    \E w \in Seq(Marks) : s = Grown(w, n) /\ st = At(a, w, quoted, n)

LEMMA InWordBackslash ==
  ASSUME NEW a, NEW s \in Seq(Marks), NEW quoted, NEW n \in Nat, NEW st,
         InWord(a, s, quoted, n, st)
  PROVE  InWord(a, Append(s, "bs"), quoted, n + 1, ArgvMark(st, "bs"))
<1>1. PICK w \in Seq(Marks) : s = Grown(w, n) /\ st = At(a, w, quoted, n)
  BY DEF InWord
<1>2. ArgvMark(st, "bs") = At(a, w, quoted, n + 1)
  BY <1>1, ReadBackslash
<1>3. Append(s, "bs") = Grown(w, n + 1)
  BY <1>1, GrownOnce
<1> QED
  BY <1>2, <1>3 DEF InWord

LEMMA InWordLetter ==
  ASSUME NEW a, NEW s \in Seq(Marks), NEW quoted, NEW n \in Nat, NEW st,
         InWord(a, s, quoted, n, st),
         NEW c \in Marks, IsLetter(c, quoted)
  PROVE  InWord(a, Append(s, c), quoted, 0, ArgvMark(st, c))
<1>1. PICK w \in Seq(Marks) : s = Grown(w, n) /\ st = At(a, w, quoted, n)
  BY DEF InWord
<1>2. ArgvMark(st, c) = At(a, Append(s, c), quoted, 0)
  <2>1. ArgvMark(At(a, w, quoted, n), c)
          = At(a, GrownBy(w, n, c), quoted, 0)
    BY ReadLetter
  <2> QED
    BY <1>1, <2>1 DEF GrownBy
<1>3. Append(s, c) \in Seq(Marks) /\ Append(s, c) = Grown(Append(s, c), 0)
  BY AppendProperties, NotGrown
<1> QED
  BY <1>2, <1>3 DEF InWord

PlainInv(x, v) ==
    \A p \in Seq(Marks) : \A a :
        Read(p) = Fresh(a) /\ NoneOf({"quote", "space"}, x) =>
            \/ x = << >>
            \/ \E n \in Nat : InWord(a, x, FALSE, n, Read(p \o x))

PlainWords == INSTANCE FoldProofs WITH Step <- Same, Base <- 0, Inv <- PlainInv

LEMMA ReadPlain ==
  ASSUME NEW p \in Seq(Marks), NEW a, Read(p) = Fresh(a),
         NEW s \in Seq(Marks), s # << >>, NoneOf({"quote", "space"}, s)
  PROVE  Ready(a, s, Read(p \o s))
<1>1. PlainInv(<< >>, 0)
  BY DEF PlainInv
<1>2. ASSUME NEW x \in Seq(Marks), NEW c \in Marks, NEW v, PlainInv(x, v)
      PROVE  PlainInv(Append(x, c), Same(v, c))
  <2>1. SUFFICES ASSUME NEW r \in Seq(Marks), NEW b, Read(r) = Fresh(b),
                        NoneOf({"quote", "space"}, Append(x, c))
                 PROVE  \E n \in Nat : InWord(b, Append(x, c), FALSE, n, Read(r \o Append(x, c)))
    BY DEF PlainInv
  <2>2. NoneOf({"quote", "space"}, x) /\ c # "quote" /\ c # "space"
    BY <2>1, NoneOfMore
  <2>3. Read(r \o Append(x, c)) = ArgvMark(Read(r \o x), c)
    BY ReadOfConcat
  <2>4. CASE x = << >>
    <3>1. Read(r \o x) = Fresh(b)
      BY <2>1, <2>4, ConcatEmptySeq
    <3>2. CASE c = "bs"
      <4>1. ArgvMark(Fresh(b), "bs") = At(b, << >>, FALSE, 1)
        BY FreshBackslash
      <4>2. Append(x, c) = Grown(<< >>, 1) /\ << >> \in Seq(Marks)
        <5>1. Times("bs", 0 + 1) = Append(Times("bs", 0), "bs") /\ 0 + 1 = 1
          <6>1. 0 \in Nat /\ 0 + 1 = 1
            OBVIOUS
          <6>2. Times("bs", 0 + 1) = Append(Times("bs", 0), "bs")
            BY <6>1, OneTimeMore
          <6> QED
            BY <6>1, <6>2
        <5>2. Times("bs", 1) = Append(x, c)
          BY <2>4, <3>2, <5>1, NoTimes
        <5>3. Times("bs", 1) \in Seq(Marks)
          BY TimesType
        <5> QED
          BY <5>2, <5>3, ConcatEmptySeq, EmptySeq DEF Grown
      <4>3. InWord(b, Append(x, c), FALSE, 1, Read(r \o Append(x, c)))
        BY <2>3, <3>1, <3>2, <4>1, <4>2 DEF InWord
      <4> QED
        BY <4>3
    <3>3. CASE c # "bs"
      <4>1. ArgvMark(Fresh(b), c) = At(b, <<c>>, FALSE, 0)
        BY <2>2, <3>3, FreshLetter DEF IsLetter
      <4>2. Append(x, c) = <<c>> /\ <<c>> \in Seq(Marks)
        BY <2>4
      <4>3. Append(x, c) = Grown(<<c>>, 0)
        BY <4>2, NotGrown
      <4>4. InWord(b, Append(x, c), FALSE, 0, Read(r \o Append(x, c)))
        BY <2>3, <3>1, <4>1, <4>2, <4>3 DEF InWord
      <4> QED
        BY <4>4
    <3> QED
      BY <3>2, <3>3
  <2>5. CASE x # << >>
    <3>1. PICK n \in Nat : InWord(b, x, FALSE, n, Read(r \o x))
      BY <1>2, <2>1, <2>2, <2>5 DEF PlainInv
    <3>2. CASE c = "bs"
      <4>1. InWord(b, Append(x, c), FALSE, n + 1, Read(r \o Append(x, c)))
        BY <2>3, <3>1, <3>2, InWordBackslash
      <4>2. n + 1 \in Nat
        OBVIOUS
      <4> QED
        BY <4>1, <4>2
    <3>3. CASE c # "bs"
      <4>1. InWord(b, Append(x, c), FALSE, 0, Read(r \o Append(x, c)))
        <5>1. IsLetter(c, FALSE) /\ FALSE \in BOOLEAN
          BY <2>2, <3>3 DEF IsLetter
        <5> QED
          BY <2>3, <3>1, <5>1, InWordLetter
      <4> QED
        BY <4>1
    <3> QED
      BY <3>2, <3>3
  <2> QED
    BY <2>4, <2>5
<1>3. \A x \in Seq(Marks) : PlainInv(x, PlainWords!Fold(x))
  BY <1>1, <1>2, PlainWords!FoldInduction
<1>4. PICK n \in Nat : InWord(a, s, FALSE, n, Read(p \o s))
  BY <1>3 DEF PlainInv
<1> QED
  BY <1>4, ReadEnd DEF InWord


-----------------------------------------------------------------------------
\* A word that is quoted is read with its escapes undone.

\* A run of backslashes and the mark behind it.
RunAnd(x, n, c) == x \o Times("bs", n) \o <<c>>

\* In a quoted word, behind backslashes and behind none.
Inside(a, w, n) == At(a, w, TRUE, n)
Begun(a, w) == At(a, w, TRUE, 0)

LEMMA ReadRunAnd ==
  ASSUME NEW p \in Seq(Marks), NEW x \in Seq(Marks), NEW a, NEW w \in Seq(Marks),
         Read(p \o x) = Begun(a, w), NEW n \in Nat, NEW c \in Marks
  PROVE  /\ RunAnd(x, n, c) \in Seq(Marks)
         /\ Read(p \o RunAnd(x, n, c)) = ArgvMark(Inside(a, w, n), c)
<1> DEFINE t == Times("bs", n)
           q == p \o x
           y == x \o t
<1>1. t \in Seq(Marks)
  BY TimesType
<1>2. y \in Seq(Marks) /\ q \in Seq(Marks)
  BY <1>1, ConcatProperties
<1>3. q \o t = p \o y
  BY <1>1, ConcatAssociative
<1>4. Read(q \o t) = At(a, w, TRUE, n)
  <2> HIDE DEF q
  <2>1. PICK quoted \in BOOLEAN : quoted = TRUE
    OBVIOUS
  <2>2. Read(q) = At(a, w, quoted, 0)
    BY <2>1 DEF q, Begun
  <2>3. Read(q \o Times("bs", n)) = At(a, w, quoted, n)
    BY <1>2, <2>2, ReadRun
  <2> QED
    BY <2>1, <2>3
<1>8. RunAnd(x, n, c) = y \o <<c>>
  BY DEF RunAnd
<1> HIDE DEF y, t, q
<1>5. y \o <<c>> = Append(y, c) /\ Append(y, c) \in Seq(Marks)
  BY <1>2, AppendIsConcat, AppendProperties
<1>6. Read(p \o Append(y, c)) = ArgvMark(Read(p \o y), c)
  BY <1>2, ReadOfConcat
<1>7. y \o <<c>> \in Seq(Marks) /\ Read(p \o (y \o <<c>>)) = ArgvMark(Inside(a, w, n), c)
  BY <1>3, <1>4, <1>5, <1>6 DEF Inside
<1> QED
  BY <1>7, <1>8

\* Of the word s the backslashes at its end are still to be written.
Behind(a, s, n, st) == \E w \in Seq(Marks) : s = Grown(w, n) /\ st = At(a, w, TRUE, 0)

EscapeStart == [out |-> <<"quote">>, bs |-> 0]

EscapeInv(s, e) ==
    /\ s \in Seq(Marks) /\ e.out \in Seq(Marks) /\ e.bs \in Nat
    /\ \A p \in Seq(Marks) : \A a :
          Read(p) = Fresh(a) /\ (a = << >> => NoneOf({"quote"}, s)) =>
              Behind(a, s, e.bs, Read(p \o e.out))

Escapes == INSTANCE FoldProofs WITH Step <- EscapeMark, Base <- EscapeStart, Inv <- EscapeInv

LEMMA EscapedIsFold == ASSUME NEW s PROVE Escaped(s) = Escapes!Fold(s)
BY DEF Escaped, EscapeStart, Escapes!Fold, Escapes!FoldLeft, Escapes!MapThenFoldSet, FoldLeft,
       MapThenFoldSet, Max, Escapes!Max

LEMMA EscapeStarts == EscapeInv(<< >>, EscapeStart)
<1>1. EscapeStart.out = <<"quote">> /\ EscapeStart.bs = 0
  BY DEF EscapeStart
<1>2. "quote" \in Marks
  BY DEF Marks
<1>3. <<"quote">> \in Seq(Marks) /\ << >> \in Seq(Marks)
  BY <1>2, EmptySeq
<1>4. ASSUME NEW p \in Seq(Marks), NEW a, Read(p) = Fresh(a)
      PROVE  Behind(a, << >>, 0, Read(p \o <<"quote">>))
  <2>1. p \o <<"quote">> = Append(p, "quote")
    BY <1>2, AppendIsConcat
  <2>2. Read(p \o <<"quote">>) = At(a, << >>, TRUE, 0)
    BY <1>2, <1>4, <2>1, ReadOfMore, FreshQuote
  <2>3. << >> = Grown(<< >>, 0)
    BY <1>3, NotGrown
  <2> QED
    BY <1>3, <2>2, <2>3 DEF Behind
<1> QED
  BY <1>1, <1>3, <1>4 DEF EscapeInv

LEMMA EscapeGoes ==
  ASSUME NEW s \in Seq(Marks), NEW c \in Marks, NEW e, EscapeInv(s, e)
  PROVE  EscapeInv(Append(s, c), EscapeMark(e, c))
<1> DEFINE t == Append(s, c)
           n == e.bs
           x == e.out
<1>1. t \in Seq(Marks) /\ n \in Nat /\ x \in Seq(Marks)
  BY AppendProperties DEF EscapeInv
<1>2. ASSUME NEW p \in Seq(Marks), NEW a, Read(p) = Fresh(a), a = << >> => NoneOf({"quote"}, t)
      PROVE  \E w \in Seq(Marks) : s = Grown(w, n) /\ Read(p \o x) = At(a, w, TRUE, 0)
  <2>1. a = << >> => NoneOf({"quote"}, s)
    BY <1>2, NoneOfMore
  <2> QED
    BY <1>2, <2>1 DEF EscapeInv, Behind
<1>3. ASSUME NEW w \in Seq(Marks), s = Grown(w, n)
      PROVE  GrownBy(w, n, c) = t /\ t = Grown(t, 0)
  BY <1>1, <1>3, NotGrown DEF GrownBy
<1>4. CASE c = "bs"
  <2>1. e.out = x /\ EscapeMark(e, c) = [e EXCEPT !.bs = n + 1]
    BY <1>4 DEF EscapeMark
  <2> DEFINE f == EscapeMark(e, c)
  <2>2. f.out = x /\ f.bs = n + 1
    BY <2>1
  <2> HIDE DEF f
  <2>3. ASSUME NEW p \in Seq(Marks), NEW a, Read(p) = Fresh(a), a = << >> => NoneOf({"quote"}, t)
        PROVE  Behind(a, t, n + 1, Read(p \o x))
    <3>1. PICK w \in Seq(Marks) : s = Grown(w, n) /\ Read(p \o x) = At(a, w, TRUE, 0)
      BY <1>2, <2>3
    <3>2. t = Grown(w, n + 1)
      BY <1>1, <1>4, <3>1, GrownOnce
    <3> QED
      BY <3>1, <3>2 DEF Behind
  <2>4. n + 1 \in Nat
    BY <1>1
  <2>5. EscapeInv(t, f)
    BY <1>1, <2>2, <2>3, <2>4 DEF EscapeInv
  <2> QED
    BY <2>5 DEF f
<1>5. ASSUME NEW m \in Nat, EscapeMark(e, c) = [out |-> x \o Times("bs", m) \o <<c>>, bs |-> 0],
             ASSUME NEW p \in Seq(Marks), NEW a, Read(p) = Fresh(a),
                    a = << >> => NoneOf({"quote"}, t),
                    NEW w \in Seq(Marks), s = Grown(w, n)
             PROVE  ArgvMark(At(a, w, TRUE, m), c) = At(a, t, TRUE, 0)
      PROVE  EscapeInv(t, EscapeMark(e, c))
  <2> DEFINE y == RunAnd(x, m, c)
             f == EscapeMark(e, c)
  <2>1. f.out = y /\ f.bs = 0
    BY <1>5 DEF RunAnd
  <2>2. y \in Seq(Marks)
    <3>1. Times("bs", m) \in Seq(Marks) /\ <<c>> \in Seq(Marks)
      BY TimesType
    <3> QED
      BY <1>1, <3>1, ConcatProperties DEF RunAnd
  <2>3. ASSUME NEW p \in Seq(Marks), NEW a, Read(p) = Fresh(a), a = << >> => NoneOf({"quote"}, t)
        PROVE  Behind(a, t, 0, Read(p \o y))
    <3>1. PICK w \in Seq(Marks) : s = Grown(w, n) /\ Read(p \o x) = At(a, w, TRUE, 0)
      BY <1>2, <2>3
    <3>2. Read(p \o y) = ArgvMark(At(a, w, TRUE, m), c)
      <4>1. Read(p \o x) = Begun(a, w)
        BY <3>1 DEF Begun
      <4>2. Read(p \o RunAnd(x, m, c)) = ArgvMark(Inside(a, w, m), c)
        BY <1>1, <4>1, ReadRunAnd
      <4> QED
        BY <4>2 DEF Inside
    <3>3. ArgvMark(At(a, w, TRUE, m), c) = At(a, t, TRUE, 0)
      BY <1>5, <2>3, <3>1
    <3>4. t = Grown(t, 0)
      BY <1>3, <3>1
    <3> QED
      BY <1>1, <3>2, <3>3, <3>4 DEF Behind
  <2> HIDE DEF f, y
  <2>4. EscapeInv(t, f)
    BY <1>1, <2>1, <2>2, <2>3 DEF EscapeInv
  <2> QED
    BY <2>4 DEF f
<1>6. CASE c = "quote"
  <2>1. 2 * n + 1 \in Nat /\ (2 * n + 1) % 2 = 1 /\ (2 * n + 1) \div 2 = n
    BY <1>1, SMTT(40)
  <2>2. EscapeMark(e, c) = [out |-> x \o Times("bs", 2 * n + 1) \o <<c>>, bs |-> 0]
    BY <1>6 DEF EscapeMark
  <2>3. ASSUME NEW p \in Seq(Marks), NEW a, Read(p) = Fresh(a), a = << >> => NoneOf({"quote"}, t),
               NEW w \in Seq(Marks), s = Grown(w, n)
        PROVE  ArgvMark(At(a, w, TRUE, 2 * n + 1), c) = At(a, t, TRUE, 0)
    <3>1. a # << >>
      BY <1>6, <2>3, NoneOfMore
    <3>2. ArgvMark(At(a, w, TRUE, 2 * n + 1), "quote") = At(a, GrownBy(w, n, "quote"), TRUE, 0)
      <4> DEFINE m == 2 * n + 1
      <4>1. m \in Nat /\ m % 2 = 1 /\ m \div 2 = n
        BY <2>1
      <4> HIDE DEF m
      <4>2. ArgvMark(At(a, w, TRUE, m), "quote") = At(a, GrownBy(w, m \div 2, "quote"), TRUE, 0)
        BY <3>1, <4>1, ReadEscapedQuote
      <4> QED
        BY <4>1, <4>2 DEF m
    <3> QED
      BY <1>3, <1>6, <2>3, <3>2
  <2> QED
    BY <1>5, <2>1, <2>2, <2>3
<1>7. CASE c # "bs" /\ c # "quote"
  <2>1. EscapeMark(e, c) = [out |-> x \o Times("bs", n) \o <<c>>, bs |-> 0]
    BY <1>7 DEF EscapeMark
  <2>2. ASSUME NEW a, NEW w \in Seq(Marks), s = Grown(w, n)
        PROVE  ArgvMark(At(a, w, TRUE, n), c) = At(a, t, TRUE, 0)
    <3>1. IsLetter(c, TRUE)
      BY <1>7 DEF IsLetter
    <3>2. ArgvMark(At(a, w, TRUE, n), c) = At(a, GrownBy(w, n, c), TRUE, 0)
      BY <1>1, <3>1, ReadLetter, ZenonT(60)
    <3> QED
      BY <1>3, <2>2, <3>2
  <2> QED
    BY <1>1, <1>5, <2>1, <2>2
<1> QED
  BY <1>4, <1>6, <1>7

LEMMA EscapeMeans == ASSUME NEW s \in Seq(Marks) PROVE EscapeInv(s, Escaped(s))
<1>1. \A r \in Seq(Marks) : EscapeInv(r, Escapes!Fold(r))
  BY EscapeStarts, EscapeGoes, Escapes!FoldInduction
<1> QED
  BY <1>1, EscapedIsFold

-----------------------------------------------------------------------------
\* What the first word must be like: no quote in it, and no backslash at its end if
\* it holds a space.
FirstWord(s) ==
    /\ NoneOf({"quote"}, s)
    /\ "space" \in ToSet(s) => Last(s) # "bs"

LEMMA ReadWord ==
  ASSUME NEW p \in Seq(Marks), NEW a, Read(p) = Fresh(a), NEW s \in Seq(Marks),
         a = << >> => FirstWord(s)
  PROVE  EscapeArg(s) \in Seq(Marks) /\ Ready(a, s, Read(p \o EscapeArg(s)))
<1>0. Len(s) \in Nat /\ DOMAIN s = 1 .. Len(s) /\ ToSet(s) = {s[i] : i \in 1 .. Len(s)}
  BY DEF ToSet
<1>1. CASE ~NeedsQuotes(s)
  <2>1. EscapeArg(s) = s /\ s # << >>
    BY <1>1 DEF EscapeArg, NeedsQuotes
  <2>2. NoneOf({"quote", "space"}, s)
    BY <1>0, <1>1 DEF NeedsQuotes, NoneOf
  <2> QED
    BY <2>1, <2>2, ReadPlain
<1>2. CASE NeedsQuotes(s)
  <2> DEFINE e == Escaped(s)
             n == e.bs
             x == e.out
             m == 2 * n
             y == RunAnd(x, m, "quote")
  <2>1. EscapeArg(s) = y
    BY <1>2 DEF EscapeArg, RunAnd
  <2>2. EscapeInv(s, e)
    BY EscapeMeans
  <2> HIDE DEF e
  <2>3. x \in Seq(Marks) /\ n \in Nat
    BY <2>2 DEF EscapeInv
  <2>4. PICK w \in Seq(Marks) : s = Grown(w, n) /\ Read(p \o x) = At(a, w, TRUE, 0)
    BY <2>2 DEF EscapeInv, Behind, FirstWord
  <2>5. a = << >> => n = 0
    <3>1. SUFFICES ASSUME FirstWord(s), n # 0 PROVE FALSE
      OBVIOUS
    <3>2. n - 1 \in Nat /\ n - 1 + 1 = n
      BY <2>3, <3>1
    <3>3. s = Append(Grown(w, n - 1), "bs")
      BY <2>4, <3>2, GrownOnce
    <3>4. Grown(w, n - 1) \in Seq(Marks) /\ "bs" \in Marks
      <4>1. Times("bs", n - 1) \in Seq(Marks)
        BY <3>2, TimesType
      <4>2. "bs" \in Marks
        BY DEF Marks
      <4> QED
        BY <4>1, <4>2, ConcatProperties DEF Grown
    <3>5. s # << >> /\ Last(s) = "bs"
      BY <3>3, <3>4, AppendProperties DEF Last
    <3>6. "space" \in ToSet(s)
      BY <1>0, <1>2, <3>1, <3>5 DEF NeedsQuotes, FirstWord, NoneOf
    <3> QED
      BY <3>1, <3>5, <3>6 DEF FirstWord
  <2>6. "quote" \in Marks
    BY DEF Marks
  <2>7. m \in Nat /\ m % 2 = 0 /\ m \div 2 = n /\ (a = << >> => m = 0)
    BY <2>3, <2>5
  <2> HIDE DEF x, n, m
  <2>8. y \in Seq(Marks) /\ Read(p \o y) = ArgvMark(At(a, w, TRUE, m), "quote")
    <3>1. Read(p \o x) = Begun(a, w)
      BY <2>4 DEF Begun
    <3>2. /\ RunAnd(x, m, "quote") \in Seq(Marks)
          /\ Read(p \o RunAnd(x, m, "quote")) = ArgvMark(Inside(a, w, m), "quote")
      BY <2>3, <2>6, <2>7, <3>1, ReadRunAnd
    <3> QED
      BY <3>2 DEF Inside
  <2>9. ArgvMark(At(a, w, TRUE, m), "quote") = At(a, Grown(w, n), FALSE, 0)
    <3>1. ArgvMark(At(a, w, TRUE, m), "quote") = At(a, Grown(w, m \div 2), FALSE, 0)
      BY <2>7, ReadQuote
    <3> QED
      BY <2>7, <3>1
  <2>10. Ready(a, s, At(a, s, FALSE, 0))
    <3>1. Ready(a, Grown(s, 0), At(a, s, FALSE, 0))
      BY ReadEnd
    <3> QED
      BY <3>1, NotGrown
  <2> QED
    BY <2>1, <2>4, <2>8, <2>9, <2>10
<1> QED
  BY <1>1, <1>2


-----------------------------------------------------------------------------
\* The line: a space between the words.
SpacedPieces(ss) == [i \in DOMAIN ss |-> IF i = 1 THEN ss[i] ELSE <<"space">> \o ss[i]]

LEMMA SpacedIsFlat == ASSUME NEW ss PROVE Spaced(ss) = FlattenSeq(SpacedPieces(ss))
BY DEF Spaced, SpacedPieces

LEMMA Space == "space" \in Marks /\ <<"space">> \in Seq(Marks)
<1>1. "space" \in Marks
  BY DEF Marks
<1> HIDE DEF Marks
<1> QED
  BY <1>1

LEMMA SpacedType ==
  ASSUME NEW ss \in Seq(Seq(Marks))
  PROVE  /\ SpacedPieces(ss) \in Seq(Seq(Marks)) /\ Len(SpacedPieces(ss)) = Len(ss)
         /\ Spaced(ss) \in Seq(Marks)
<1>1. Len(ss) \in Nat /\ DOMAIN ss = 1 .. Len(ss) /\ \A i \in 1 .. Len(ss) : ss[i] \in Seq(Marks)
  OBVIOUS
<1>2. ASSUME NEW i \in 1 .. Len(ss)
      PROVE  (IF i = 1 THEN ss[i] ELSE <<"space">> \o ss[i]) \in Seq(Marks)
  BY <1>1, Space, ConcatProperties
<1>3. SpacedPieces(ss) \in [1 .. Len(ss) -> Seq(Marks)]
  BY <1>1, <1>2 DEF SpacedPieces
<1>4. SpacedPieces(ss) \in Seq(Seq(Marks))
  BY <1>1, <1>3, IsSeq
<1>5. Len(SpacedPieces(ss)) = Len(ss)
  BY <1>1, <1>3, <1>4, LenProperties
<1>6. Spaced(ss) \in Seq(Marks)
  BY <1>4, JoinMeans, SpacedIsFlat
<1> QED
  BY <1>4, <1>5, <1>6

LEMMA SpacedNone == Spaced(<< >>) = << >>
<1>1. << >> \in Seq(Seq(Marks)) /\ Len(<< >>) = 0
  BY EmptySeq
<1>2. SpacedPieces(<< >>) = << >>
  BY <1>1, SpacedType, EmptySeq
<1>3. FlattenSeq(<< >>) = << >>
  BY PiecesAreJoined, Pieces!ChainOfNone
<1> QED
  BY <1>2, <1>3, SpacedIsFlat

LEMMA SpacedOne ==
  ASSUME NEW x \in Seq(Marks)
  PROVE  Spaced(<<x>>) = x
<1> DEFINE ss == <<x>>
           pp == SpacedPieces(ss)
<1>1. ss \in Seq(Seq(Marks)) /\ Len(ss) = 1 /\ ss[1] = x /\ DOMAIN ss = 1 .. 1
  OBVIOUS
<1>2. pp \in Seq(Seq(Marks)) /\ Len(pp) = 1
  BY <1>1, SpacedType
<1>3. pp[1] = x
  BY <1>1 DEF SpacedPieces
<1> HIDE DEF ss, pp
<1>4. \A i \in 1 .. 1 : i = 1
  OBVIOUS
<1>5. pp = ss
  BY <1>1, <1>2, <1>3, <1>4, SeqEqual
<1>6. FlattenSeq(<<x>>) = x
  BY PiecesAreJoined, Pieces!ChainOfOne
<1> QED
  BY <1>5, <1>6, SpacedIsFlat DEF ss, pp

LEMMA SpacedMore ==
  ASSUME NEW ss \in Seq(Seq(Marks)), ss # << >>, NEW x \in Seq(Marks)
  PROVE  Spaced(Append(ss, x)) = Spaced(ss) \o (<<"space">> \o x)
<1> DEFINE tt == Append(ss, x)
           pp == SpacedPieces(ss)
           qq == SpacedPieces(tt)
           y == <<"space">> \o x
           n == Len(ss)
<1>1. n \in Nat /\ n # 0 /\ DOMAIN ss = 1 .. n
  BY EmptySeq
<1>2. tt \in Seq(Seq(Marks)) /\ Len(tt) = n + 1 /\ tt[n + 1] = x /\ \A i \in 1 .. n : tt[i] = ss[i]
  BY AppendProperties
<1>3. y \in Seq(Marks)
  BY Space, ConcatProperties
<1>4. /\ pp \in Seq(Seq(Marks)) /\ Len(pp) = n
      /\ qq \in Seq(Seq(Marks)) /\ Len(qq) = n + 1
  BY <1>2, SpacedType
<1>5. DOMAIN tt = 1 .. n + 1
  BY <1>2, LenProperties
<1>6. (\A i \in 1 .. n : pp[i] = IF i = 1 THEN ss[i] ELSE <<"space">> \o ss[i])
      /\ (\A i \in 1 .. n + 1 : qq[i] = IF i = 1 THEN tt[i] ELSE <<"space">> \o tt[i])
  BY <1>1, <1>5 DEF SpacedPieces
<1> HIDE DEF tt, pp, qq
<1>7. (\A i \in 1 .. n : qq[i] = pp[i]) /\ qq[n + 1] = y
  <2>1. n + 1 \in 1 .. n + 1 /\ n + 1 # 1 /\ \A i \in 1 .. n : i \in 1 .. n + 1
    BY <1>1
  <2>2. qq[n + 1] = <<"space">> \o tt[n + 1]
    BY <1>6, <2>1
  <2>3. ASSUME NEW i \in 1 .. n PROVE qq[i] = pp[i]
    <3>1. i \in 1 .. n + 1 /\ tt[i] = ss[i]
      BY <1>2, <2>1
    <3> QED
      BY <1>6, <3>1
  <2> QED
    BY <1>2, <2>2, <2>3
<1>8. OneMore(qq, pp, y)
  BY <1>4, <1>7, LenProperties DEF OneMore
<1> HIDE DEF y, n
<1>11. qq = Append(pp, y)
  BY <1>3, <1>4, <1>8, OneMoreIsAppend
<1>12. FlattenSeq(pp) \in Seq(Marks)
  BY <1>4, JoinMeans
<1>13. FlattenSeq(Append(pp, y)) = FlattenSeq(pp) \o y
  BY <1>3, <1>4, <1>12, FlattenOfMore
<1> QED
  BY <1>11, <1>13, SpacedIsFlat DEF pp, qq, tt, y

\* All words escaped, and only the first.
EscapedAll(ws) == [i \in DOMAIN ws |-> EscapeArg(ws[i])]
EscapedFirst(ws) == [i \in DOMAIN ws |-> IF i = 1 THEN EscapeArg(ws[i]) ELSE ws[i]]

LEMMA EscapeArgType == ASSUME NEW s \in Seq(Marks) PROVE EscapeArg(s) \in Seq(Marks)
<1>1. CASE ~NeedsQuotes(s)
  BY <1>1 DEF EscapeArg
<1>2. CASE NeedsQuotes(s)
  <2> DEFINE e == Escaped(s)
             m == 2 * e.bs
  <2>1. EscapeInv(s, e)
    BY EscapeMeans
  <2> HIDE DEF e
  <2>2. e.out \in Seq(Marks) /\ m \in Nat
    BY <2>1 DEF EscapeInv
  <2> HIDE DEF m
  <2>3. Times("bs", m) \in Seq(Marks)
    BY <2>2, TimesType
  <2>4. <<"quote">> \in Seq(Marks)
    <3>1. "quote" \in Marks
      BY DEF Marks
    <3> QED
      BY <3>1
  <2>5. e.out \o Times("bs", m) \o <<"quote">> \in Seq(Marks)
    BY <2>2, <2>3, <2>4, ConcatProperties
  <2> QED
    BY <1>2, <2>5 DEF EscapeArg, e, m
<1> QED
  BY <1>1, <1>2

LEMMA EscapedTypes ==
  ASSUME NEW ws \in Seq(Seq(Marks))
  PROVE  /\ EscapedAll(ws) \in Seq(Seq(Marks)) /\ Len(EscapedAll(ws)) = Len(ws)
         /\ \A i \in 1 .. Len(ws) : EscapedAll(ws)[i] = EscapeArg(ws[i])
         /\ EscapedFirst(ws) \in Seq(Seq(Marks)) /\ Len(EscapedFirst(ws)) = Len(ws)
         /\ \A i \in 1 .. Len(ws) :
                EscapedFirst(ws)[i] = IF i = 1 THEN EscapeArg(ws[i]) ELSE ws[i]
<1> DEFINE a == EscapedAll(ws)
           b == EscapedFirst(ws)
           n == Len(ws)
<1>1. n \in Nat /\ DOMAIN ws = 1 .. n /\ \A i \in 1 .. n : ws[i] \in Seq(Marks)
  OBVIOUS
<1>2. \A i \in 1 .. n : EscapeArg(ws[i]) \in Seq(Marks)
  BY <1>1, EscapeArgType
<1>3. a \in [1 .. n -> Seq(Marks)] /\ \A i \in 1 .. n : a[i] = EscapeArg(ws[i])
  BY <1>1, <1>2 DEF EscapedAll
<1>4. b \in [1 .. n -> Seq(Marks)]
      /\ \A i \in 1 .. n : b[i] = IF i = 1 THEN EscapeArg(ws[i]) ELSE ws[i]
  BY <1>1, <1>2 DEF EscapedFirst
<1> HIDE DEF a, b, n
<1>5. a \in Seq(Seq(Marks)) /\ b \in Seq(Seq(Marks))
  BY <1>1, <1>3, <1>4, IsSeq
<1>6. Len(a) = n /\ Len(b) = n
  BY <1>1, <1>3, <1>4, <1>5, LenProperties
<1> QED
  BY <1>3, <1>4, <1>5, <1>6 DEF a, b, n

LEMMA EscapedOfMore ==
  ASSUME NEW ws \in Seq(Seq(Marks)), NEW x \in Seq(Marks)
  PROVE  /\ EscapedAll(Append(ws, x)) = Append(EscapedAll(ws), EscapeArg(x))
         /\ ws # << >> => EscapedFirst(Append(ws, x)) = Append(EscapedFirst(ws), x)
<1> DEFINE tt == Append(ws, x)
           n == Len(ws)
           y == EscapeArg(x)
<1>1. n \in Nat /\ tt \in Seq(Seq(Marks)) /\ Len(tt) = n + 1 /\ tt[n + 1] = x
      /\ \A i \in 1 .. n : tt[i] = ws[i]
  BY AppendProperties
<1>2. y \in Seq(Marks)
  BY EscapeArgType
<1>3. n + 1 \in 1 .. n + 1 /\ \A i \in 1 .. n : i \in 1 .. n + 1
  BY <1>1
<1> HIDE DEF tt
<1>4. EscapedAll(tt) = Append(EscapedAll(ws), y)
  <2> DEFINE a == EscapedAll(ws)
             b == EscapedAll(tt)
  <2>1. a \in Seq(Seq(Marks)) /\ Len(a) = n /\ \A i \in 1 .. n : a[i] = EscapeArg(ws[i])
    BY EscapedTypes
  <2>2. b \in Seq(Seq(Marks)) /\ Len(b) = n + 1 /\ \A i \in 1 .. n + 1 : b[i] = EscapeArg(tt[i])
    BY <1>1, EscapedTypes
  <2> HIDE DEF a, b, n
  <2>3. b[n + 1] = y /\ \A i \in 1 .. n : b[i] = a[i]
    BY <1>1, <1>3, <2>1, <2>2
  <2>4. OneMore(b, a, y)
    BY <1>1, <2>1, <2>2, <2>3, LenProperties DEF OneMore
  <2> HIDE DEF y
  <2>5. b = Append(a, y)
    BY <1>2, <2>1, <2>2, <2>4, OneMoreIsAppend
  <2> QED
    BY <2>5 DEF a, b
<1>5. ASSUME ws # << >> PROVE EscapedFirst(tt) = Append(EscapedFirst(ws), x)
  <2> DEFINE a == EscapedFirst(ws)
             b == EscapedFirst(tt)
  <2>0. n # 0
    BY <1>5, EmptySeq
  <2>1. a \in Seq(Seq(Marks)) /\ Len(a) = n
        /\ \A i \in 1 .. n : a[i] = IF i = 1 THEN EscapeArg(ws[i]) ELSE ws[i]
    BY EscapedTypes
  <2>2. b \in Seq(Seq(Marks)) /\ Len(b) = n + 1
        /\ \A i \in 1 .. n + 1 : b[i] = IF i = 1 THEN EscapeArg(tt[i]) ELSE tt[i]
    BY <1>1, EscapedTypes
  <2> HIDE DEF a, b, n
  <2>3. b[n + 1] = x
    <3>1. n + 1 # 1
      BY <1>1, <2>0
    <3> QED
      BY <1>1, <1>3, <2>2, <3>1
  <2>4. ASSUME NEW i \in 1 .. n PROVE b[i] = a[i]
    <3>1. i \in 1 .. n + 1 /\ tt[i] = ws[i]
      BY <1>1, <1>3
    <3> QED
      BY <2>1, <2>2, <3>1
  <2>5. OneMore(b, a, x)
    BY <1>1, <2>1, <2>2, <2>3, <2>4, LenProperties DEF OneMore
  <2>6. b = Append(a, x)
    BY <2>1, <2>2, <2>5, OneMoreIsAppend
  <2> QED
    BY <2>6 DEF a, b
<1> QED
  BY <1>4, <1>5 DEF tt, y


-----------------------------------------------------------------------------
\* The whole line is read.
Whole(ws, l) == l \in Seq(Marks) /\ Read(l).quoted = FALSE /\ Closed(Read(l)) = Fresh(ws)

LEMMA ReadSpace ==
  ASSUME NEW ws, NEW l, Whole(ws, l)
  PROVE  Append(l, "space") \in Seq(Marks) /\ Read(Append(l, "space")) = Fresh(ws)
<1>1. l \in Seq(Marks) /\ Read(l).quoted = FALSE /\ Closed(Read(l)) = Fresh(ws)
  BY DEF Whole
<1>2. Append(l, "space") \in Seq(Marks)
  BY <1>1, Space, AppendProperties
<1>3. Read(Append(l, "space")) = ArgvMark(Read(l), "space")
  BY <1>1, Space, ReadOfMore
<1>4. ArgvMark(Read(l), "space") = Closed(Read(l))
  BY <1>1 DEF ArgvMark
<1> QED
  BY <1>1, <1>2, <1>3, <1>4

LEMMA FirstWhole ==
  ASSUME NEW w \in Seq(Marks), FirstWord(w)
  PROVE  Whole(<<w>>, EscapeArg(w))
<1> DEFINE p == << >>
           e == EscapeArg(w)
<1>1. p \in Seq(Marks) /\ Read(p) = Fresh(<< >>)
  BY EmptySeq, ReadOfNone
<1>2. e \in Seq(Marks) /\ Ready(<< >>, w, Read(p \o e))
  BY <1>1, ReadWord
<1>3. p \o e = e
  BY <1>2, ConcatEmptySeq
<1>4. Append(<< >>, w) = <<w>>
  OBVIOUS
<1> QED
  BY <1>2, <1>3, <1>4 DEF Ready, Whole

\* One word more behind a space.
LEMMA SpaceMoves ==
  ASSUME NEW l \in Seq(Marks), NEW e \in Seq(Marks)
  PROVE  l \o (<<"space">> \o e) = Append(l, "space") \o e
<1>1. Append(l, "space") = l \o <<"space">>
  BY Space, AppendIsConcat
<1> QED
  BY <1>1, Space, ConcatAssociative

LEMMA MoreWhole ==
  ASSUME NEW ws, ws # << >>, NEW l, Whole(ws, l), NEW x \in Seq(Marks)
  PROVE  Whole(Append(ws, x), l \o (<<"space">> \o EscapeArg(x)))
<1> DEFINE e == EscapeArg(x)
           p == Append(l, "space")
<1>1. l \in Seq(Marks) /\ p \in Seq(Marks) /\ Read(p) = Fresh(ws)
  BY ReadSpace DEF Whole
<1> HIDE DEF p
<1>2. e \in Seq(Marks) /\ Ready(ws, x, Read(p \o e))
  BY <1>1, ReadWord
<1> HIDE DEF e
<1>3. l \o (<<"space">> \o e) = p \o e
  BY <1>1, <1>2, SpaceMoves DEF p
<1>4. p \o e \in Seq(Marks)
  BY <1>1, <1>2, ConcatProperties
<1>5. Whole(Append(ws, x), l \o (<<"space">> \o e))
  BY <1>2, <1>3, <1>4 DEF Ready, Whole
<1> QED
  BY <1>5 DEF e

AllInv(ws, v) == ws = << >> \/ (FirstWord(ws[1]) => Whole(ws, Spaced(EscapedAll(ws))))

AllWords == INSTANCE FoldProofs WITH Step <- Same, Base <- 0, Inv <- AllInv

\* A row of words of which one comes first.
LEMMA FirstStays ==
  ASSUME NEW U, NEW ws \in Seq(U), NEW x \in U
  PROVE  /\ ws = << >> => Append(ws, x) = <<x>> /\ Append(ws, x)[1] = x
         /\ ws # << >> => Append(ws, x)[1] = ws[1]
         /\ Append(ws, x) # << >>
<1> DEFINE t == Append(ws, x)
           n == Len(ws)
<1>1. n \in Nat /\ t \in Seq(U) /\ Len(t) = n + 1 /\ t[n + 1] = x /\ \A i \in 1 .. n : t[i] = ws[i]
  BY AppendProperties
<1>2. CASE ws = << >>
  <2>1. Append(<< >>, x) = <<x>> /\ <<x>>[1] = x /\ <<x>> # << >>
    OBVIOUS
  <2> QED
    BY <1>2, <2>1
<1>3. CASE ws # << >>
  <2>1. n # 0 /\ n + 1 # 0
    BY <1>1, <1>3, EmptySeq
  <2> HIDE DEF t
  <2>2. t[1] = ws[1] /\ t # << >>
    BY <1>1, <2>1, EmptySeq
  <2> QED
    BY <1>3, <2>2 DEF t
<1> QED
  BY <1>2, <1>3

LEMMA EscapedOne ==
  ASSUME NEW x \in Seq(Marks)
  PROVE  EscapedAll(<<x>>) = <<EscapeArg(x)>> /\ EscapedFirst(<<x>>) = <<EscapeArg(x)>>
<1>1. DOMAIN <<x>> = 1 .. 1 /\ <<x>>[1] = x /\ \A i \in 1 .. 1 : i = 1
  OBVIOUS
<1>2. EscapedAll(<<x>>) = [i \in 1 .. 1 |-> EscapeArg(x)]
      /\ EscapedFirst(<<x>>) = [i \in 1 .. 1 |-> EscapeArg(x)]
  BY <1>1 DEF EscapedAll, EscapedFirst
<1>3. \A y : [i \in 1 .. 1 |-> y] = <<y>>
  OBVIOUS
<1> QED
  BY <1>2, <1>3

LEMMA WholeLine ==
  ASSUME NEW ws \in Seq(Seq(Marks)), ws # << >>, FirstWord(ws[1])
  PROVE  Whole(ws, Spaced(EscapedAll(ws)))
<1>1. AllInv(<< >>, 0)
  BY DEF AllInv
<1>2. ASSUME NEW r \in Seq(Seq(Marks)), NEW x \in Seq(Marks), NEW v, AllInv(r, v)
      PROVE  AllInv(Append(r, x), Same(v, x))
  <2>1. SUFFICES ASSUME FirstWord(Append(r, x)[1])
                 PROVE  Whole(Append(r, x), Spaced(EscapedAll(Append(r, x))))
    BY DEF AllInv
  <2>2. CASE r = << >>
    <3>1. Append(r, x) = <<x>> /\ FirstWord(x)
      BY <2>1, <2>2, FirstStays
    <3>2. Spaced(EscapedAll(<<x>>)) = EscapeArg(x)
      BY EscapedOne, EscapeArgType, SpacedOne
    <3> QED
      BY <3>1, <3>2, FirstWhole
  <2>3. CASE r # << >>
    <3>1. Whole(r, Spaced(EscapedAll(r)))
      BY <1>2, <2>1, <2>3, FirstStays DEF AllInv
    <3>2. EscapedAll(Append(r, x)) = Append(EscapedAll(r), EscapeArg(x))
      BY EscapedOfMore
    <3>3. EscapedAll(r) \in Seq(Seq(Marks)) /\ EscapedAll(r) # << >>
      BY <2>3, EscapedTypes, EmptySeq
    <3>4. Spaced(Append(EscapedAll(r), EscapeArg(x)))
            = Spaced(EscapedAll(r)) \o (<<"space">> \o EscapeArg(x))
      BY <3>3, EscapeArgType, SpacedMore
    <3> QED
      BY <2>3, <3>1, <3>2, <3>4, MoreWhole
  <2> QED
    BY <2>2, <2>3
<1>3. \A r \in Seq(Seq(Marks)) : AllInv(r, AllWords!Fold(r))
  BY <1>1, <1>2, AllWords!FoldInduction
<1> QED
  BY <1>3 DEF AllInv

LEMMA LineRead ==
  ASSUME NEW ws \in Seq(Seq(Marks)), ws # << >>, FirstWord(ws[1])
  PROVE  CommandLineToArgvW(Spaced(EscapedAll(ws))) = ws
<1> DEFINE l == Spaced(EscapedAll(ws))
<1>1. Closed(Read(l)) = Fresh(ws)
  BY WholeLine DEF Whole
<1>2. CommandLineToArgvW(l) = Closed(Read(l)).argv
  BY DEF CommandLineToArgvW, Read
<1>3. Fresh(ws).argv = ws
  BY DEF Fresh
<1> QED
  BY <1>1, <1>2, <1>3


-----------------------------------------------------------------------------
\* cmd.exe: the first word is read, and the rest stands on the line as it is.
Grew(v, u) == v = u \/ \E x \in Seq(Marks) : v = Append(u, x)

LEMMA FlushedType ==
  ASSUME NEW st \in ReadStates
  PROVE  Flushed(st) \in ReadStates /\ Flushed(st).argv = st.argv
<1> DEFINE t == Times("bs", st.bs)
           w == st.word \o t
<1>1. st.bs \in Nat /\ st.word \in Seq(Marks)
  BY DEF ReadStates
<1>2. t \in Seq(Marks)
  BY <1>1, TimesType
<1>3. w \in Seq(Marks)
  BY <1>1, <1>2, ConcatProperties
<1>4. Flushed(st) = [st EXCEPT !.word = w, !.bs = 0]
  BY DEF Flushed
<1> HIDE DEF w
<1> DEFINE s == [st EXCEPT !.word = w, !.bs = 0]
<1>5. s \in ReadStates /\ s.argv = st.argv
  BY <1>3 DEF ReadStates
<1> QED
  BY <1>4, <1>5

LEMMA ClosedType ==
  ASSUME NEW st \in ReadStates
  PROVE  Closed(st) \in ReadStates /\ Grew(Closed(st).argv, st.argv)
<1> DEFINE f == Flushed(st)
           a == Append(f.argv, f.word)
           s == [ArgvStart EXCEPT !.argv = a]
<1>1. f \in ReadStates /\ f.argv = st.argv
  BY FlushedType
<1>2. f.argv \in Seq(Seq(Marks)) /\ f.word \in Seq(Marks) /\ f.open \in BOOLEAN
  BY <1>1 DEF ReadStates
<1>3. a \in Seq(Seq(Marks))
  BY <1>2, AppendProperties
<1>4. Closed(st) = IF f.open THEN s ELSE f
  BY DEF Closed
<1> HIDE DEF f, a
<1>5. << >> \in Seq(Marks)
  BY EmptySeq
<1>6. s.argv = a /\ s \in ReadStates
  BY <1>3, <1>5 DEF ArgvStart, ReadStates
<1> HIDE DEF s
<1>7. CASE f.open
  <2>1. Closed(st) = s
    BY <1>4, <1>7
  <2>2. a = Append(st.argv, f.word)
    BY <1>1 DEF a
  <2> QED
    BY <1>2, <1>6, <2>1, <2>2 DEF Grew
<1>8. CASE ~f.open
  BY <1>1, <1>4, <1>8 DEF Grew
<1> QED
  BY <1>7, <1>8

LEMMA MarkType ==
  ASSUME NEW st \in ReadStates, NEW c \in Marks
  PROVE  ArgvMark(st, c) \in ReadStates /\ Grew(ArgvMark(st, c).argv, st.argv)
<1> DEFINE m == st.bs \div 2
           half == Times("bs", m)
           full == Times("bs", st.bs)
           f == Flushed(st)
<1>1. /\ st.bs \in Nat /\ st.word \in Seq(Marks) /\ st.quoted \in BOOLEAN /\ st.open \in BOOLEAN
      /\ m \in Nat /\ st.argv \in Seq(Seq(Marks)) /\ st.bs + 1 \in Nat
  BY DEF ReadStates
<1>2. half \in Seq(Marks) /\ full \in Seq(Marks)
  <2> HIDE DEF m
  <2> QED
    BY <1>1, TimesType
<1>3. f \in ReadStates /\ f.argv = st.argv /\ f.word \in Seq(Marks)
  BY FlushedType DEF ReadStates
<1>4. \A w \in Seq(Marks) : w \o half \in Seq(Marks) /\ w \o full \in Seq(Marks)
                            /\ Append(w, c) \in Seq(Marks)
  <2> HIDE DEF half, full
  <2>1. ASSUME NEW w \in Seq(Marks)
        PROVE  w \o half \in Seq(Marks) /\ w \o full \in Seq(Marks) /\ Append(w, c) \in Seq(Marks)
    BY <1>2, ConcatProperties, AppendProperties
  <2> QED
    BY <2>1
<1> HIDE DEF half, full, f, m
<1>5. CASE c = "space" /\ st.quoted = FALSE
  <2>1. ArgvMark(st, c) = Closed(st)
    BY <1>5 DEF ArgvMark
  <2> QED
    BY <2>1, ClosedType
<1>6. CASE c = "quote" /\ (st.argv = << >> \/ st.bs % 2 = 0)
  <2> DEFINE w == st.word \o (IF st.argv = << >> THEN full ELSE half)
             q == ~st.quoted
             s == [st EXCEPT !.word = w, !.bs = 0, !.quoted = q, !.open = TRUE]
  <2>1. ArgvMark(st, c) = s
    BY <1>6, QuoteMark DEF full, half, m
  <2>2. w \in Seq(Marks) /\ q \in BOOLEAN
    BY <1>1, <1>4
  <2> HIDE DEF w, q
  <2>3. s \in ReadStates /\ s.argv = st.argv
    BY <2>2 DEF ReadStates
  <2> QED
    BY <2>1, <2>3 DEF Grew
<1>7. CASE c = "quote" /\ ~(st.argv = << >> \/ st.bs % 2 = 0)
  <2> DEFINE w == Append(st.word \o half, c)
             s == [st EXCEPT !.word = w, !.bs = 0, !.open = TRUE]
  <2>1. st.bs % 2 = 1
    BY <1>1, <1>7
  <2>2. ArgvMark(st, c) = s
    BY <1>7, <2>1 DEF ArgvMark, half, m
  <2>3. w \in Seq(Marks)
    BY <1>1, <1>4
  <2> HIDE DEF w
  <2>4. s \in ReadStates /\ s.argv = st.argv
    BY <2>3 DEF ReadStates
  <2> QED
    BY <2>2, <2>4 DEF Grew
<1>8. CASE c = "bs"
  <2> DEFINE s == [st EXCEPT !.bs = st.bs + 1, !.open = TRUE]
  <2>1. ArgvMark(st, c) = s
    BY <1>8 DEF ArgvMark
  <2>2. s \in ReadStates /\ s.argv = st.argv
    BY <1>1 DEF ReadStates
  <2> QED
    BY <2>1, <2>2 DEF Grew
<1>9. CASE c # "quote" /\ c # "bs" /\ ~(c = "space" /\ st.quoted = FALSE)
  <2> DEFINE w == Append(f.word, c)
             s == [f EXCEPT !.word = w, !.open = TRUE]
  <2>1. c = "space" => st.quoted = TRUE
    BY <1>1, <1>9
  <2>2. ArgvMark(st, c) = s
    BY <1>9, <2>1 DEF ArgvMark, f
  <2>3. w \in Seq(Marks)
    BY <1>3, <1>4
  <2> HIDE DEF w
  <2>4. s \in ReadStates /\ s.argv = f.argv
    BY <1>3, <2>3 DEF ReadStates
  <2> QED
    BY <1>3, <2>2, <2>4 DEF Grew
<1> QED
  BY <1>5, <1>6, <1>7, <1>8, <1>9

LEMMA ReadType == ASSUME NEW l \in Seq(Marks) PROVE Read(l) \in ReadStates
<1>1. ReadInv(<< >>, ArgvStart)
  BY EmptySeq DEF ReadInv, ReadStates, ArgvStart
<1>2. \A r \in Seq(Marks), c \in Marks : \A v : ReadInv(r, v) => ReadInv(Append(r, c), ArgvMark(v, c))
  BY MarkType DEF ReadInv
<1>3. \A r \in Seq(Marks) : ReadInv(r, Reader!Fold(r))
  BY <1>1, <1>2, Reader!FoldInduction
<1> QED
  BY <1>3, ReadIsFold DEF ReadInv

\* A first word that has been read stays.
Heard(w, st) == st.argv # << >> /\ st.argv[1] = w

LEMMA HeardStays ==
  ASSUME NEW w, NEW u \in Seq(Seq(Marks)), NEW v, u # << >>, u[1] = w, Grew(v, u)
  PROVE  v # << >> /\ v[1] = w
<1>1. CASE v = u BY <1>1
<1>2. CASE \E x \in Seq(Marks) : v = Append(u, x)
  <2>1. PICK x \in Seq(Marks) : v = Append(u, x)
    BY <1>2
  <2> QED
    BY <2>1, FirstStays
<1> QED
  BY <1>1, <1>2 DEF Grew

HeardInv(x, v) == \A p \in Seq(Marks) : \A w : Heard(w, Read(p)) => Heard(w, Read(p \o x))

Listening == INSTANCE FoldProofs WITH Step <- Same, Base <- 0, Inv <- HeardInv

LEMMA KeptHeard ==
  ASSUME NEW p \in Seq(Marks), NEW x \in Seq(Marks), NEW w, Heard(w, Read(p))
  PROVE  Heard(w, Read(p \o x))
<1>1. HeardInv(<< >>, 0)
  BY ConcatEmptySeq DEF HeardInv
<1>2. ASSUME NEW r \in Seq(Marks), NEW c \in Marks, NEW v, HeardInv(r, v)
      PROVE  HeardInv(Append(r, c), Same(v, c))
  <2>1. SUFFICES ASSUME NEW q \in Seq(Marks), NEW z, Heard(z, Read(q))
                 PROVE  Heard(z, Read(q \o Append(r, c)))
    BY DEF HeardInv
  <2>2. Heard(z, Read(q \o r))
    BY <1>2, <2>1 DEF HeardInv
  <2>3. Read(q \o Append(r, c)) = ArgvMark(Read(q \o r), c)
    BY ReadOfConcat
  <2>4. Read(q \o r) \in ReadStates
    BY ReadType, ConcatProperties
  <2>5. Grew(ArgvMark(Read(q \o r), c).argv, Read(q \o r).argv)
        /\ Read(q \o r).argv \in Seq(Seq(Marks))
    BY <2>4, MarkType DEF ReadStates
  <2> DEFINE u == Read(q \o r).argv
             t == ArgvMark(Read(q \o r), c).argv
  <2>6. u \in Seq(Seq(Marks)) /\ u # << >> /\ u[1] = z /\ Grew(t, u)
    BY <2>2, <2>5 DEF Heard
  <2> HIDE DEF u, t
  <2>7. t # << >> /\ t[1] = z
    BY <2>6, HeardStays
  <2> QED
    BY <2>3, <2>7 DEF Heard, t
<1>3. \A r \in Seq(Marks) : HeardInv(r, Listening!Fold(r))
  BY <1>1, <1>2, Listening!FoldInduction
<1> QED
  BY <1>3 DEF HeardInv


\* w is the first word of what is read when the line goes on behind l.
Leads(w, l) == l \in Seq(Marks) /\ Heard(w, Read(Append(l, "space")))

LEMMA LeadsOn ==
  ASSUME NEW w, NEW l, Leads(w, l), NEW x \in Seq(Marks)
  PROVE  Leads(w, l \o (<<"space">> \o x))
<1> DEFINE p == Append(l, "space")
           y == Append(x, "space")
           n == l \o (<<"space">> \o x)
<1>1. l \in Seq(Marks) /\ p \in Seq(Marks) /\ y \in Seq(Marks) /\ Heard(w, Read(p))
  BY Space, AppendProperties DEF Leads
<1>2. n = p \o x
  BY <1>1, SpaceMoves
<1>3. p \o x \in Seq(Marks) /\ p \o y = Append(p \o x, "space")
  <2> HIDE DEF p
  <2> QED
    BY <1>1, Space, ConcatAppend
<1> HIDE DEF p, y, n
<1>4. Heard(w, Read(p \o y))
  BY <1>1, KeptHeard
<1>5. n \in Seq(Marks) /\ Heard(w, Read(Append(n, "space")))
  BY <1>2, <1>3, <1>4
<1> QED
  BY <1>5 DEF Leads, n

LEMMA LeadsFirst ==
  ASSUME NEW w \in Seq(Marks), FirstWord(w)
  PROVE  Leads(w, EscapeArg(w))
<1> DEFINE l == EscapeArg(w)
<1>1. Whole(<<w>>, l)
  BY FirstWhole
<1>2. l \in Seq(Marks) /\ Read(Append(l, "space")) = Fresh(<<w>>)
  BY <1>1, ReadSpace DEF Whole
<1>3. Fresh(<<w>>).argv = <<w>> /\ <<w>> # << >> /\ <<w>>[1] = w
  BY DEF Fresh
<1> QED
  BY <1>2, <1>3 DEF Leads, Heard

LEMMA LeadsRead ==
  ASSUME NEW w, NEW l, Leads(w, l)
  PROVE  CommandLineToArgvW(l)[1] = w
<1> DEFINE st == Read(l)
           st2 == ArgvMark(st, "space")
<1>1. l \in Seq(Marks) /\ st \in ReadStates /\ Heard(w, st2)
  BY Space, ReadOfMore, ReadType DEF Leads
<1>2. CommandLineToArgvW(l) = Closed(st).argv
  BY DEF CommandLineToArgvW, Read
<1> HIDE DEF st
<1>3. st.quoted \in BOOLEAN /\ st.argv \in Seq(Seq(Marks))
  BY <1>1 DEF ReadStates
<1>4. CASE st.quoted = FALSE
  <2>1. st2 = Closed(st)
    BY <1>4 DEF ArgvMark
  <2> QED
    BY <1>1, <1>2, <2>1 DEF Heard
<1>5. CASE st.quoted = TRUE
  <2> DEFINE f == Flushed(st)
             a == Append(f.word, "space")
  <2>1. f \in ReadStates /\ f.argv = st.argv
    BY <1>1, FlushedType
  <2>2. st2 = [f EXCEPT !.word = a, !.open = TRUE]
    BY <1>5 DEF ArgvMark
  <2> HIDE DEF f, a
  <2>3. [f EXCEPT !.word = a, !.open = TRUE].argv = f.argv
    BY <2>1 DEF ReadStates
  <2>4. st.argv # << >> /\ st.argv[1] = w
    BY <1>1, <2>1, <2>2, <2>3 DEF Heard
  <2> DEFINE u == st.argv
             v == Closed(st).argv
  <2>5. u \in Seq(Seq(Marks)) /\ u # << >> /\ u[1] = w /\ Grew(v, u)
    BY <1>1, <1>3, <2>4, ClosedType
  <2> HIDE DEF u, v
  <2>6. v[1] = w
    BY <2>5, HeardStays
  <2> QED
    BY <1>2, <2>6 DEF v
<1> QED
  BY <1>3, <1>4, <1>5

\* The line of cmd.exe.
LiteralInv(ws, v) ==
    ws = << >> \/ (FirstWord(ws[1]) =>
        /\ Leads(ws[1], Spaced(EscapedFirst(ws)))
        /\ \E b \in Seq(Marks) : Spaced(EscapedFirst(ws)) = b \o Spaced(Tail(ws)))

Literally == INSTANCE FoldProofs WITH Step <- Same, Base <- 0, Inv <- LiteralInv

LEMMA TailOfMore ==
  ASSUME NEW U, NEW s \in Seq(U), s # << >>, NEW x \in U
  PROVE  Tail(Append(s, x)) = Append(Tail(s), x) /\ Tail(s) \in Seq(U)
         /\ (Tail(s) = << >> => Len(s) = 1)
<1> DEFINE t == Append(s, x)
           n == Len(s)
           a == Tail(s)
           b == Tail(t)
<1>1. n \in Nat /\ n # 0
  BY EmptySeq
<1>2. t \in Seq(U) /\ Len(t) = n + 1 /\ t[n + 1] = x /\ \A i \in 1 .. n : t[i] = s[i]
  BY AppendProperties
<1>3. t # << >>
  BY <1>1, <1>2, EmptySeq
<1>4. a \in Seq(U) /\ Len(a) = n - 1 /\ \A i \in 1 .. n - 1 : a[i] = s[i + 1]
  BY HeadTailProperties
<1> HIDE DEF t
<1>5. b \in Seq(U) /\ Len(b) = n /\ \A i \in 1 .. n : b[i] = t[i + 1]
  BY <1>1, <1>2, <1>3, HeadTailProperties
<1> HIDE DEF a, b
<1>6. OneMore(b, a, x)
  <2>1. n - 1 + 1 = n /\ n - 1 \in Nat /\ n \in 1 .. n
    BY <1>1
  <2>2. b[n] = x
    BY <1>2, <1>5, <2>1
  <2>3. \A i \in 1 .. n - 1 : i \in 1 .. n /\ i + 1 \in 1 .. n
    BY <1>1
  <2>4. \A i \in 1 .. n - 1 : b[i] = a[i]
    BY <1>2, <1>4, <1>5, <2>3
  <2>5. DOMAIN a = 1 .. n - 1 /\ DOMAIN b = 1 .. n
    BY <1>4, <1>5, LenProperties
  <2> QED
    BY <1>4, <1>5, <2>1, <2>2, <2>4, <2>5 DEF OneMore
<1>7. b = Append(a, x)
  BY <1>4, <1>5, <1>6, OneMoreIsAppend
<1>8. a = << >> => n = 1
  BY <1>1, <1>4, EmptySeq
<1> QED
  BY <1>4, <1>7, <1>8 DEF a, b, t, n

LEMMA LiteralLine ==
  ASSUME NEW ws \in Seq(Seq(Marks)), ws # << >>, FirstWord(ws[1])
  PROVE  /\ Leads(ws[1], Spaced(EscapedFirst(ws)))
         /\ \E b \in Seq(Marks) : Spaced(EscapedFirst(ws)) = b \o Spaced(Tail(ws))
<1>1. LiteralInv(<< >>, 0)
  BY DEF LiteralInv
<1>2. ASSUME NEW r \in Seq(Seq(Marks)), NEW x \in Seq(Marks), NEW v, LiteralInv(r, v)
      PROVE  LiteralInv(Append(r, x), Same(v, x))
  <2> DEFINE t == Append(r, x)
             l == Spaced(EscapedFirst(t))
  <2>1. SUFFICES ASSUME FirstWord(t[1])
                 PROVE  Leads(t[1], l) /\ \E b \in Seq(Marks) : l = b \o Spaced(Tail(t))
    BY DEF LiteralInv
  <2>2. CASE r = << >>
    <3>1. t = <<x>> /\ FirstWord(x) /\ t[1] = x
      BY <2>1, <2>2, FirstStays
    <3>2. Spaced(EscapedFirst(<<x>>)) = EscapeArg(x)
      BY EscapedOne, EscapeArgType, SpacedOne
    <3>3. Leads(x, EscapeArg(x))
      BY <3>1, LeadsFirst
    <3>4. Tail(<<x>>) = << >>
      OBVIOUS
    <3>5. EscapeArg(x) \in Seq(Marks) /\ EscapeArg(x) = EscapeArg(x) \o << >>
      BY EscapeArgType, ConcatEmptySeq
    <3>6. l = EscapeArg(x) /\ Spaced(Tail(t)) = << >>
      BY <3>1, <3>2, <3>4, SpacedNone
    <3> QED
      BY <3>1, <3>3, <3>5, <3>6
  <2>3. CASE r # << >>
    <3> DEFINE k == Spaced(EscapedFirst(r))
               y == <<"space">> \o x
               u == Tail(r)
    <3>1. t[1] = r[1] /\ FirstWord(r[1])
      BY <2>1, <2>3, FirstStays
    <3>2. Leads(r[1], k) /\ \E b \in Seq(Marks) : k = b \o Spaced(u)
      BY <1>2, <2>3, <3>1 DEF LiteralInv
    <3>3. PICK b \in Seq(Marks) : k = b \o Spaced(u)
      BY <3>2
    <3>4. EscapedFirst(t) = Append(EscapedFirst(r), x)
      BY <2>3, EscapedOfMore
    <3>5. EscapedFirst(r) \in Seq(Seq(Marks)) /\ EscapedFirst(r) # << >>
      BY <2>3, EscapedTypes, EmptySeq
    <3>6. l = k \o y
      BY <3>4, <3>5, SpacedMore
    <3>7. Tail(t) = Append(u, x) /\ u \in Seq(Seq(Marks))
      BY <2>3, TailOfMore
    <3>8. Spaced(u) \in Seq(Marks) /\ y \in Seq(Marks)
      BY <3>7, Space, SpacedType, ConcatProperties
    <3>9. Leads(r[1], k \o y)
      BY <3>2, LeadsOn
    <3> HIDE DEF t, l, k, y, u
    <3>10. CASE u = << >>
      <4>1. Spaced(Tail(t)) = x
        <5>1. Append(<< >>, x) = <<x>>
          OBVIOUS
        <5> QED
          BY <3>7, <3>10, <5>1, SpacedOne
      <4>2. k = b
        BY <3>3, <3>10, SpacedNone, ConcatEmptySeq
      <4>3. l = (b \o <<"space">>) \o x
        <5>1. b \o (<<"space">> \o x) = Append(b, "space") \o x
          BY SpaceMoves
        <5>2. Append(b, "space") = b \o <<"space">>
          BY Space, AppendIsConcat
        <5> QED
          BY <3>6, <4>2, <5>1, <5>2 DEF y
      <4>4. b \o <<"space">> \in Seq(Marks)
        BY Space, ConcatProperties
      <4> QED
        BY <3>1, <3>6, <3>9, <4>1, <4>3, <4>4
    <3>11. CASE u # << >>
      <4>1. Spaced(Tail(t)) = Spaced(u) \o y
        BY <3>7, <3>11, SpacedMore DEF y
      <4>2. l = b \o (Spaced(u) \o y)
        BY <3>3, <3>6, <3>8, ConcatAssociative, SMTT(40)
      <4> QED
        BY <3>1, <3>6, <3>9, <4>1, <4>2
    <3> QED
      BY <3>10, <3>11
  <2> QED
    BY <2>2, <2>3
<1>3. \A r \in Seq(Seq(Marks)) : LiteralInv(r, Literally!Fold(r))
  BY <1>1, <1>2, Literally!FoldInduction
<1> QED
  BY <1>3 DEF LiteralInv

LEMMA EndIsSuffix ==
  ASSUME NEW U, NEW b \in Seq(U), NEW t \in Seq(U)
  PROVE  IsSuffix(t, b \o t)
<1> DEFINE l == b \o t
           m == Len(t)
           n == Len(b)
           p == Reverse(t)
           q == Reverse(l)
<1>1. m \in Nat /\ n \in Nat
  OBVIOUS
<1>2. l \in Seq(U) /\ Len(l) = n + m /\ \A i \in 1 .. m : l[n + i] = t[i]
  BY ConcatProperties
<1> HIDE DEF l
<1>3. p \in [1 .. m -> U] /\ \A i \in 1 .. m : p[i] = t[(m - i) + 1]
  <2>1. \A i \in 1 .. m : (m - i) + 1 \in 1 .. m
    BY <1>1
  <2>2. \A i \in 1 .. m : t[(m - i) + 1] \in U
    BY <2>1
  <2> QED
    BY <2>2 DEF Reverse
<1>4. q \in [1 .. n + m -> U] /\ \A i \in 1 .. n + m : q[i] = l[((n + m) - i) + 1]
  <2>1. \A i \in 1 .. n + m : ((n + m) - i) + 1 \in 1 .. n + m
    BY <1>1
  <2>2. \A i \in 1 .. n + m : l[((n + m) - i) + 1] \in U
    BY <1>2, <2>1
  <2> QED
    BY <1>2, <2>2 DEF Reverse
<1> HIDE DEF p, q, m, n
<1>5. n + m \in Nat /\ m <= n + m
  BY <1>1
<1>6. p \in Seq(U) /\ q \in Seq(U) /\ Len(p) = m /\ Len(q) = n + m
  BY <1>1, <1>3, <1>4, <1>5, IsSeq, LenProperties
<1>7. \A i \in 1 .. m : q[i] = p[i]
  <2>1. ASSUME NEW i \in 1 .. m PROVE q[i] = p[i]
    <3>1. i \in 1 .. n + m /\ ((n + m) - i) + 1 = n + ((m - i) + 1) /\ (m - i) + 1 \in 1 .. m
      BY <1>1
    <3> QED
      BY <1>2, <1>3, <1>4, <3>1 DEF m
  <2> QED
    BY <2>1
<1>8. SubSeq(p, 1, m) = SubSeq(q, 1, m)
  <2> DEFINE c == SubSeq(p, 1, m)
             d == SubSeq(q, 1, m)
  <2>1. c \in Seq(U) /\ Len(c) = m /\ \A i \in 1 .. m : c[i] = p[i]
    BY <1>1, <1>6
  <2>2. d \in Seq(U) /\ Len(d) = m /\ \A i \in 1 .. m : d[i] = q[i]
    BY <1>1, <1>5, <1>6
  <2> HIDE DEF c, d
  <2>3. c = d
    BY <1>7, <2>1, <2>2, SeqEqual
  <2> QED
    BY <2>3 DEF c, d
<1> QED
  BY <1>5, <1>6, <1>8 DEF IsSuffix, IsPrefix, p, q, l


-----------------------------------------------------------------------------
\* The spelling of a tool is the path of a file: no path holds a quote, and none that
\* ends with a separator names a file.  (A path without a space may: it goes unquoted.)
ToolsArePaths ==
    \A t \in ToolSpellings :
        /\ NoneOf({"quote"}, t)
        /\ "space" \in ToSet(t) => Last(t) \notin {"bs", "fs"}

LEMMA ExecutableIsFirstWord ==
  ASSUME NEW t \in Seq(Marks), NoneOf({"quote"}, t),
         "space" \in ToSet(t) => Last(t) \notin {"bs", "fs"}
  PROVE  Executable(t) \in Seq(Marks) /\ FirstWord(Executable(t))
<1> DEFINE x == Executable(t)
           n == Len(t)
<1>1. n \in Nat /\ DOMAIN t = 1 .. n /\ \A i \in 1 .. n : t[i] \in Marks
  OBVIOUS
<1>2. \A i \in 1 .. n : (IF t[i] = "fs" THEN "bs" ELSE t[i]) \in Marks
  <2>1. "bs" \in Marks
    BY DEF Marks
  <2> QED
    BY <1>1, <2>1
<1>3. x \in [1 .. n -> Marks] /\ \A i \in 1 .. n : x[i] = IF t[i] = "fs" THEN "bs" ELSE t[i]
  BY <1>2 DEF Executable, ReplaceAll
<1> HIDE DEF x
<1>4. x \in Seq(Marks) /\ Len(x) = n /\ DOMAIN x = 1 .. n
  BY <1>1, <1>3, IsSeq, LenProperties
<1>5. NoneOf({"quote"}, x)
  BY <1>1, <1>3, <1>4 DEF NoneOf
<1>6. ASSUME "space" \in ToSet(x) PROVE Last(x) # "bs"
  <2>1. PICK i \in 1 .. n : x[i] = "space"
    BY <1>4, <1>6 DEF ToSet
  <2>2. t[i] = "space"
    BY <1>3, <2>1
  <2>3. "space" \in ToSet(t)
    BY <1>1, <2>2 DEF ToSet
  <2>4. t[n] \notin {"bs", "fs"} /\ n \in 1 .. n
    BY <1>1, <2>1, <2>3 DEF Last
  <2> QED
    BY <1>3, <1>4, <2>4 DEF Last
<1> QED
  BY <1>4, <1>5, <1>6 DEF FirstWord, x

\* What the line is made of.
BuildInv ==
    /\ phase \in {"parsed", "resolved"} => o.args \in Seq(STRING) /\ o.args # << >>
    /\ phase = "built" => /\ args \in Seq(Seq(Marks)) /\ args # << >>
                          /\ FirstWord(args[1])
                          /\ line = BuildChildCommandLine(args)

LEMMA ACommandIsGiven ==
  ASSUME NEW ws \in Seq(STRING), ~ParseOptions(ws).failed
  PROVE  ParseOptions(ws).args \in Seq(STRING) /\ ParseOptions(ws).args # << >>
<1> DEFINE x == ExpandArguments(ws)
           end == FoldLeft(ParseWord, ParseStart, x.words)
<1>1. ParseOptions(ws) = IF x.failed \/ end.o.failed \/ end.o.args = << >>
                         THEN Died ELSE end.o
  BY DEF ParseOptions, ParseStart
<1>2. Died.failed = TRUE
  BY DEF Died
<1> HIDE DEF end, x
<1>3. ParseOptions(ws).args # << >>
  BY <1>1, <1>2
<1>4. ParseOptions(ws) \in ParsedOptions
  BY OptionsMean
<1> QED
  BY <1>3, <1>4 DEF ParsedOptions

LEMMA BuildStands == ASSUME ToolsArePaths PROVE Spec => []BuildInv
<1>1. Init => BuildInv
  BY DEF Init, BuildInv
<1>2. ParsedInv /\ BuildInv /\ [Next]_vars => BuildInv'
  <2> SUFFICES ASSUME ParsedInv, BuildInv, [Next]_vars PROVE BuildInv'
    OBVIOUS
  <2>1. CASE Parse
    <3>1. words \in Seq(STRING) /\ o' = ParseOptions(words) /\ phase' \in {"died", "parsed"}
          /\ (phase' = "parsed" => ~ParseOptions(words).failed)
      BY <2>1 DEF Parse, ParsedInv
    <3> QED
      BY <3>1, ACommandIsGiven DEF BuildInv
  <2>2. CASE RefuseForeignMachine
    <3>1. phase = "parsed" /\ o'.args = o.args /\ phase' \in {"refused", "resolved"}
      BY <2>2 DEF RefuseForeignMachine, Defaults
    <3> QED
      BY <3>1 DEF BuildInv
  <2>3. CASE Build
    <3>1. PICK tool \in ToolSpellings, word \in WordSpellings :
            args' = [i \in DOMAIN o.args |-> CASE i = 1 -> Executable(tool)
                                               [] i = 2 -> word
                                               [] OTHER -> Plain]
      BY <2>3 DEF Build
    <3>2. phase = "resolved" /\ phase' = "built" /\ line' = BuildChildCommandLine(args')
      BY <2>3 DEF Build
    <3> DEFINE n == Len(o.args)
               x == Executable(tool)
               a == [i \in 1 .. n |-> CASE i = 1 -> x [] i = 2 -> word [] OTHER -> Plain]
    <3>3. o.args \in Seq(STRING) /\ o.args # << >>
      BY <3>2 DEF BuildInv
    <3>4. n \in Nat /\ n # 0 /\ DOMAIN o.args = 1 .. n
      BY <3>3, EmptySeq, LenProperties
    <3>5. tool \in Seq(Marks) /\ word \in Seq(Marks) /\ Plain \in Seq(Marks)
      BY InputsAssumption
    <3>6. x \in Seq(Marks) /\ FirstWord(x)
      BY <3>5, ExecutableIsFirstWord DEF ToolsArePaths
    <3>7. args' = a
      BY <3>1, <3>4
    <3> HIDE DEF n, x
    <3>8. a \in [1 .. n -> Seq(Marks)] /\ a[1] = x
      BY <3>4, <3>5, <3>6
    <3> HIDE DEF a
    <3>9. a \in Seq(Seq(Marks)) /\ Len(a) = n
      BY <3>4, <3>8, IsSeq, LenProperties
    <3>10. a # << >>
      BY <3>4, <3>9, EmptySeq
    <3> QED
      BY <3>2, <3>6, <3>7, <3>8, <3>9, <3>10 DEF BuildInv
  <2>4. CASE Launch BY <2>4 DEF Launch, BuildInv
  <2>5. CASE Run BY <2>5 DEF Run, BuildInv, launcher
  <2>6. CASE Ended BY <2>6 DEF Ended, BuildInv, vars, launcher
  <2>7. CASE UNCHANGED vars BY <2>7 DEF BuildInv, vars, launcher
  <2> QED BY <2>1, <2>2, <2>3, <2>4, <2>5, <2>6, <2>7 DEF Next
<1> QED
  BY <1>1, <1>2, ParsedOnlyOnce, PTL DEF Spec

\* For every tool whose spelling is a path and arguments of any number, length and
\* spelling: the tool reads its words as they were given, and behind cmd.exe the line
\* ends with their text as it is.
THEOREM ArgumentsArrive == ASSUME ToolsArePaths PROVE Spec => []ArgumentsArriveIntact
<1>1. BuildInv => ArgumentsArriveIntact
  <2> SUFFICES ASSUME BuildInv, phase = "built"
               PROVE  IF IsCmdExe(args[1])
                      THEN /\ CommandLineToArgvW(line)[1] = args[1]
                           /\ IsSuffix(Spaced(Tail(args)), line)
                      ELSE CommandLineToArgvW(line) = args
    BY DEF ArgumentsArriveIntact
  <2>1. /\ args \in Seq(Seq(Marks)) /\ args # << >> /\ FirstWord(args[1])
        /\ line = BuildChildCommandLine(args)
    BY DEF BuildInv
  <2>2. CASE IsCmdExe(args[1])
    <3>1. line = Spaced(EscapedFirst(args))
      BY <2>1, <2>2 DEF BuildChildCommandLine, EscapedFirst
    <3>2. Leads(args[1], line)
      BY <2>1, <3>1, LiteralLine
    <3>3. PICK b \in Seq(Marks) : line = b \o Spaced(Tail(args))
      BY <2>1, <3>1, LiteralLine
    <3>4. Spaced(Tail(args)) \in Seq(Marks)
      BY <2>1, HeadTailProperties, SpacedType
    <3>5. IsSuffix(Spaced(Tail(args)), line)
      BY <3>3, <3>4, EndIsSuffix
    <3>6. CommandLineToArgvW(line)[1] = args[1]
      BY <3>2, LeadsRead
    <3> QED
      BY <2>2, <3>5, <3>6
  <2>3. CASE ~IsCmdExe(args[1])
    <3>1. line = Spaced(EscapedAll(args))
      BY <2>1, <2>3 DEF BuildChildCommandLine, EscapedAll
    <3>2. CommandLineToArgvW(line) = args
      BY <2>1, <3>1, LineRead
    <3> QED
      BY <2>3, <3>2
  <2> QED
    BY <2>2, <2>3
<1> QED
  BY <1>1, BuildStands, PTL
=============================================================================
