------------------------------ MODULE Network ------------------------------
(***************************************************************************)
(* The network policy of -N and -n.  The launcher leaves it in an          *)
(* environment variable; the DLL of each process of the tree reads it when *)
(* it is attached and, if it restricts anything, hooks the Winsock calls.  *)
(* Hooking may fail.  Under -n the file hooks also refuse to open the      *)
(* device that sockets are made of.                                        *)
(***************************************************************************)
EXTENDS Naturals, FiniteSets

CONSTANTS Procs, Root   \* processes; the one the launcher starts

ASSUME RootAssumption == Root \in Procs

Policies == {"Allow", "LoopbackOnly", "BlockAll"}
EnvValues == {"unset", "loopback", "block"} \* any other value is like none

\* What a sockaddr says: its length, its family and, of an IP, whose it is.
Addrs == [len : {"none", "short", "whole"}, family : {"ip4", "ip6", "other"},
          host : {"loop", "outside"}]
\* Node names: one is local if it is empty, a localhost alias or 127.x.y.z.
Hosts == {"local", "remote"}

SocketStates == {"none", "open", "inside", "outside"}
Calls == {"connect", "sendto", "bind"}
Quiet == [proc |-> Root, act |-> "none", target |-> "none", refused |-> FALSE]

VARIABLES
    launcherEnv,    \* the variable in the environment the launcher inherits
    asked,          \* the policy of the launcher's options, once it starts Root
    env,            \* the variable in each process's environment
    g_policy,       \* the policy each process read at attach
    g_attached,     \* its Winsock calls are hooked
    life,           \* unborn, alive or gone
    carried,        \* the variable came to the process unchanged from the launcher
    socket,         \* its socket and where that was connected, bound or sent to
    last            \* the last network call and its fate

netvars == <<launcherEnv, asked, env, g_policy, g_attached, life, carried, socket, last>>
process == <<env, g_policy, g_attached, carried>>

PolicyOf(value) == CASE value = "loopback" -> "LoopbackOnly"
                     [] value = "block" -> "BlockAll"
                     [] OTHER -> "Allow"

NetTypeOK ==
    /\ launcherEnv \in EnvValues
    /\ asked \in Policies \cup {"none"}
    /\ env \in [Procs -> EnvValues]
    /\ g_policy \in [Procs -> Policies]
    /\ g_attached \in [Procs -> BOOLEAN]
    /\ life \in [Procs -> {"unborn", "alive", "gone"}] /\ carried \subseteq Procs
    /\ socket \in [Procs -> SocketStates]
    /\ \A p \in Procs : life[p] # "alive" => socket[p] = "none"
    /\ last \in [proc : Procs, act : Calls \cup {"none", "socket", "resolve"},
                 target : {"none", "inside", "outside"}, refused : BOOLEAN]

NetInit ==
    /\ launcherEnv \in EnvValues
    /\ asked = "none"
    /\ env = [p \in Procs |-> "unset"]
    /\ g_policy = [p \in Procs |-> "Allow"]
    /\ g_attached = [p \in Procs |-> FALSE]
    /\ life = [p \in Procs |-> "unborn"] /\ carried = {}
    /\ socket = [p \in Procs |-> "none"]
    /\ last = Quiet

\* The policy the tree should run under.
Wanted == IF asked = "Allow" THEN PolicyOf(launcherEnv) ELSE asked

-----------------------------------------------------------------------------
\* Mutant: a process whose hooking failed forgets the policy, too.
InitializeAndAttachNetworkDetoursForgets(p, value) ==
    /\ env' = [env EXCEPT ![p] = value]
    /\ \E hooked \in BOOLEAN :
         /\ hooked => PolicyOf(value) # "Allow"
         /\ g_attached' = [g_attached EXCEPT ![p] = hooked]
         /\ g_policy' = [g_policy EXCEPT ![p] = IF hooked THEN PolicyOf(value) ELSE "Allow"]

\* DLL attach, before the process runs: the variable is read once; without a
\* restriction nothing is hooked, and the transaction may fail.
InitializeAndAttachNetworkDetours(p, value) ==
    /\ env' = [env EXCEPT ![p] = value]
    /\ g_policy' = [g_policy EXCEPT ![p] = PolicyOf(value)]
    /\ \E hooked \in BOOLEAN :
         /\ hooked => PolicyOf(value) # "Allow"
         /\ g_attached' = [g_attached EXCEPT ![p] = hooked]

\* The launcher sets the variable for -N and -n, otherwise leaves what it
\* inherited, and starts the tool in its own environment.
StartTool(policy) ==
    /\ asked = "none" /\ asked' = policy
    /\ life' = [life EXCEPT ![Root] = "alive"] /\ carried' = {Root}
    /\ InitializeAndAttachNetworkDetours(Root,
         CASE policy = "LoopbackOnly" -> "loopback"
           [] policy = "BlockAll" -> "block"
           [] OTHER -> launcherEnv)
    /\ last' = Quiet
    /\ UNCHANGED <<launcherEnv, socket>>

\* A process starts another; the environment may be its own or one it makes
\* up, and sockets are inherited or not.
CreateProcess(p, c, value, inherit) ==
    /\ life[p] = "alive" /\ life[c] = "unborn"
    /\ life' = [life EXCEPT ![c] = "alive"]
    /\ carried' = IF p \in carried /\ value = env[p] THEN carried \cup {c} ELSE carried
    /\ InitializeAndAttachNetworkDetours(c, value)
    /\ socket' = [socket EXCEPT ![c] = IF inherit THEN socket[p] ELSE "none"]
    /\ last' = Quiet
    /\ UNCHANGED <<launcherEnv, asked>>

ExitProcess(p) ==
    /\ life[p] = "alive"
    /\ life' = [life EXCEPT ![p] = "gone"]
    /\ socket' = [socket EXCEPT ![p] = "none"]
    /\ UNCHANGED <<launcherEnv, asked, process, last>>

Report(p, act, target, refused) ==
    last' = [proc |-> p, act |-> act, target |-> target, refused |-> refused]

\* Mutant: the device is closed under every restriction.
IsAllNetworkBlockedOrSome(p) == g_policy[p] # "Allow"

\* NtCreateFile and ZwCreateFile ask this for the AFD device.
IsAllNetworkBlocked(p) == g_policy[p] = "BlockAll"

\* Winsock opens the AFD device to make a socket.
OpenSocket(p) ==
    /\ life[p] = "alive" /\ socket[p] = "none"
    /\ Report(p, "socket", "none", IsAllNetworkBlocked(p))
    /\ socket' = IF IsAllNetworkBlocked(p) THEN socket
                                           ELSE [socket EXCEPT ![p] = "open"]
    /\ UNCHANGED <<launcherEnv, asked, life, process>>

CloseSocket(p) ==
    /\ life[p] = "alive" /\ socket[p] # "none"
    /\ socket' = [socket EXCEPT ![p] = "none"]
    /\ UNCHANGED <<launcherEnv, asked, life, process, last>>

\* Mutant: an IPv6 address is looked at as a local transport.
IsLoopbackAddrNoIp6(a) ==
    \/ a.len = "none" \/ a.family # "ip4"
    \/ a.len = "whole" /\ a.host = "loop"

\* No address is taken for loopback, and so is every family but the IP ones.
IsLoopbackAddr(a) ==
    \/ a.len = "none" \/ a.family = "other"
    \/ a.len = "whole" /\ a.host = "loop"

AddrAllowed(p, a) ==
    \/ g_policy[p] = "Allow"
    \/ g_policy[p] = "LoopbackOnly" /\ IsLoopbackAddr(a)

\* Where the real call takes the socket; without an address a send goes where
\* the socket is connected to, and an address cut short fails.
Reaches(a) == IF a.family = "other" \/ a.host = "loop" THEN "inside" ELSE "outside"

\* connect, WSAConnect, sendto, WSASendTo and bind.
CallWithAddress(p, call, a) ==
    LET refused == g_attached[p] /\ ~AddrAllowed(p, a)
        given == a.len = "whole"
    IN
    /\ life[p] = "alive" /\ socket[p] # "none"
    /\ Report(p, call, IF given THEN Reaches(a) ELSE "none", refused)
    /\ socket' = IF ~refused /\ given /\ socket[p] # "outside"
                 THEN [socket EXCEPT ![p] = Reaches(a)] ELSE socket
    /\ UNCHANGED <<launcherEnv, asked, life, process>>

NameResolutionAllowed(p, host) ==
    \/ g_policy[p] = "Allow"
    \/ g_policy[p] = "LoopbackOnly" /\ host = "local"

\* getaddrinfo, GetAddrInfoW and gethostbyname.
ResolveName(p, host) ==
    /\ life[p] = "alive"
    /\ Report(p, "resolve", IF host = "local" THEN "inside" ELSE "outside",
              g_attached[p] /\ ~NameResolutionAllowed(p, host))
    /\ UNCHANGED <<launcherEnv, asked, life, process, socket>>

NetStep ==
    \/ \E p, c \in Procs, value \in EnvValues, inherit \in BOOLEAN :
         CreateProcess(p, c, value, inherit)
    \/ \E p \in Procs :
         \/ ExitProcess(p) \/ OpenSocket(p) \/ CloseSocket(p)
         \/ \E call \in Calls, a \in Addrs : CallWithAddress(p, call, a)
         \/ \E host \in Hosts : ResolveName(p, host)

NetNext == (\E policy \in Policies : StartTool(policy)) \/ NetStep

NetSpec == NetInit /\ [][NetNext]_netvars

-----------------------------------------------------------------------------
\* Every process the variable came down to runs under the policy the launcher
\* was asked for.
PolicyPropagates == \A p \in carried : g_policy[p] = Wanted

\* Under -n no process of the tree ever has a socket, also one whose Winsock
\* calls could not be hooked.
BlockedHasNoSocket ==
    Wanted = "BlockAll" => \A p \in carried : socket[p] = "none"

\* Under -N no socket of a process gets to the outside, inherited or its own,
\* as long as hooking succeeded in all of them.
ContainedToLoopback ==
    (Wanted = "LoopbackOnly" /\ \A p \in carried : g_attached[p])
        => \A p \in carried : socket[p] # "outside"

\* Under -N nothing is refused that stays on the machine, sockets included.
LoopbackStaysUsable ==
    (g_policy[last.proc] = "LoopbackOnly" /\ last.refused) =>
        last.act \in {"connect", "sendto", "bind", "resolve"} /\ last.target # "inside"
=============================================================================
