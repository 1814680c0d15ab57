---------------------------- MODULE RemoteScripts ----------------------------
(***************************************************************************)
(* The shell scripts a component runs on its machines. A machine is a set  *)
(* of facts (a user exists, a disk is mounted, a server runs). A command   *)
(* is a set of cases, of which at most one applies to a machine; a command *)
(* with no case that applies fails. A script is a sequence of commands     *)
(* sent to some of the machines in one call.                               *)
(***************************************************************************)
EXTENDS Integers, Sequences

Case(has, lacks, adds, dels) ==
    [has |-> has, lacks |-> lacks, adds |-> adds, dels |-> dels]

(***************************************************************************)
(* Commands. What a shell command does to a machine is not in the          *)
(* repository; these are the kinds of command its scripts are made of.     *)
(***************************************************************************)
\* Succeeds whenever it is run: mkdir -p, a package that is installed, cat >
Do(S) == {Case({}, {}, S, {})}

\* Fails unless N holds: what is used has to be there
With(N, S) == {Case(N, {}, S, {})}

\* Fails the second time: adduser, git clone, mdadm --create, initdb
Once(N, f) == {Case(N, {f}, {f}, {})}

\* Succeeds whether or not there is something to remove: rm -rf, || true
Remove(S) == {Case({}, {}, {}, S)}

\* mv takes its source away
Move(f, N, g) == {Case({f} \cup N, {}, {g}, {f})}

\* ln -s of a directory: over an existing link it makes one inside the
\* directory, and fails when there is one already
LinkDir(f, nested) == {Case({}, {f}, {f}, {}), Case({f}, {nested}, {nested}, {})}

\* Succeeds in any case, and has its effect only when N holds
IfThen(f, S) == {Case({f}, {}, S, {}), Case({}, {f}, {}, {})}

Fails == {}

(***************************************************************************)
(* Running commands on a machine                                           *)
(***************************************************************************)
Applies(k, F) == k.has \subseteq F /\ k.lacks \cap F = {}

Step(cmd, F) ==
    IF \E k \in cmd : Applies(k, F)
    THEN LET k == CHOOSE c \in cmd : Applies(c, F)
         IN  [facts |-> (F \ k.dels) \cup k.adds, ok |-> TRUE]
    ELSE [facts |-> F, ok |-> FALSE]

\* The machine after the first i commands, for every i. A strict script
\* (set -e, or a chain of &&) stops at the first command that fails.
After(cmds, F, strict) ==
    LET r[i \in 0..Len(cmds)] ==
            IF i = 0 THEN [facts |-> F, ok |-> TRUE]
            ELSE IF strict /\ ~r[i - 1].ok THEN r[i - 1]
            ELSE Step(cmds[i], r[i - 1].facts)
    IN  r

(***************************************************************************)
(* Scripts. "run" is Node.run and MultiNode.run_on_all_nodes: strict, and  *)
(* repeated as a whole when it fails. "lenient" and "chain" ignore errors  *)
(* (ignore_errors, or a shell of its own), "chain" with its commands       *)
(* joined by &&. "once" is a call that is not repeated: a file sent, or    *)
(* SQL sent by the database client. "search" is a run whose last command   *)
(* also fails when it finds nothing or asks for an answer, which depends on*)
(* more than the facts. The last two are messages to the metrics server.   *)
(***************************************************************************)
Methods == {"run", "lenient", "chain", "once", "search", "register", "deregister"}

Script(method, cmds, service) ==
    [method |-> method, cmds |-> cmds, service |-> service, on |-> {1, 2}]

Run(cmds) == Script("run", cmds, "")
Lenient(cmds) == Script("lenient", cmds, "")
Chain(cmds) == Script("chain", cmds, "")
Sql(cmds) == Script("once", cmds, "")
SendFile(f) == Script("once", <<Do({f})>>, "")
Search(cmds) == Script("search", cmds, "")
Register(service) == Script("register", <<>>, service)
Deregister(service) == Script("deregister", <<>>, service)

\* The same scripts on some of the machines only
On(N, scripts) == [i \in DOMAIN scripts |-> [scripts[i] EXCEPT !.on = N]]

HeadNode == {1}

Strict(script) == script.method \in {"run", "chain", "once", "search"}
ErrorsIgnored(script) == script.method \in {"lenient", "chain"}
=============================================================================
