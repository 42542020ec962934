---- MODULE RouterInstall ----
(***************************************************************************)
(* The installation of the scripts on a router, router_setup.go, up to the *)
(* probe that declares it done: every SSH command and upload may fail, the *)
(* user may start another installation meanwhile or later, and the router  *)
(* may reboot.  RouterPac has what the scripts do afterwards.              *)
(***************************************************************************)
EXTENDS Naturals, Sequences

CONSTANTS
    Installs,       \* calls of RouterInstall
    MaxReboots      \* bound on the reboots of the router

VARIABLES
    router,         \* its firmware and what is installed on it
    files,          \* what each place on its disks holds: "none", "torn" or "whole"
    server,         \* what listens on port 8090, and the directory it serves
    at,             \* where each installation is: "idle", a step, "ok" or "error"
    kind,           \* the server each has chosen
    todo,           \* the files each has yet to write
    reboots,        \* reboots so far
    quiet,          \* history: the installation that has had the router to itself
    kept            \* history: verified with lighttpd, and since then no installation has
                    \* begun and no boot has failed to run S80lunaproxy

installVars == <<router, files, server, at, kind, todo, reboots, quiet, kept>>

NoServer == [kind |-> "none", dir |-> "none"]
WebServers == {"httpd", "busybox", "python"}
Dirs == {"/opt/share/pac", "/tmp/pac"}
Opt == "/opt/share/pac"
Init_d == <<"/opt/etc/init.d", "S80lunaproxy">>

\* "*.sh" stands for hb.sh, update.sh and update_pac.sh, written one after the other.
Places == Dirs \X {"pac", "proxy.pac", "*.sh", "cgi-bin/proxy.pac", "cgi-bin/*.sh", "lighttpd.conf"}
          \cup {Init_d}

\* lighttpd may be in /opt/sbin, where Entware has it, or in /opt/bin; web is the first
\* other server there is.  rcCommon: there is an /etc/rc.common and it runs the start() of
\* a script that has set USE_PROCD, as OpenWrt's did before procd, and the boot gets to
\* /opt/etc/init.d.  Nothing asks for it: isOpenWrt is only told to the user.
Routers == [keenetic : BOOLEAN, entware : BOOLEAN, sbin : BOOLEAN, bin : BOOLEAN,
            web : WebServers \cup {"none"}, fuser : BOOLEAN, rcCommon : BOOLEAN]

InstallInit ==
    /\ router \in {r \in Routers : r.sbin => r.entware}
    /\ files = [p \in Places |-> "none"]
    /\ server = NoServer
    /\ at = [i \in Installs |-> "idle"]
    /\ kind = [i \in Installs |-> "none"]
    /\ todo = [i \in Installs |-> <<>>]
    /\ reboots = 0
    /\ quiet = {}
    /\ kept = FALSE

----------------------------------------------------------------------------
(* What port 8090 answers *)

\* lighttpd has /pac and *.pac run by sh; the others serve what is not under cgi-bin as
\* it is, with status 200.
Get(path) ==
    LET file == files[<<server.dir, path>>] IN
    CASE server = NoServer \/ file = "none" -> "404"
      [] server.kind = "lighttpd" /\ file = "whole" -> "pac"
      [] server.kind = "lighttpd" /\ file = "torn" -> "500"
      [] OTHER -> "script text"

\* probeRouterPAC, and probeRouterPACPath for the address phones are given.
Phone ==
    LET good == {"pac", "script text"} IN
    IF Get("proxy.pac") \in good THEN Get("proxy.pac")
    ELSE IF Get("pac") \in good THEN Get("pac")
    ELSE "404"

\* A heartbeat or push finds its script.
Beats ==
    /\ server # NoServer
    /\ \/ files[<<server.dir, "cgi-bin/*.sh">>] = "whole"
       \/ server.kind = "lighttpd" /\ files[<<server.dir, "*.sh">>] = "whole"

----------------------------------------------------------------------------
(* RouterInstall and routerInstallKeenetic *)

Go(i, step) == at' = [at EXCEPT ![i] = step]

Fails(i) == Go(i, "error")

Alone(i) == \A j \in Installs \ {i} : at[j] \in {"idle", "ok", "error"}

\* Dial, and look at the firmware; on a Keenetic Entware is required.
Begin(i) ==
    /\ at[i] = "idle"
    /\ kept' = FALSE
    /\ quiet' = IF Alone(i) THEN {i} ELSE {}
    /\ \/ Fails(i) /\ UNCHANGED <<kind, todo>>
       \/ ~router.keenetic /\ Go(i, "choose") /\ UNCHANGED <<kind, todo>>
       \/ /\ router.keenetic /\ router.entware
          /\ kind' = [kind EXCEPT ![i] = "lighttpd"]
          /\ todo' = [todo EXCEPT ![i] =
                <<<<Opt, "pac">>, <<Opt, "proxy.pac">>, <<Opt, "*.sh">>, <<Opt, "lighttpd.conf">>>>]
          /\ Go(i, "write")
    /\ UNCHANGED <<router, files, server, reboots>>

\* Mutant: the script that starts lighttpd at boot is left out.
FilesForOnce(k) ==
    LET dir == IF router.entware THEN Opt ELSE "/tmp/pac"
    IN <<<<dir, "pac">>, <<dir, "cgi-bin/proxy.pac">>, <<dir, "cgi-bin/*.sh">>>>
       \o (IF k = "lighttpd" THEN <<<<dir, "lighttpd.conf">>>> ELSE <<>>)

FilesFor(k) ==
    LET dir == IF router.entware THEN Opt ELSE "/tmp/pac"
    IN <<<<dir, "pac">>, <<dir, "cgi-bin/proxy.pac">>, <<dir, "cgi-bin/*.sh">>>>
       \o (IF k = "lighttpd" THEN <<<<dir, "lighttpd.conf">>>> ELSE <<>>)
       \o (IF router.entware THEN <<Init_d>> ELSE <<>>)

Chosen(i, k) ==
    /\ kind' = [kind EXCEPT ![i] = k]
    /\ todo' = [todo EXCEPT ![i] = FilesFor(k)]
    /\ Go(i, "write")

\* lighttpd in /opt/bin, or from opkg if that works, or another server, or none.
Choose(i) ==
    /\ at[i] = "choose"
    /\ \/ router.bin /\ Chosen(i, "lighttpd") /\ UNCHANGED router
       \/ /\ ~router.bin /\ router.entware
          /\ router' = [router EXCEPT !.sbin = TRUE]
          /\ Chosen(i, "lighttpd")
       \/ ~router.bin /\ router.web # "none" /\ Chosen(i, router.web) /\ UNCHANGED router
       \/ ~router.bin /\ router.web = "none" /\ Fails(i) /\ UNCHANGED <<router, kind, todo>>
    /\ UNCHANGED <<files, server, reboots, quiet, kept>>

\* The next file: written and made executable; or the upload fails, at once or when the
\* old content is gone; or chmod does.
Write(i) ==
    /\ at[i] = "write"
    /\ todo[i] # <<>>
    /\ \/ /\ files' = [files EXCEPT ![Head(todo[i])] = "whole"]
          /\ todo' = [todo EXCEPT ![i] = Tail(@)]
          /\ IF todo'[i] = <<>> THEN Go(i, "kill") ELSE UNCHANGED at
       \/ /\ files' \in {files} \cup
                {[files EXCEPT ![Head(todo[i])] = state] : state \in {"torn", "whole"}}
          /\ Fails(i)
          /\ UNCHANGED todo
    /\ UNCHANGED <<router, server, kind, reboots, quiet, kept>>

\* Whatever has port 8090 is killed, if the router has fuser; an old lighttpd by its pid.
\* On a Keenetic, whose exec is no shell, that may not work.
Kill(i) ==
    /\ at[i] = "kill"
    /\ Go(i, "start")
    /\ IF router.keenetic THEN server' \in {server, NoServer}
       ELSE IF router.fuser \/ (kind[i] = "lighttpd" /\ server.kind = "lighttpd")
       THEN server' = NoServer
       ELSE UNCHANGED server
    /\ UNCHANGED <<router, files, kind, todo, reboots, quiet, kept>>

\* lighttpd needs its configuration and the port, and says so; its root is always /opt.
StartLighttpd(i) ==
    /\ at[i] = "start" /\ kind[i] = "lighttpd"
    /\ LET dir == IF router.entware THEN Opt ELSE "/tmp/pac" IN
       \/ /\ server = NoServer
          /\ router.sbin \/ router.bin
          /\ files[<<dir, "lighttpd.conf">>] = "whole"
          /\ server' = [kind |-> "lighttpd", dir |-> Opt]
          /\ Go(i, "probe")
       \/ Fails(i) /\ UNCHANGED server
    /\ UNCHANGED <<router, files, kind, todo, reboots, quiet, kept>>

\* The others are started in the background: whether they run is not known.
StartWeb(i) ==
    /\ at[i] = "start" /\ kind[i] \in WebServers
    /\ LET dir == IF router.entware THEN Opt ELSE "/tmp/pac" IN
       \/ /\ server' \in {server, IF server = NoServer THEN [kind |-> kind[i], dir |-> dir] ELSE server}
          /\ Go(i, "probe")
       \/ Fails(i) /\ UNCHANGED server
    /\ UNCHANGED <<router, files, kind, todo, reboots, quiet, kept>>

\* Mutant: any answer will do.
ProbeAnyAnswer(i) ==
    /\ at[i] = "probe"
    /\ Go(i, IF server = NoServer THEN "error" ELSE "ok")
    /\ UNCHANGED <<router, files, server, kind, todo, reboots, quiet, kept>>

\* Status 200 for one of the two paths, or the installation is not verified.
Probe(i) ==
    /\ at[i] = "probe"
    /\ Go(i, IF Phone = "404" THEN "error" ELSE "ok")
    /\ kept' = (Phone = "pac" /\ i \in quiet /\ ~router.keenetic /\ router.sbin
                /\ kind[i] = "lighttpd" /\ router.entware)
    /\ UNCHANGED <<router, files, server, kind, todo, reboots, quiet>>

\* /tmp is lost, connections break; S80lunaproxy, if it is run at all, starts lighttpd from
\* /opt/sbin.
Reboot ==
    /\ reboots < MaxReboots
    /\ reboots' = reboots + 1
    /\ files' = [p \in Places |-> IF p[1] = "/tmp/pac" THEN "none" ELSE files[p]]
    /\ server' = IF /\ router.rcCommon /\ router.sbin
                    /\ files[Init_d] = "whole" /\ files[<<Opt, "lighttpd.conf">>] = "whole"
                 THEN [kind |-> "lighttpd", dir |-> Opt] ELSE NoServer
    /\ at' = [i \in Installs |-> IF at[i] \in {"idle", "ok"} THEN at[i] ELSE "error"]
    /\ kept' = (kept /\ router.rcCommon)
    /\ UNCHANGED <<router, kind, todo, quiet>>

InstallNext ==
    \/ \E i \in Installs :
          \/ Begin(i) \/ Choose(i) \/ Write(i) \/ Kill(i)
          \/ StartLighttpd(i) \/ StartWeb(i) \/ Probe(i)
    \/ Reboot

InstallSpec == InstallInit /\ [][InstallNext]_installVars

----------------------------------------------------------------------------
(* Properties *)

\* When an installation is verified, the address phones are given yields the PAC, not the
\* text of the script, if lighttpd serves it; and, unless another installation has
\* come in between, the program's heartbeats and pushes find their scripts, whichever server it is,
\* and even if it is an older one that could not be killed (RouterInstall, probeRouterPAC).
VerifiedServes ==
    [][\A i \in Installs : at[i] # "ok" /\ at'[i] = "ok" =>
          /\ server.kind = "lighttpd" => Phone = "pac"
          /\ i \in quiet => Beats]_installVars

\* A verified installation with Entware's lighttpd serves the PAC from then on, until
\* somebody begins another one: through reboots as well where the router runs a script
\* such as S80lunaproxy, and up to the first reboot everywhere else.
KeepsServing == kept => Phone = "pac"

====
