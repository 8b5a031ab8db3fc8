----------------------------- MODULE MCInstaller -----------------------------
EXTENDS Installer, TLC

CONSTANTS s1, s2

\* A host with systemd and apt, a container without a service manager that has
\* apk, and a host with pip only; one of them asks for sudo's password.
\* The second server is reached over TCP.
Hosts == {
  [shell |-> TRUE, user |-> "asks", pms |-> {"pip3", "apt-get"}, mac |-> FALSE,
   init |-> "systemd"],
  [shell |-> TRUE, user |-> "root", pms |-> {"apk"}, mac |-> FALSE, init |-> "none"],
  [shell |-> TRUE, user |-> "root", pms |-> {"pip"}, mac |-> FALSE, init |-> "systemd"]}

MCKinds ==
  s1 :> Hosts
  @@ s2 :> {[shell |-> FALSE, user |-> "asks", pms |-> {}, mac |-> FALSE,
             init |-> "none"]}

\* No file; the file of apt's package; one that has the section already; both.
MCFound ==
  {[p \in Paths |-> IF p = "/etc/supervisord.conf" THEN x ELSE y] :
     <<x, y>> \in {<<Absent, Absent>>, <<Absent, NoInet>>, <<Theirs, Absent>>,
                  <<NoInet, NoInet>>}}
=============================================================================
