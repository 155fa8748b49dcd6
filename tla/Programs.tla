------------------------------ MODULE Programs ------------------------------
(***************************************************************************)
(* How each layer classifies a program by its comm, and a file by its      *)
(* path.  The code compares strings; here every predicate is the set of    *)
(* the names below for which its comparison holds, worked out from the     *)
(* lists, prefixes and substrings of the code.                             *)
(***************************************************************************)

EXTENDS Naturals

Comms == {"sudo", "su", "passwd", "ssh", "sshd", "bash", "sh", "tcsh", "nc",
          "curl", "cron", "crontab", "systemd-logind", "iptables",
          "sha256sum", "agent", "app"}

(* trace_connect: bash*, exactly sh, zsh*, dash*; exactly nc, netcat*,
   socat*, telnet*. *)
KernelShell(comm) == comm \in {"bash", "sh"}
KernelTool(comm)  == comm \in {"nc"}

(* isWhitelisted of the agent: a name of the list or any name it begins, so
   cron takes in crontab, and sh everything from sha256sum to showmount. *)
AgentWhitelisted(comm) ==
    comm \in {"sshd", "bash", "sh", "cron", "crontab", "systemd-logind",
              "sha256sum"}

(* The agent's reverse-shell patterns: bash*, sh*, zsh*, dash*. *)
AgentShell(comm) == comm \in {"bash", "sh", "sha256sum"}

(* IsWhitelisted of the server: the exact names and the patterns of
   process_whitelist.json, which are those of the built-in list too. *)
IsWhitelisted(comm) ==
    comm \in {"bash", "sh", "curl", "cron", "iptables", "sshd"}

(* Contains sudo, su, passwd, crontab, ssh, ..., iptables, ... *)
isHighRiskProgram(comm) ==
    comm \in {"sudo", "su", "passwd", "ssh", "sshd", "crontab", "iptables",
              "sha256sum"}

(* Begins with bash, sh, zsh, dash, tcsh, csh or fish. *)
isReverseShell(comm) == comm \in {"bash", "sh", "tcsh", "sha256sum"}

(* Contains nc, netcat, socat, telnet, wget, curl, ... *)
isSuspiciousTool(comm) == comm \in {"nc", "curl"}

-----------------------------------------------------------------------------
Paths == {"", "/etc/passwd", "/etc/shadow", "/etc/sudoers", "/etc/crontab",
          "/etc/ssh/sshd_config", "/etc/hosts", "/etc/fstab", "/home/u/f",
          "/usr/bin/p"}

(* trace_openat compares prefixes, the first that fits decides. *)
FILE_NONE == 0
TargetFileType(path) ==
    CASE path = "/etc/passwd"          -> 1
      [] path = "/etc/shadow"          -> 2
      [] path = "/etc/sudoers"         -> 3
      [] path = "/etc/crontab"         -> 4
      [] path = "/etc/ssh/sshd_config" -> 5
      [] path = "/etc/hosts"           -> 6
      [] path = "/etc/fstab"           -> 7
      [] OTHER                         -> FILE_NONE

(* Contains /etc/passwd, /etc/shadow, ..., /root/, /home/ or /var/log/. *)
isSensitivePath(filename) ==
    filename \in {"/etc/passwd", "/etc/shadow", "/etc/sudoers",
                  "/etc/crontab", "/home/u/f"}

(* FILE_SUDOERS to FILE_SYSTEM_CONFIG; not FILE_PASSWD and FILE_SHADOW. *)
isSensitiveFileAccess(type) == type >= 3 /\ type <= 7
=============================================================================
