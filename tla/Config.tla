------------------------------- MODULE Config -------------------------------
(***************************************************************************)
(* The configuration of the process (internal/platform/config): the port   *)
(* from the flag or the environment, the base URL of the links in mails,   *)
(* and what is refused.  A pure function of the flags and the environment. *)
(***************************************************************************)
EXTENDS Naturals

CONSTANTS Unset,        \* an option that is not given, or empty
          Garbled       \* one that cannot be read, or is not of its kind

DefaultPort == 8080
LastPort    == 65535

(* The station's own address, as configured; or this machine, on a port.    *)
Public       == [host |-> "station", port |-> 443]
Localhost(p) == [host |-> "localhost", port |-> p]

(* A flag that is given comes before the environment, and so does an empty  *)
(* --db-uri; 0 and no port at all mean the default.  flag has the flags     *)
(* that are given and no others.                                           *)
PortOf(env, flag) ==
  LET given == IF "port" \in DOMAIN flag THEN flag.port ELSE env.port
  IN  IF given \in {Unset, 0} THEN DefaultPort ELSE given

DBURIOf(env, flag) == IF "dbURI" \in DOMAIN flag THEN flag.dbURI ELSE env.dbURI

BaseURLOf(env, flag) ==
  IF env.baseURL = Unset THEN Localhost(PortOf(env, flag)) ELSE env.baseURL

(* Load: an unreadable PORT or proxy list is an error even where a flag     *)
(* would override it; the rest is validated as it will be used.            *)
Refused(env, flag) ==
  \/ env.port = Garbled
  \/ env.trustedProxies = Garbled
  \/ PortOf(env, flag) \notin 1..LastPort
  \/ DBURIOf(env, flag) = Unset
  \/ env.ENV \notin {Unset, "production", "development", "test"}
  \/ BaseURLOf(env, flag) = Garbled
  \/ \E required \in {"masterEmail", "fromEmail", "spinitronAPIURL"} : env[required] \in {Unset, Garbled}

Load(env, flag) ==
  [port |-> PortOf(env, flag), dbURI |-> DBURIOf(env, flag), baseURL |-> BaseURLOf(env, flag),
   ENV |-> IF env.ENV = Unset THEN "production" ELSE env.ENV, fromEmail |-> env.fromEmail,
   resendAPIKey |-> env.resendAPIKey, sendGridAPIKey |-> env.sendGridAPIKey]
=============================================================================
