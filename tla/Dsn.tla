-------------------------------- MODULE Dsn ---------------------------------
(***************************************************************************)
(* The DSN, which names the project events are sent to and the key they   *)
(* are sent with: how a text becomes a DSN, how a DSN is written, and the  *)
(* request a transport makes from it (URL and X-Sentry-Auth header).       *)
(* The url crate is external: ParseUrl says what it returns.               *)
(***************************************************************************)
EXTENDS Text

Ok(value) == [ok |-> TRUE, value |-> value]
Err(error) == [ok |-> FALSE, value |-> error]

DefaultPort(scheme) == IF scheme = "https" THEN 443 ELSE 80

\* Url::parse on a text that is a URL: a web scheme has at least the path "/"
\* and forgets its default port; an empty password is no password.
ParseUrl(text) ==
  LET web == text.scheme \in {"http", "https"} IN
  [text EXCEPT !.path = IF web /\ @ = <<>> THEN <<"/">> ELSE @,
               !.port = IF web /\ @ = DefaultPort(text.scheme) THEN None ELSE @,
               !.password = IF @ = "" THEN None ELSE @]

\* ProjectId::from_str.
ParseProjectId(s) == IF s = <<>> THEN Err("EmptyValue") ELSE Ok(s)

\* The path of the DSN, from what is in front of the project id.
PathOf(prefix) == IF prefix \in {<<>>, <<"/">>} THEN <<"/">> ELSE <<"/">> \o prefix \o <<"/">>

\* Dsn::from_str: the checks in the order of the code.
ParseDsn(text) ==
  IF text.form # "url" THEN Err("InvalidUrl")
  ELSE LET url      == ParseUrl(text)
           segments == SplitLast(TrimMatches(url.path, "/"), "/")
           project  == ParseProjectId(segments[1])
       IN IF url.path = <<"/">> THEN Err("NoProjectId")
          ELSE IF ~project.ok THEN Err("InvalidProjectId")
          ELSE IF url.username = "" THEN Err("NoUsername")
          ELSE IF url.scheme \notin {"http", "https"} THEN Err("InvalidScheme")
          ELSE IF url.host = None THEN Err("InvalidUrl")
          ELSE Ok([scheme |-> url.scheme, public_key |-> url.username, secret_key |-> url.password,
                   host |-> url.host, port |-> url.port, project_id |-> project.value,
                   path |-> PathOf(IF Len(segments) = 1 THEN <<>> ELSE segments[2])])

\* Dsn's Display: the text of a DSN, with the secret key's colon always there.
DsnText(dsn) ==
  [form |-> "url", scheme |-> dsn.scheme, username |-> dsn.public_key,
   password |-> IF dsn.secret_key = None THEN "" ELSE dsn.secret_key,
   host |-> dsn.host, port |-> dsn.port, path |-> dsn.path \o dsn.project_id]

\* Dsn::port.
Port(dsn) == IF dsn.port = None THEN DefaultPort(dsn.scheme) ELSE dsn.port

\* Dsn::envelope_api_url.
ApiUrl(dsn) ==
  [scheme |-> dsn.scheme, host |-> dsn.host,
   port |-> IF Port(dsn) = DefaultPort(dsn.scheme) THEN None ELSE Port(dsn),
   path |-> dsn.path \o <<"api", "/">> \o dsn.project_id \o <<"/", "envelope", "/">>]

\* extract_org_id: the first label of a host o<id>.ingest[.<region>].sentry.io;
\* a label is <<"o", id>> or <<id>>.
ExtractOrgId(host) ==
  LET rest == Tail(host)
      org  == IF host # <<>> THEN host[1] ELSE <<>>
  IN  IF /\ Len(host) \in {4, 5}
         /\ rest[1] = <<"ingest">>
         /\ SubSeq(rest, Len(rest) - 1, Len(rest)) = << <<"sentry">>, <<"io">> >>
         /\ org # <<>> /\ org[1] = "o"
      THEN Tail(org) ELSE None

\* Dsn::org_id: only a number is an organization; Numeric holds the numbers.
OrgId(dsn, Numeric) ==
  LET org == ExtractOrgId(dsn.host)
  IN  IF org # None /\ Len(org) = 1 /\ org[1] \in Numeric THEN org[1] ELSE None

\* IntoDsn: the empty text is no DSN.
IntoDsn(text) == IF text.form = "empty" THEN Ok(None) ELSE ParseDsn(text)
-----------------------------------------------------------------------------
\* The header X-Sentry-Auth.  Client agents are texts; a version, a time or a
\* key is one token.
LATEST == "7"

\* auth_from_dsn_and_client.
AuthFromDsn(dsn, agent) ==
  [timestamp |-> "now", client |-> agent, version |-> LATEST,
   key |-> <<dsn.public_key>>,
   secret |-> IF dsn.secret_key = None THEN None ELSE <<dsn.secret_key>>]

\* Mutant: the secret key is left out.
AuthText_NoSecret(auth) ==
  <<"Sentry", " ", "sentry_key", "=">> \o auth.key
    \o <<",", " ", "sentry_version", "=", auth.version>>
    \o (IF auth.timestamp = None THEN <<>> ELSE <<",", " ", "sentry_timestamp", "=", auth.timestamp>>)
    \o (IF auth.client = None THEN <<>> ELSE <<",", " ", "sentry_client", "=">> \o auth.client)

\* Auth's Display.
AuthText(auth) ==
  <<"Sentry", " ", "sentry_key", "=">> \o auth.key
    \o <<",", " ", "sentry_version", "=", auth.version>>
    \o (IF auth.timestamp = None THEN <<>> ELSE <<",", " ", "sentry_timestamp", "=", auth.timestamp>>)
    \o (IF auth.client = None THEN <<>> ELSE <<",", " ", "sentry_client", "=">> \o auth.client)
    \o (IF auth.secret = None THEN <<>> ELSE <<",", " ", "sentry_secret", "=">> \o auth.secret)

\* The numbers a version may be, as they are written.
Versions == { ToString(v) : v \in 0 .. (2^16 - 1) }

\* Auth::from_pairs: the last value of a key counts, unknown keys are skipped,
\* and a version that does not begin with a number ends the parsing.
FromPairs(pairs) ==
  LET Value(k) == LET i == SelectLastInSeq(pairs, LAMBDA p : p[1] = <<k>>)
                  IN  IF i = 0 THEN None ELSE pairs[i][2]
      versions == { Head(Split(pairs[i][2], ".")) : i \in { j \in DOMAIN pairs : pairs[j][1] = <<"sentry_version">> } }
  IN  IF \E text \in versions : Len(text) # 1 \/ text[1] \notin Versions
      THEN Err("InvalidVersion")
      ELSE IF Value("sentry_key") \in {None, <<>>} THEN Err("MissingPublicKey")
      ELSE Ok([timestamp |-> IF Value("sentry_timestamp") = <<"now">> THEN "now" ELSE None,
               client |-> Value("sentry_client"),
               version |-> IF versions = {} THEN LATEST ELSE Head(Split(Value("sentry_version"), "."))[1],
               key |-> Value("sentry_key"), secret |-> Value("sentry_secret")])

\* Auth::from_str: the pairs are what stands on the two sides of the first "="
\* of each item, up to a second one.
ParseAuth(text) ==
  LET base  == SplitOnce(text, " ")
      items == IF Len(base) = 1 THEN << <<>> >> ELSE Split(base[2], ",")
      kept  == SelectSeq(items, LAMBDA item : Len(Split(item, "=")) > 1)
      pairs == [i \in DOMAIN kept |-> [j \in 1..2 |-> TrimMatches(Split(kept[i], "=")[j], " ")]]
  IN  IF base[1] # <<"Sentry">> THEN Err("NonSentryAuth") ELSE FromPairs(pairs)
=============================================================================
