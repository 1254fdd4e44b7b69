------------------------------- MODULE LocalLlm -------------------------------
(***************************************************************************)
(* The conversion plan asked of a local language model                     *)
(* (core/llm/conversion_plan.py and the profile selection of               *)
(* services/api/poc_web.py).                                               *)
(*                                                                         *)
(* The document text may only be sent to an endpoint on this host or on a  *)
(* private network.  A host name is accepted only if it is localhost and   *)
(* every address it resolves to is a loopback address; the addresses are   *)
(* resolved when a profile is checked and resolved again, and then kept,   *)
(* when the plan is requested.  The resolver (external) may change its     *)
(* answer at any time, and the endpoint may answer anything.               *)
(***************************************************************************)
EXTENDS Naturals, Sequences

CONSTANTS
    ProfileLists,   \* the configurations, each a sequence of profiles
    DnsAnswers,     \* the answers the resolver may give for localhost
    MaxDnsChanges   \* bound on how often the answer changes in a run

ASSUME DnsAssumption == \A answer \in DnsAnswers : answer \in Seq(STRING)

VARIABLES
    profiles,   \* the configured inference profiles
    dns,        \* the resolver's current answer, a sequence of addresses
    dnsChanges, \* how often it changed so far
    llm,        \* the adapter: [pc, profile, pinned, attempt, request, reason]
    sent        \* the addresses the document text was sent to

llmVars == <<profiles, dns, dnsChanges, llm, sent>>

Loopback == {"127.0.0.1", "::1"}
Private  == {"10.0.0.5"}
\* Public, link-local and the metadata address blocked by name.
Outside  == {"8.8.8.8", "169.254.1.1", "fd00:ec2::254"}

IsLocalRuntimeAddress(a) == a \in Loopback \cup Private

\* A profile is [url, host, tls, model, key, limits]: url is "unset", "ok" or "bad"
\* (a scheme, path, query or port that is refused), host an address, "localhost"
\* or another name; model and key tell whether they are set and acceptable.
\* The sequence of addresses requests may use, empty when the URL is refused.
LocalBaseUrl(p, answer) ==
    CASE p.url # "ok" -> <<>>
      [] p.url = "ok" /\ p.host = "localhost" ->
            IF \A i \in DOMAIN answer : answer[i] \in Loopback THEN answer ELSE <<>>
      [] OTHER -> IF IsLocalRuntimeAddress(p.host) THEN <<p.host>> ELSE <<>>

\* What a profile is rejected for, "none" if it is accepted, "unset" if it is
\* not configured and skipped.
ProfileVerdict(p, answer) ==
    CASE p.url = "unset" -> "unset"
      [] p.url # "unset" /\ p.model = "unset" -> "missing_required_model"
      [] p.url # "unset" /\ p.model # "unset" /\ ~p.limits -> "invalid_configuration"
      [] p.url # "unset" /\ p.model # "unset" /\ p.limits
            /\ LocalBaseUrl(p, answer) = <<>> -> "non_local_endpoint"
      [] p.url # "unset" /\ p.model # "unset" /\ p.limits
            /\ LocalBaseUrl(p, answer) # <<>> /\ p.key = "placeholder" -> "placeholder_api_key"
      [] OTHER -> "none"

-----------------------------------------------------------------------------
Idle == [pc |-> "idle", check |-> 1, profile |-> 0, pinned |-> <<>>,
         attempt |-> 1, request |-> 1, reason |-> "none"]

LlmInit == /\ profiles \in ProfileLists
           /\ dns \in DnsAnswers
           /\ dnsChanges = 0
           /\ llm = Idle
           /\ sent = {}

ResolverChanges ==
    /\ dnsChanges < MaxDnsChanges
    /\ dns' \in DnsAnswers \ {dns}
    /\ dnsChanges' = dnsChanges + 1
    /\ UNCHANGED <<profiles, llm, sent>>

Fallback(reason) == llm' = [llm EXCEPT !.pc = "fallback", !.reason = reason]

\* One profile of _configured_llm_conversion_plan_selection: any configured
\* profile that is refused refuses them all; the first accepted one is used.
CheckProfile ==
    /\ llm.pc = "select"
    /\ llm.check <= Len(profiles)
    /\ LET verdict == ProfileVerdict(profiles[llm.check], dns)
       IN  CASE verdict \notin {"none", "unset"} -> Fallback(verdict)
             [] verdict = "unset" -> llm' = [llm EXCEPT !.check = @ + 1]
             [] verdict = "none" ->
                   llm' = [llm EXCEPT !.check = @ + 1,
                              !.profile = IF @ = 0 THEN llm.check ELSE @]
    /\ UNCHANGED <<profiles, dns, dnsChanges, sent>>

SelectionDone ==
    /\ llm.pc = "select"
    /\ llm.check > Len(profiles)
    /\ IF llm.profile = 0
       THEN Fallback("missing_configured_profile")
       ELSE llm' = [llm EXCEPT !.pc = "resolve"]
    /\ UNCHANGED <<profiles, dns, dnsChanges, sent>>

\* create_conversion_plan resolves once and uses the answer for every attempt
\* and for the repair request.
Resolve ==
    /\ llm.pc = "resolve"
    /\ LET pinned == LocalBaseUrl(profiles[llm.profile], dns)
       IN  IF pinned = <<>>
           THEN Fallback("non_local_endpoint")
           ELSE llm' = [llm EXCEPT !.pc = "send", !.pinned = pinned]
    /\ UNCHANGED <<profiles, dns, dnsChanges, sent>>

\* A connection error, a redirect (never followed) or an HTTP error moves on to
\* the next address, if there is one.
NextAddress ==
    IF llm.attempt < Len(llm.pinned)
    THEN llm' = [llm EXCEPT !.attempt = @ + 1]
    ELSE Fallback("runtime_unavailable")

\* A variant that leaves the resolution of the name to the connection.
DestinationByName ==
    IF profiles[llm.profile].host = "localhost" /\ dns # <<>> THEN dns[1]
    ELSE llm.pinned[llm.attempt]

\* A connection goes to one of the addresses resolved with the plan request.
Destination == llm.pinned[llm.attempt]

\* One attempt of _send_local_llm_request and what the endpoint does.  A time
\* out while the answer is read is converted to a failed attempt only by the
\* https transport: over plain http it escapes the adapter and its callers.
SendRequest(answer) ==
    /\ llm.pc = "send"
    /\ sent' = IF answer = "unreachable" THEN sent
               ELSE sent \cup {Destination}
    /\ CASE answer \in {"unreachable", "redirect", "http_error"} -> NextAddress
         [] answer = "read_timeout" ->
               IF profiles[llm.profile].tls /\ profiles[llm.profile].host = "localhost"
               THEN NextAddress
               ELSE llm' = [llm EXCEPT !.pc = "failed"]
         [] answer = "no_plan" -> Fallback("schema_invalid")
         [] answer = "invalid_plan" ->
               IF llm.request = 1
               THEN llm' = [llm EXCEPT !.request = 2, !.attempt = 1]
               ELSE Fallback("schema_invalid")
         [] answer = "valid_plan" -> llm' = [llm EXCEPT !.pc = "adopted"]
    /\ UNCHANGED <<profiles, dns, dnsChanges>>

Answers == {"unreachable", "redirect", "http_error", "read_timeout",
            "no_plan", "invalid_plan", "valid_plan"}

LlmNext == CheckProfile \/ SelectionDone \/ Resolve
           \/ \E a \in Answers : SendRequest(a)

LlmDone == llm.pc \in {"disabled", "fallback", "adopted", "failed"}

-----------------------------------------------------------------------------
\* The document text never leaves this host or its private network, whatever
\* the resolver and the endpoint answer: not when the name is rebound between
\* the check of the profile, the plan request and its repair, and not through
\* a redirect.
NoExternalTransmission == sent \cap Outside = {}

=============================================================================
