--------------------------- MODULE AzureCredentials ---------------------------
(***************************************************************************)
(* azure_credentials.py: main() checks the arguments, and                  *)
(* _retrieve_hostname() registers the device with the Azure device        *)
(* provisioning service (PUT), then polls the operation (GET, sleep(1))   *)
(* while the answer is ok and its status is "assigning".  The hostname it *)
(* returns (None on an HTTP error) becomes the MQTT username and the       *)
(* resource of the SAS-token password, which main() prints.               *)
(*                                                                         *)
(* The service is the environment: its registration is "assigning" until  *)
(* it resolves to "assigned" (to a hub) or "failed", perhaps never; any   *)
(* request may be throttled, and every request made once the registration *)
(* token of _retrieve_hostname has expired is refused with 401.  Times     *)
(* are whole seconds since that token was made.                            *)
(***************************************************************************)
EXTENDS Integers

CONSTANTS
  Hubs,      \* IoT hubs the service may assign
  None,      \* Python's None
  ArgCounts  \* possible len(sys.argv)

VARIABLES
  pc,
  argc,      \* len(sys.argv)
  regState,  \* the service's registration: [status, hub]
  elapsed,   \* seconds since expiration = int(time() + 30) was computed
  auth,      \* auth_token, the Authorization header of the requests
  result,    \* the last HTTP answer, with its parsed body (data)
  output     \* what main() printed: NoOutput or the credentials

vars == <<pc, argc, regState, elapsed, auth, result, output>>

AUTH_TOKEN_TTL == 30      \* _retrieve_hostname: int(time() + 30)
Latency        == {0, 1}  \* seconds a request may take

(* AZURE_TOKEN_EXPIRATION, the default lifetime of a SAS token: a          *)
(* millennium (31556952000 s).  The clock below never passes               *)
(* AUTH_TOKEN_TTL, so any later time stands for it.                        *)
AZURE_TOKEN_EXPIRATION == AUTH_TOKEN_TTL + 1

(* _generate_sas_token(resource, key, expiration): "sr=" the resource and  *)
(* "se=" the expiry, the default one when expiration is falsy (None); the *)
(* HMAC signature over both is left out.                                   *)
SasToken(resource, expiration) ==
  [sr |-> resource,
   se |-> IF expiration \in {None, 0} THEN AZURE_TOKEN_EXPIRATION
          ELSE expiration]

(* The registration resource "<scope>%2Fregistrations%2F<device>".        *)
RegistrationResource == "registration"

(* Mutant: the registration token made without an expiration argument.    *)
ExpiryMillennium == None

(* The expiration passed for the registration token: int(time() + 30).     *)
RegistrationExpiry == AUTH_TOKEN_TTL

(* The clock after d more seconds.  Past the expiry, the exact time no     *)
(* longer changes any answer, so it is kept at AUTH_TOKEN_TTL.            *)
Later(t, d) == IF t + d >= AUTH_TOKEN_TTL THEN AUTH_TOKEN_TTL ELSE t + d

NoToken  == [sr |-> None, se |-> 0]
NoOutput == [user |-> None, pass |-> NoToken, printed |-> FALSE]

(* _generate_credentials: username "<host>/<device>/?api-version=...",    *)
(* password a SAS token for the host with the default expiry.              *)
Credentials(host) ==
  [user |-> host, pass |-> SasToken(host, None), printed |-> TRUE]

(* An HTTP answer: result.ok and the fields of json.loads(result.text).   *)
Reply(st) == [ok |-> TRUE, status |-> st.status, hub |-> st.hub]
Refused   == [ok |-> FALSE, status |-> None, hub |-> None]

(* A 2xx answer whose JSON has neither status nor registrationState (a    *)
(* proxy's or a changed API's body): data.get("status") is None.           *)
Unexpected == [ok |-> TRUE, status |-> None, hub |-> None]

(* What the service answers at time t to a request carrying auth: 401    *)
(* once the token has expired, else the registration state, an error, or *)
(* an unexpected body.                                                     *)
Answers(t) == IF t >= auth.se THEN {Refused}
              ELSE {Reply(regState), Refused, Unexpected}

Init ==
  /\ pc = "main" /\ argc \in ArgCounts
  /\ regState \in {[status |-> "assigning", hub |-> None]}
                  \cup [status : {"assigned"}, hub : Hubs]
  /\ elapsed = 0 /\ auth = NoToken /\ result = Refused /\ output = NoOutput

-----------------------------------------------------------------------------
(* main(): "Not enough arguments!"                                         *)
AzBadArgs ==
  /\ pc = "main" /\ argc # 4
  /\ pc' = "done"
  /\ UNCHANGED <<argc, regState, elapsed, auth, result, output>>

(* The registration token is made, and the registration PUT is sent.     *)
AzPut ==
  /\ pc = "main" /\ argc = 4
  /\ auth' = SasToken(RegistrationResource, RegistrationExpiry)
  /\ pc' = "put"
  /\ UNCHANGED <<argc, regState, elapsed, result, output>>

(* One iteration of the polling loop sends the GET of the operation.      *)
AzPoll ==
  /\ pc = "poll" /\ result.ok /\ result.status = "assigning"
  /\ pc' = "get"
  /\ UNCHANGED <<argc, regState, elapsed, auth, result, output>>

(* The service answers the pending request, which took lat seconds; the   *)
(* answer is parsed (json.loads) into result.                              *)
ServiceAnswers ==
  /\ \/ pc = "put" /\ pc' = "poll"
     \/ pc = "get" /\ pc' = "sleep"
  /\ \E lat \in Latency :
       /\ elapsed' = Later(elapsed, lat)
       /\ result' \in Answers(Later(elapsed, lat))
  /\ UNCHANGED <<argc, regState, auth, output>>

(* An error answer whose body is not JSON (a gateway's HTML page): the     *)
(* json.loads(result.text) that precedes any look at result.ok raises.     *)
ServiceAnswersNotJson ==
  /\ pc \in {"put", "get"}
  /\ pc' = "crashed"
  /\ UNCHANGED <<argc, regState, elapsed, auth, result, output>>

(* The end of the loop body: sleep(1).                                     *)
AzSleep ==
  /\ pc = "sleep"
  /\ elapsed' = Later(elapsed, 1)
  /\ pc' = "poll"
  /\ UNCHANGED <<argc, regState, auth, result, output>>

(* The loop ends on an HTTP error: the error is logged, _retrieve_hostname *)
(* returns None, and main() prints credentials built on None.              *)
AzPollError ==
  /\ pc = "poll" /\ ~result.ok
  /\ output' = Credentials(None)
  /\ pc' = "done"
  /\ UNCHANGED <<argc, regState, elapsed, auth, result>>

(* Mutant: the hostname taken from registrationState, not assignedHub.     *)
AzPollResolvedState ==
  /\ pc = "poll" /\ result.ok /\ result.status \in {"assigned", "failed"}
  /\ output' = Credentials([status |-> result.status, hub |-> result.hub])
  /\ pc' = "done"
  /\ UNCHANGED <<argc, regState, elapsed, auth, result>>

(* The loop ends on a resolved answer: the hostname is                     *)
(* registrationState.assignedHub (None for a failed registration).        *)
AzPollResolved ==
  /\ pc = "poll" /\ result.ok /\ result.status \in {"assigned", "failed"}
  /\ output' = Credentials(result.hub)
  /\ pc' = "done"
  /\ UNCHANGED <<argc, regState, elapsed, auth, result>>

(* The loop ends on an ok answer without registrationState:               *)
(* data.get("registrationState") is None and .get("assignedHub") raises  *)
(* AttributeError.                                                         *)
AzPollNoState ==
  /\ pc = "poll" /\ result.ok /\ result.status = None
  /\ pc' = "crashed"
  /\ UNCHANGED <<argc, regState, elapsed, auth, result, output>>

(* The service finishes the assignment (not code of this repository).     *)
ServiceResolves ==
  /\ regState.status = "assigning"
  /\ regState' \in [status : {"assigned"}, hub : Hubs]
                   \cup {[status |-> "failed", hub |-> None]}
  /\ UNCHANGED <<pc, argc, elapsed, auth, result, output>>

(* The process has ended.                                                  *)
Halted == pc \in {"done", "crashed"} /\ UNCHANGED vars

Client == AzBadArgs \/ AzPut \/ AzPoll \/ AzSleep \/ AzPollError \/ AzPollResolved
          \/ AzPollNoState

Next ==
  \/ AzBadArgs \/ AzPut \/ AzPoll \/ AzSleep \/ AzPollError \/ AzPollResolved
  \/ AzPollNoState
  \/ ServiceAnswers \/ ServiceAnswersNotJson \/ ServiceResolves \/ Halted

(* The script is never stopped: weak fairness of its own steps.  Nothing *)
(* makes a request return: requests.put and requests.get are called       *)
(* without a timeout (lines 94 and 102), so that is a hypothesis of the   *)
(* liveness property, not a fairness condition of the script.              *)
Fairness == WF_vars(Client)

Spec == Init /\ [][Next]_vars /\ Fairness

-----------------------------------------------------------------------------
(* Type invariant.                                                         *)
TypeOK ==
  /\ pc \in {"main", "put", "poll", "get", "sleep", "done", "crashed"}
  /\ regState \in [status : {"assigning", "assigned", "failed"},
                   hub : Hubs \cup {None}]
  /\ elapsed \in 0..AUTH_TOKEN_TTL
  /\ auth \in {NoToken, SasToken(RegistrationResource, RegistrationExpiry)}
  /\ result \in [ok : BOOLEAN, status : {"assigning", "assigned", "failed", None},
                 hub : Hubs \cup {None}]
  /\ output \in {NoOutput} \cup {Credentials(h) : h \in Hubs \cup {None}}

(* If every HTTP request eventually returns with some answer (the network *)
(* hypothesis: weak fairness of ServiceAnswers), the script ends, normally *)
(* or on an exception, whether or not the service ever resolves the       *)
(* registration: each iteration sleeps a second, and the registration     *)
(* token expires after 30 seconds, after which every answer is an error.  *)
(* Which answer comes is not constrained.                                  *)
Termination == WF_vars(ServiceAnswers) => <>(pc \in {"done", "crashed"})

(* Credentials are printed only for the hub the service assigned to the   *)
(* device (the docstrings: _retrieve_hostname returns "the IoT Central    *)
(* hostname", _generate_credentials "the username and password").          *)
CredentialsOnlyForAssignedHub ==
  output.printed =>
    /\ regState.status = "assigned"
    /\ output.user = regState.hub

=============================================================================
