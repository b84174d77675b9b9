---------------------------- MODULE TokenEndpoint ----------------------------
(***************************************************************************)
(* The route /trusteed/token (controllers/main.py): it reads the           *)
(* connection parameters from ir.config_parameter, checks the session, and *)
(* lets the Trusteed relay mint an opaque access token.  The panel calls   *)
(* it over HTTP, the setup wizard calls the same method in process.        *)
(*                                                                         *)
(* The parameters are read once, at the beginning of a request: whatever   *)
(* is saved while the relay is answering is seen by the next request only. *)
(* A token is named by the API base that minted it, which is all that the  *)
(* code and the API tell tokens apart by.                                  *)
(***************************************************************************)
CONSTANTS
    Merchant,     \* the merchant ids that can be stored
    Secret,       \* the bootstrap secrets that can be stored
    Registered,   \* the <<merchant, secret>> pairs that Trusteed knows
    Base,         \* the API bases that can be stored
    SafeBase,     \* those that validate_api_base accepts
    Unset         \* an empty parameter

ASSUME EndpointAssumption ==
    /\ SafeBase \subseteq Base
    /\ Registered \subseteq Merchant \X Secret
    /\ Unset \notin Merchant \cup Secret \cup Base

VARIABLE params   \* the rows trusteed.* of ir.config_parameter

Params ==
    [ merchant : Merchant \cup {Unset},
      secret : Secret \cup {Unset},
      base : Base ]

\* What the route knows of the session: a user who is not public, the group
\* trusteed.group_user, an active company among the user's companies.
Session == [user : BOOLEAN, member : BOOLEAN, inCompany : BOOLEAN]

Error == {"unauthorized", "configure_module_first", "invalid_api_base",
          "company_mismatch", "issue_token_rejected"}

Granted(base) == [success |-> TRUE, error |-> "none", base |-> base]
Refused(error) == [success |-> FALSE, error |-> error, base |-> Unset]

Answer == {Granted(b) : b \in SafeBase} \cup {Refused(e) : e \in Error}

(***************************************************************************)
(* _do_issue_token: one attempt.  A timeout, a refused connection, a       *)
(* redirect and an error of the relay all reach the caller as the error    *)
(* issue_token_rejected; a token comes for a registered pair only.         *)
(***************************************************************************)
IssueToken ==
    {Refused("issue_token_rejected")}
        \cup IF <<params.merchant, params.secret>> \in Registered
             THEN {Granted(params.base)}
             ELSE {}

\* The answers that exchange_bootstrap may give to a session.
ExchangeBootstrap(session) ==
    IF ~session.user \/ ~session.member
    THEN {Refused("unauthorized")}
    ELSE IF params.merchant = Unset \/ params.secret = Unset
    THEN {Refused("configure_module_first")}
    ELSE IF params.base \notin SafeBase
    THEN {Refused("invalid_api_base")}
    ELSE IF ~session.inCompany
    THEN {Refused("company_mismatch")}
    ELSE IssueToken
=============================================================================
