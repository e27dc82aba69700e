------------------------------ MODULE MCSignIn ------------------------------
(* Constants for model-checking SignIn.                                    *)
EXTENDS SignIn

CONSTANTS Main, Spare, Blank, Refused

OwnIds == [x \in {Main, Spare} |-> IF x = Main THEN 1 ELSE 2]
OneId  == [x \in {Main, Spare} |-> 1]

Registering ==
  [protocol_version |-> 1, well_formed |-> TRUE, issuer |-> "https",
   ingests_endpoint |-> "https", client_id |-> FALSE, min_plugin_version |-> <<2, 0, 9>>,
   authorization_endpoint |-> "https", token_endpoint |-> "loopback",
   registration_endpoint |-> "https", revocation_endpoint |-> None]

SomeDocuments ==
  {Registering,
   [Registering EXCEPT !.client_id = TRUE, !.min_plugin_version = <<2, 1, 1>>],
   [Registering EXCEPT !.token_endpoint = "plain"]}

OneHeld == {{}, {1}}
NoneHeld == {{}}

ThisVersion == <<2, 1, 0>>

(* The providers a sign-in starts from are those Catalog offers; checked   *)
(* here over all short files.                                              *)
Offered == INSTANCE Catalog

Url(kind, host, slashes) == [kind |-> kind, host |-> host, slashes |-> slashes]
RawEntries ==
  [name : {Main}, url : {Url("https", h, n) : h \in 1..3, n \in 0..1} \cup {Url("loopback", 1, 0)},
   priority : 0..1]
  \cup {[name |-> Blank, url |-> Url("https", 1, 0), priority |-> 0],
        [name |-> Main, url |-> Url("plain", 1, 0), priority |-> 0]}

ASSUME \A n \in 0..4 : \A raw \in [1..n -> RawEntries] : Offered!DropdownFollowsFile(raw)
=============================================================================
