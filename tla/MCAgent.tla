------------------------------ MODULE MCAgent ------------------------------
(***************************************************************************)
(* An instance of Agent: two hosts, one of which presents a certificate,   *)
(* a key on a FIDO token and one on a PKCS#11 token with its certificate.  *)
(***************************************************************************)
EXTENDS Agent

near == [name |-> "near", ca |-> None, host |-> None]
far == [name |-> "far", ca |-> "authority", host |-> "far.example"]
TwoHosts == [s \in Sessions |-> IF s = "s2" THEN far ELSE near]
TokenCert == [k \in TokenKeys |-> "tokencert"]

Hop(hostname, user, keys) == [hostname |-> hostname, user |-> user, keys |-> keys]
Here == Hop(None, "", {})
Near(user) == Hop("near.example", user, {[key |-> near, ca |-> FALSE]})
Far(user) == Hop("far.example", user, {[key |-> [name |-> "authority", ca |-> None, host |-> None], ca |-> TRUE]})

ToNear == [from |-> Here, to |-> Near("")]
NearToFar == [from |-> Near(""), to |-> Far("alice")]
Malformed == [from |-> Near("alice"), to |-> Far("")]

Restrict_(dest) == [type |-> "restrict-destination", dest |-> dest]
Life_(n) == [type |-> "lifetime", life |-> n]
Confirm == [type |-> "confirm"]

Constraints ==
    { <<>>, <<Life_(2), Confirm>>, <<Confirm, Confirm>>, <<Restrict_(<<Malformed>>)>>,
      <<Restrict_(<<ToNear>>)>>, <<Restrict_(<<ToNear, NearToFar>>), Life_(1)>>,
      <<[type |-> "sk-provider", provider |-> "internal"]>>,
      <<[type |-> "sk-provider", provider |-> "allowed"]>>,
      <<[type |-> "associated-certs", certs |-> {"tokencert"}, only |-> TRUE], Restrict_(<<ToNear>>)>> }
=====
