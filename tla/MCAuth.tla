-------------------------------- MODULE MCAuth --------------------------------
(* Auth for TLC: settings spelled in several ways, a JWT with and one without an organisation. *)
EXTENDS Auth

CONSTANTS k1

S(env, dev, issuer, required) == [env |-> env, dev |-> dev, issuer |-> issuer, required |-> required]
MCSettings == {S("", "", "https://id", TRUE), S("Prod", "off", "https://id", TRUE), S("prod ", "nope", "https://id", TRUE),
               S("Stage", "no", "", TRUE), S("qa", "no", "https://id", TRUE), S("dev", "0", "https://id", FALSE)}
MCLowered == [s \in UNION {{x.env, x.dev, x.issuer} : x \in MCSettings} |->
                 CASE s \in {"Prod", "prod "} -> "prod" [] s = "Stage" -> "stage" [] OTHER -> s]
MCTokens == {[key |-> k1, org |-> "acme", info |-> "acme"], [key |-> k1, org |-> " ", info |-> "acme"]}
=============================================================================
