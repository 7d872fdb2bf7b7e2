--------------------------- MODULE MCOutboundQueue --------------------------
(* Small instances of OutboundQueue: two partners, one job for each.  The  *)
(* partner "gone" is missing from some versions of partners.yaml.          *)
EXTENDS OutboundQueue, TLC

CONSTANTS j1, j2, here, gone

MCJobs == {j1, j2}
MCPartners == {here, gone}
MCPartnerOf == (j1 :> here) @@ (j2 :> gone)
AnyRegistry == {{here, gone}, {here}}
FullRegistry == {{here, gone}}
=============================================================================
