----------------------------- MODULE MCRouting -----------------------------
EXTENDS Routing, TLC

(* A packet is a number: destination (youtube, ru or blocked) modulo 3,    *)
(* then one bit each for UDP, a NetBIOS port and BitTorrent.               *)
MCPackets == 0..23
Coverage ==
  [m \in {"youtube.com", "youtu", "geosite-youtube", "geoip-ru", "refilter", "udp", "netbios", "bittorrent"} |->
     {q \in MCPackets :
        CASE m \in {"youtube.com", "youtu", "geosite-youtube"} -> q % 3 = 0
          [] m = "geoip-ru"   -> q % 3 = 1
          [] m = "refilter"   -> q % 3 = 2
          [] m = "udp"        -> (q \div 3) % 2 = 1
          [] m = "netbios"    -> (q \div 6) % 2 = 1
          [] m = "bittorrent" -> q \div 12 = 1}]
MCCovers(m) == Coverage[m]

(* A domain suffix; a keyword; an address list behind a port, with the     *)
(* legacy action "block".                                                  *)
MCRules == {Rule("route", "vpn", [domain |-> {"youtube.com"}]),
            Rule("route", "vpn", [domain |-> {"youtu"}]),
            Rule("block", "", [sets |-> {"geoip-ru"}, port |-> {"netbios"}])}
MCSets == {[tag |-> "refilter", fmt |-> "mrs"], [tag |-> "geosite-youtube", fmt |-> "srs"]}
NoConditions == [domain |-> {}]
MCDocument ==
  [inbs |-> <<"tun", "mixed">>, outs |-> <<"vpn">>, final |-> "",
   sets |-> <<[tag |-> "geosite-youtube", fmt |-> "srs"]>>,
   rules |-> <<Rule("sniff", "", NoConditions), Rule("route", "direct", [sets |-> {"geosite-youtube"}])>>]
State(outs, inbound, core) == [outs |-> outs, inbound |-> inbound, core |-> core]
MCStarts == {<<None, State(<<"vpn", "mieru">>, "tproxy", "sing-box")>>,
             <<MCDocument, State(<<"vpn">>, "tproxy", "sing-box")>>,
             <<None, State(<<"direct">>, "tun", "xray")>>}
Symmetry == Permutations(Procs)
=============================================================================
