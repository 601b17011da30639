-------------------------- MODULE MCAdministration -------------------------
(* Administration for one site, two order lists and two callers.            *)
EXTENDS Administration

MCOps == {"site.delete", "source.create", "source.delete", "monitor.create", "monitor.delete",
          "destination.create", "destination.update", "destination.delete",
          "destination.archive", "subscription.create", "subscription.delete",
          "policy.put", "robots.put", "robots.delete", "site.create", "site.rename",
          "source.update_config"}
MCOrder == {<<1>>, <<2, 3>>}
MCQuota == [t \in Tables |-> IF t = "check_jobs" THEN 1 ELSE 2]
MCClients == Permutations(Client)
=============================================================================
