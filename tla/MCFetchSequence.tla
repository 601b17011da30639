-------------------------- MODULE MCFetchSequence --------------------------
(* FetchSequence with the constants of the code and a small site: a page, a *)
(* page on another port (accepted by the Worker, not by executors), a page  *)
(* of another host and one no guard accepts.                                *)
EXTENDS FetchSequence

Resp(status, over, captcha, location) ==
  [status |-> status, over |-> over, captcha |-> captcha, location |-> location]

MCResponses ==
  {Resp(301, FALSE, FALSE, u) : u \in Urls \cup {"missing"}} \cup
  {Resp(200, FALSE, FALSE, "missing"), Resp(200, TRUE, FALSE, "missing"),
   Resp(403, FALSE, FALSE, "missing"), Resp(403, FALSE, TRUE, "missing"),
   Resp(404, FALSE, FALSE, "missing"), Resp(500, FALSE, FALSE, "missing")}

Entry(id, proceedOn) == [id |-> id, proceedOn |-> proceedOn]

MCPolicies ==
  {<<Entry("cf-http", DefaultProceedable \cup {"not_found"}),
     Entry("home-http", DefaultProceedable)>>,
   <<Entry("home-http", DefaultProceedable \cup {"http_403"}),
     Entry("gcp-http", {"timeout"})>>,
   <<Entry("gcp-http", DefaultProceedable), Entry("cf-http", {}),
     Entry("home-http", {})>>}
=============================================================================
