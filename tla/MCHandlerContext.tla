-------------------------- MODULE MCHandlerContext --------------------------
(* A job with the exceptions that fall under different rules, one of them  *)
(* claimed by an override and one that two rules claim; a subclass of an   *)
(* SDK error, and exceptions that are no Exception or process-level.       *)
EXTENDS HandlerContext

MCOverrides == <<Rule("quota", TRUE)>>

MCRaisable ==
    {Symba("FatalError"), SubclassOf("ProviderBusy", "RetryableError"),
     Other("ValueError", {"programming_or_data_error"}, None),
     Other("TimeoutError", {"timeout", "named_timeout"}, None),
     Other("MemoryError", {}, None), Other("CancelledError", {"base"}, None),
     Other("GeneratorExit", {"base"}, None),
     Other("QuotaError", {"quota"}, None),
     Other("ConnectTimeout", {"http_transport_error"}, 404)}
=============================================================================
