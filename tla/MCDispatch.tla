----------------------------- MODULE MCDispatch -----------------------------
\* Model checking of Dispatch.
EXTENDS Dispatch

\* a failure that looks like the dispatcher's own, and no verdict at all
MCOtherVerdicts == {<<"DispatcherError", "ProviderRateLimited">>, <<None, None>>}
=============================================================================
