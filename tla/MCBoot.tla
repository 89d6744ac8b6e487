------------------------------- MODULE MCBoot -------------------------------
EXTENDS Boot, TLC

MCSecrets == <<"AUTH_SECRET", "AUTH_SERVICE_KEY", "SENTRY_DSN">>
=============================================================================
