-------------------------- MODULE MCBrowserSession --------------------------
EXTENDS BrowserSession
=============================================================================
