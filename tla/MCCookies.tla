------------------------------ MODULE MCCookies ------------------------------
EXTENDS Cookies
=============================================================================
