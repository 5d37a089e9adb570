\* A 401 answered before a sign-in and handled after it sends the freshly signed-in user back to login.
CONSTANTS
    r1 = r1
    r2 = r2
    r3 = r3
    Req <- MCReqLive
    MaxVersion = 2
    MaxLogins = 1
    Failures = {}

SPECIFICATION Spec

PROPERTY NoRedirectOfValidSession

CHECK_DEADLOCK FALSE
