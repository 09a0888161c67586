\* The same, against what the docstring of validate_candidate says of the key
\* `verified`.
CONSTANTS
    Contents <- MCContents
    MaxBioChars = 5
SPECIFICATION Spec
INVARIANT VerifiedIsRejected
