--------------------------- MODULE LocationsProtos ----------------------------
(* The message classes and enums of src/protos/locations.js: the locations  *)
(* mixin.                                                                   *)
EXTENDS ProtoSchema

-----------------------------------------------------------------------------
ListLocationsRequest == Message("google.cloud.location",
  <<One("name", 1, "string"), One("filter", 2, "string"),
    One("pageSize", 3, "int32"), One("pageToken", 4, "string")>>)

ListLocationsResponse == Message("google.cloud.location",
  <<Repeated("locations", 1, "Location"), One("nextPageToken", 2, "string")>>)

GetLocationRequest == Message("google.cloud.location",
  <<One("name", 1, "string")>>)

Location == Message("google.cloud.location",
  <<One("name", 1, "string"), MapOf("labels", 2, "string"),
    Sub("metadata", 3, "Any"), One("locationId", 4, "string"),
    One("displayName", 5, "string")>>)

-----------------------------------------------------------------------------
Http == Message("google.api",
  <<Repeated("rules", 1, "HttpRule"), One("fullyDecodeReservedExpansion", 2, "bool")>>)

HttpRule == Message("google.api",
  <<One("selector", 1, "string"), Choice("pattern", "get", 2, "string"),
    Choice("pattern", "put", 3, "string"), Choice("pattern", "post", 4, "string"),
    Choice("pattern", "delete", 5, "string"),
    Choice("pattern", "patch", 6, "string"), One("body", 7, "string"),
    Choice("pattern", "custom", 8, "CustomHttpPattern"),
    Repeated("additionalBindings", 11, "HttpRule"),
    One("responseBody", 12, "string")>>)

CustomHttpPattern == Message("google.api",
  <<One("kind", 1, "string"), One("path", 2, "string")>>)

-----------------------------------------------------------------------------
FileDescriptorSet == Message("google.protobuf",
  <<Repeated("file", 1, "FileDescriptorProto")>>)

FileDescriptorProto == Message("google.protobuf",
  <<One("name", 1, "string"), One("package", 2, "string"),
    Repeated("dependency", 3, "string"),
    Repeated("messageType", 4, "DescriptorProto"),
    Repeated("enumType", 5, "EnumDescriptorProto"),
    Repeated("service", 6, "ServiceDescriptorProto"),
    Repeated("extension", 7, "FieldDescriptorProto"),
    Sub("options", 8, "FileOptions"), Sub("sourceCodeInfo", 9, "SourceCodeInfo"),
    Repeated("publicDependency", 10, "int32"),
    Repeated("weakDependency", 11, "int32"), One("syntax", 12, "string")>>)

DescriptorProto == Message("google.protobuf",
  <<One("name", 1, "string"), Repeated("field", 2, "FieldDescriptorProto"),
    Repeated("nestedType", 3, "DescriptorProto"),
    Repeated("enumType", 4, "EnumDescriptorProto"),
    Repeated("extensionRange", 5, "DescriptorProto_ExtensionRange"),
    Repeated("extension", 6, "FieldDescriptorProto"),
    Sub("options", 7, "MessageOptions"),
    Repeated("oneofDecl", 8, "OneofDescriptorProto"),
    Repeated("reservedRange", 9, "DescriptorProto_ReservedRange"),
    Repeated("reservedName", 10, "string")>>)

DescriptorProto_ExtensionRange == Message("google.protobuf",
  <<One("start", 1, "int32"), One("end", 2, "int32"),
    Sub("options", 3, "ExtensionRangeOptions")>>)

DescriptorProto_ReservedRange == Message("google.protobuf",
  <<One("start", 1, "int32"), One("end", 2, "int32")>>)

ExtensionRangeOptions == Message("google.protobuf",
  <<Repeated("uninterpretedOption", 999, "UninterpretedOption")>>)

FieldDescriptorProto == Message("google.protobuf",
  <<One("name", 1, "string"), One("extendee", 2, "string"),
    One("number", 3, "int32"), OneOr("label", 4, "FieldDescriptorProto_Label", 1),
    OneOr("type", 5, "FieldDescriptorProto_Type", 1), One("typeName", 6, "string"),
    One("defaultValue", 7, "string"), Sub("options", 8, "FieldOptions"),
    One("oneofIndex", 9, "int32"), One("jsonName", 10, "string"),
    One("proto3Optional", 17, "bool")>>)

FieldDescriptorProto_Type == Enum("google.protobuf",
    [TYPE_DOUBLE |-> 1, TYPE_FLOAT |-> 2, TYPE_INT64 |-> 3, TYPE_UINT64 |-> 4,
     TYPE_INT32 |-> 5, TYPE_FIXED64 |-> 6, TYPE_FIXED32 |-> 7, TYPE_BOOL |-> 8,
     TYPE_STRING |-> 9, TYPE_GROUP |-> 10, TYPE_MESSAGE |-> 11, TYPE_BYTES |-> 12,
     TYPE_UINT32 |-> 13, TYPE_ENUM |-> 14, TYPE_SFIXED32 |-> 15,
     TYPE_SFIXED64 |-> 16, TYPE_SINT32 |-> 17, TYPE_SINT64 |-> 18])

FieldDescriptorProto_Label == Enum("google.protobuf",
    [LABEL_OPTIONAL |-> 1, LABEL_REQUIRED |-> 2, LABEL_REPEATED |-> 3])

OneofDescriptorProto == Message("google.protobuf",
  <<One("name", 1, "string"), Sub("options", 2, "OneofOptions")>>)

EnumDescriptorProto == Message("google.protobuf",
  <<One("name", 1, "string"), Repeated("value", 2, "EnumValueDescriptorProto"),
    Sub("options", 3, "EnumOptions"),
    Repeated("reservedRange", 4, "EnumDescriptorProto_EnumReservedRange"),
    Repeated("reservedName", 5, "string")>>)

EnumDescriptorProto_EnumReservedRange == Message("google.protobuf",
  <<One("start", 1, "int32"), One("end", 2, "int32")>>)

EnumValueDescriptorProto == Message("google.protobuf",
  <<One("name", 1, "string"), One("number", 2, "int32"),
    Sub("options", 3, "EnumValueOptions")>>)

ServiceDescriptorProto == Message("google.protobuf",
  <<One("name", 1, "string"), Repeated("method", 2, "MethodDescriptorProto"),
    Sub("options", 3, "ServiceOptions")>>)

MethodDescriptorProto == Message("google.protobuf",
  <<One("name", 1, "string"), One("inputType", 2, "string"),
    One("outputType", 3, "string"), Sub("options", 4, "MethodOptions"),
    One("clientStreaming", 5, "bool"), One("serverStreaming", 6, "bool")>>)

FileOptions == Message("google.protobuf",
  <<One("javaPackage", 1, "string"), One("javaOuterClassname", 8, "string"),
    OneOr("optimizeFor", 9, "FileOptions_OptimizeMode", 1),
    One("javaMultipleFiles", 10, "bool"), One("goPackage", 11, "string"),
    One("ccGenericServices", 16, "bool"), One("javaGenericServices", 17, "bool"),
    One("pyGenericServices", 18, "bool"),
    One("javaGenerateEqualsAndHash", 20, "bool"), One("deprecated", 23, "bool"),
    One("javaStringCheckUtf8", 27, "bool"), OneOr("ccEnableArenas", 31, "bool", 1),
    One("objcClassPrefix", 36, "string"), One("csharpNamespace", 37, "string"),
    One("swiftPrefix", 39, "string"), One("phpClassPrefix", 40, "string"),
    One("phpNamespace", 41, "string"), One("phpGenericServices", 42, "bool"),
    One("phpMetadataNamespace", 44, "string"), One("rubyPackage", 45, "string"),
    Repeated("uninterpretedOption", 999, "UninterpretedOption")>>)

FileOptions_OptimizeMode == Enum("google.protobuf",
    [SPEED |-> 1, CODE_SIZE |-> 2, LITE_RUNTIME |-> 3])

MessageOptions == Message("google.protobuf",
  <<One("messageSetWireFormat", 1, "bool"),
    One("noStandardDescriptorAccessor", 2, "bool"), One("deprecated", 3, "bool"),
    One("mapEntry", 7, "bool"),
    Repeated("uninterpretedOption", 999, "UninterpretedOption")>>)

FieldOptions == Message("google.protobuf",
  <<One("ctype", 1, "FieldOptions_CType"), One("packed", 2, "bool"),
    One("deprecated", 3, "bool"), One("lazy", 5, "bool"),
    One("jstype", 6, "FieldOptions_JSType"), One("weak", 10, "bool"),
    Repeated("uninterpretedOption", 999, "UninterpretedOption")>>)

FieldOptions_CType == Enum("google.protobuf",
    [STRING |-> 0, CORD |-> 1, STRING_PIECE |-> 2])

FieldOptions_JSType == Enum("google.protobuf",
    [JS_NORMAL |-> 0, JS_STRING |-> 1, JS_NUMBER |-> 2])

OneofOptions == Message("google.protobuf",
  <<Repeated("uninterpretedOption", 999, "UninterpretedOption")>>)

EnumOptions == Message("google.protobuf",
  <<One("allowAlias", 2, "bool"), One("deprecated", 3, "bool"),
    Repeated("uninterpretedOption", 999, "UninterpretedOption")>>)

EnumValueOptions == Message("google.protobuf",
  <<One("deprecated", 1, "bool"),
    Repeated("uninterpretedOption", 999, "UninterpretedOption")>>)

ServiceOptions == Message("google.protobuf",
  <<One("deprecated", 33, "bool"),
    Repeated("uninterpretedOption", 999, "UninterpretedOption"),
    One(".google.api.defaultHost", 1049, "string"),
    One(".google.api.oauthScopes", 1050, "string")>>)

MethodOptions == Message("google.protobuf",
  <<One("deprecated", 33, "bool"),
    One("idempotencyLevel", 34, "MethodOptions_IdempotencyLevel"),
    Repeated("uninterpretedOption", 999, "UninterpretedOption"),
    Repeated(".google.api.methodSignature", 1051, "string"),
    Sub(".google.api.http", 72295728, "HttpRule")>>)

MethodOptions_IdempotencyLevel == Enum("google.protobuf",
    [IDEMPOTENCY_UNKNOWN |-> 0, NO_SIDE_EFFECTS |-> 1, IDEMPOTENT |-> 2])

UninterpretedOption == Message("google.protobuf",
  <<Repeated("name", 2, "UninterpretedOption_NamePart"),
    One("identifierValue", 3, "string"), One("positiveIntValue", 4, "uint64"),
    One("negativeIntValue", 5, "int64"), One("doubleValue", 6, "double"),
    One("stringValue", 7, "bytes"), One("aggregateValue", 8, "string")>>)

UninterpretedOption_NamePart == Message("google.protobuf",
  <<Required("namePart", 1, "string"), Required("isExtension", 2, "bool")>>)

SourceCodeInfo == Message("google.protobuf",
  <<Repeated("location", 1, "SourceCodeInfo_Location")>>)

SourceCodeInfo_Location == Message("google.protobuf",
  <<Packed("path", 1, "int32"), Packed("span", 2, "int32"),
    One("leadingComments", 3, "string"), One("trailingComments", 4, "string"),
    Repeated("leadingDetachedComments", 6, "string")>>)

GeneratedCodeInfo == Message("google.protobuf",
  <<Repeated("annotation", 1, "GeneratedCodeInfo_Annotation")>>)

GeneratedCodeInfo_Annotation == Message("google.protobuf",
  <<Packed("path", 1, "int32"), One("sourceFile", 2, "string"),
    One("begin", 3, "int32"), One("end", 4, "int32")>>)

Any == Message("google.protobuf",
  <<One("type_url", 1, "string"), One("value", 2, "bytes")>>)

-----------------------------------------------------------------------------
(* All of them, under their names. *)
Package ==
    [ListLocationsRequest |-> ListLocationsRequest,
     ListLocationsResponse |-> ListLocationsResponse,
     GetLocationRequest |-> GetLocationRequest, Location |-> Location,
     Http |-> Http, HttpRule |-> HttpRule, CustomHttpPattern |-> CustomHttpPattern,
     FileDescriptorSet |-> FileDescriptorSet,
     FileDescriptorProto |-> FileDescriptorProto,
     DescriptorProto |-> DescriptorProto,
     DescriptorProto_ExtensionRange |-> DescriptorProto_ExtensionRange,
     DescriptorProto_ReservedRange |-> DescriptorProto_ReservedRange,
     ExtensionRangeOptions |-> ExtensionRangeOptions,
     FieldDescriptorProto |-> FieldDescriptorProto,
     FieldDescriptorProto_Type |-> FieldDescriptorProto_Type,
     FieldDescriptorProto_Label |-> FieldDescriptorProto_Label,
     OneofDescriptorProto |-> OneofDescriptorProto,
     EnumDescriptorProto |-> EnumDescriptorProto,
     EnumDescriptorProto_EnumReservedRange |-> EnumDescriptorProto_EnumReservedRange,
     EnumValueDescriptorProto |-> EnumValueDescriptorProto,
     ServiceDescriptorProto |-> ServiceDescriptorProto,
     MethodDescriptorProto |-> MethodDescriptorProto, FileOptions |-> FileOptions,
     FileOptions_OptimizeMode |-> FileOptions_OptimizeMode,
     MessageOptions |-> MessageOptions, FieldOptions |-> FieldOptions,
     FieldOptions_CType |-> FieldOptions_CType,
     FieldOptions_JSType |-> FieldOptions_JSType, OneofOptions |-> OneofOptions,
     EnumOptions |-> EnumOptions, EnumValueOptions |-> EnumValueOptions,
     ServiceOptions |-> ServiceOptions, MethodOptions |-> MethodOptions,
     MethodOptions_IdempotencyLevel |-> MethodOptions_IdempotencyLevel,
     UninterpretedOption |-> UninterpretedOption,
     UninterpretedOption_NamePart |-> UninterpretedOption_NamePart,
     SourceCodeInfo |-> SourceCodeInfo,
     SourceCodeInfo_Location |-> SourceCodeInfo_Location,
     GeneratedCodeInfo |-> GeneratedCodeInfo,
     GeneratedCodeInfo_Annotation |-> GeneratedCodeInfo_Annotation, Any |-> Any]

===============================================================================
